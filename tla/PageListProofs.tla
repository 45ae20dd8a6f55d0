---------------------------- MODULE PageListProofs -----------------------------
(***************************************************************************)
(* What the lists of PageLists hold, for every page size, length of a      *)
(* descriptor and size of the ring.                                        *)
(*                                                                         *)
(* The loops that turn a buffer into lists are recursive functions.  What  *)
(* they compute is shown by induction over the set of the numbers for      *)
(* which it holds.                                                         *)
(***************************************************************************)
EXTENDS PageLists, WellFoundedInduction, FiniteSetTheorems, TLAPS

-----------------------------------------------------------------------------
(* Induction                                                               *)

LEMMA LeastNumber ==
  ASSUME NEW T, T \in SUBSET Nat, T # {}
  PROVE  \E x \in T : \A y \in T : x <= y
<1> DEFINE R == OpToRel(<, Nat)
<1>1. IsWellFoundedOn(R, Nat)
  BY NatLessThanWellFounded
<1>2. \A x, y \in Nat : <<y, x>> \in R <=> y < x
  BY DEF OpToRel
<1> HIDE DEF R
<1>3. PICK x \in T : \A y \in T : ~(<<y, x>> \in R)
  BY <1>1, WFMin
<1>4. ASSUME NEW y \in T PROVE x <= y
  <2>1. y \in Nat /\ x \in Nat
    OBVIOUS
  <2>2. <<y, x>> \notin R
    BY <1>3, Zenon
  <2>3. ~(y < x)
    BY <2>1, <2>2, <1>2, Zenon
  <2> QED BY <2>1, <2>3
<1> QED BY <1>4

(* A set that holds 0 and with every number below n its successor          *)
LEMMA Induction ==
  ASSUME NEW n \in Nat, NEW T, 0 \in T,
         \A k \in 0..n - 1 : k \in T => k + 1 \in T
  PROVE  \A k \in 0..n : k \in T
<1> DEFINE U == {k \in 0..n : k \notin T}
<1>1. ASSUME U # {} PROVE FALSE
  <2>1. U \in SUBSET Nat
    OBVIOUS
  <2> HIDE DEF U
  <2>2. PICK x \in U : \A y \in U : x <= y
    BY <1>1, <2>1, LeastNumber
  <2>3. x \in 0..n /\ x \notin T
    BY <2>2 DEF U
  <2>4. x # 0 /\ x - 1 \in 0..n - 1
    BY <2>3
  <2>5. x - 1 \in T
    BY <2>2, <2>4 DEF U
  <2>6. x - 1 + 1 \in T
    BY <2>4, <2>5
  <2> QED BY <2>3, <2>6
<1> QED BY <1>1

-----------------------------------------------------------------------------
(* Quotients and remainders                                                *)

LEMMA Division ==
  ASSUME NEW n \in Nat, NEW P \in Nat \ {0}
  PROVE  /\ n \div P \in Nat /\ n % P \in 0..P - 1
         /\ n = P * (n \div P) + (n % P)
<1> DEFINE q == n \div P
           r == n % P
<1>1. q = n \div P /\ r = n % P
  OBVIOUS
<1> HIDE DEF q, r
<1>2. q \in Nat /\ r \in 0..P - 1
  BY <1>1
<1>3. n = P * q + r
  BY <1>1, <1>2
<1> QED BY <1>1, <1>2, <1>3

LEMMA Products ==
  ASSUME NEW P \in Nat \ {0}, NEW a \in Int, NEW b \in Int, a < b
  PROVE  P * a + P <= P * b
<1>1. P * (b - a - 1) >= 0
  OBVIOUS
<1>2. P * (b - a - 1) = P * b - P * a - P
  OBVIOUS
<1> QED BY <1>1, <1>2

LEMMA DivisionUnique ==
  ASSUME NEW P \in Nat \ {0}, NEW n \in Nat, NEW q \in Int, NEW r \in 0..P - 1,
         n = P * q + r
  PROVE  n \div P = q /\ n % P = r
<1> DEFINE a == n \div P
           b == n % P
<1>1. a \in Nat /\ b \in 0..P - 1 /\ n = P * a + b
  BY Division
<1> HIDE DEF a, b
<1>2. P * a \in Int /\ P * q \in Int
  BY <1>1
<1>3. ~(a < q)
  BY <1>1, <1>2, Products
<1>4. ~(q < a)
  BY <1>1, <1>2, Products
<1>5. a = q
  BY <1>1, <1>3, <1>4
<1>6. b = r
  BY <1>1, <1>2, <1>5
<1> QED BY <1>5, <1>6 DEF a, b

(* Inside a block, and to its end.                                         *)
LEMMA InBlock ==
  ASSUME NEW P \in Nat \ {0}, NEW n \in Nat, NEW b \in Nat, (n % P) + b < P
  PROVE  (n + b) \div P = n \div P /\ (n + b) % P = (n % P) + b
<1> DEFINE q == n \div P
           r == n % P
<1>1. q \in Nat /\ r \in 0..P - 1 /\ n = P * q + r
  BY Division
<1>2. r + b < P
  OBVIOUS
<1> HIDE DEF q, r
<1>3. n + b \in Nat /\ r + b \in 0..P - 1 /\ n + b = P * q + (r + b)
  BY <1>1, <1>2
<1>4. (n + b) \div P = q /\ (n + b) % P = r + b
  BY <1>1, <1>3, DivisionUnique
<1> QED BY <1>4 DEF q, r

LEMMA NextBlock ==
  ASSUME NEW P \in Nat \ {0}, NEW n \in Nat, NEW b \in Nat, (n % P) + b = P
  PROVE  (n + b) \div P = (n \div P) + 1 /\ (n + b) % P = 0
<1> DEFINE q == n \div P
           r == n % P
<1>1. q \in Nat /\ r \in 0..P - 1 /\ n = P * q + r
  BY Division
<1>2. r + b = P
  OBVIOUS
<1> HIDE DEF q, r
<1>3. P * (q + 1) = P * q + P /\ P * q \in Int
  BY <1>1
<1>4. n + b \in Nat /\ n + b = P * (q + 1) + 0 /\ q + 1 \in Int /\ 0 \in 0..P - 1
  BY <1>1, <1>2, <1>3
<1>5. (n + b) \div P = q + 1 /\ (n + b) % P = 0
  BY <1>4, DivisionUnique
<1> QED BY <1>5 DEF q, r
-----------------------------------------------------------------------------
(* The loops: each of the recursive functions exists, and is what its      *)
(* definition says.                                                        *)

LEMMA CoveredLoop ==
  ASSUME NEW buf, NEW len, NEW n \in Nat
  PROVE  Covered(buf, len, n) =
           [k \in 0..n |-> IF k = 0 THEN 0
                           ELSE ChunkEnd(buf, len, Covered(buf, len, n)[k - 1])]
<1> DEFINE Step(x, k) == ChunkEnd(buf, len, x)
           base == 0
           Is(f, m) == f = [k \in 0..m |-> IF k = 0 THEN base ELSE Step(f[k - 1], k)]
<1>1. \A m \in 0..n : \E f : Is(f, m)
  <2> DEFINE T == {m \in 0..n : \E f : Is(f, m)}
  <2> HIDE DEF Step, base
  <2>1. 0 \in T
    <3>1. Is([k \in 0..0 |-> base], 0)
      OBVIOUS
    <3>2. \E f : Is(f, 0)
      <4> HIDE DEF Is
      <4> QED BY <3>1
    <3> QED BY <3>2
  <2>2. ASSUME NEW m \in 0..n - 1, m \in T PROVE m + 1 \in T
    <3>1. PICK f : Is(f, m)
      BY <2>2
    <3> DEFINE g == [k \in 0..m + 1 |-> IF k = m + 1 THEN Step(f[m], m + 1) ELSE f[k]]
    <3>2. \A k \in 0..m + 1 : g[k] = IF k = 0 THEN base ELSE Step(g[k - 1], k)
      <4> TAKE k \in 0..m + 1
      <4>1. k # 0 => k - 1 \in 0..m /\ g[k - 1] = f[k - 1]
        OBVIOUS
      <4>2. CASE k = m + 1
        BY <4>1, <4>2
      <4>3. CASE k # m + 1
        <5>1. k \in 0..m
          BY <4>3
        <5> QED BY <3>1, <4>1, <5>1
      <4> QED BY <4>2, <4>3
    <3>3. Is(g, m + 1)
      BY <3>2
    <3>4. \E h : Is(h, m + 1)
      <4> HIDE DEF Is, g
      <4> QED BY <3>3
    <3>5. m + 1 \in 0..n
      OBVIOUS
    <3> HIDE DEF Is
    <3> QED BY <3>4, <3>5
  <2>3. \A k \in 0..n : k \in T
    <3> HIDE DEF T
    <3> QED BY <2>1, <2>2, Induction
  <2> QED BY <2>3
<1>2. \E f : Is(f, n)
  <2> HIDE DEF Is
  <2> QED BY <1>1
<1>3. Covered(buf, len, n) = CHOOSE f : Is(f, n)
  BY Zenon DEF Covered
<1> HIDE DEF Is
<1>4. Is(Covered(buf, len, n), n)
  BY <1>2, <1>3, Zenon
<1> QED BY <1>4 DEF Is

LEMMA UptoLoop ==
  ASSUME NEW list, NEW n \in Nat, n = Len(list)
  PROVE  Upto(list) =
           [k \in 0..n |-> IF k = 0 THEN 0
                           ELSE Upto(list)[k - 1] + list[k].len]
<1> DEFINE Step(x, k) == x + list[k].len
           base == 0
           Is(f, m) == f = [k \in 0..m |-> IF k = 0 THEN base ELSE Step(f[k - 1], k)]
<1>1. \A m \in 0..n : \E f : Is(f, m)
  <2> DEFINE T == {m \in 0..n : \E f : Is(f, m)}
  <2> HIDE DEF Step, base
  <2>1. 0 \in T
    <3>1. Is([k \in 0..0 |-> base], 0)
      OBVIOUS
    <3>2. \E f : Is(f, 0)
      <4> HIDE DEF Is
      <4> QED BY <3>1
    <3> QED BY <3>2
  <2>2. ASSUME NEW m \in 0..n - 1, m \in T PROVE m + 1 \in T
    <3>1. PICK f : Is(f, m)
      BY <2>2
    <3> DEFINE g == [k \in 0..m + 1 |-> IF k = m + 1 THEN Step(f[m], m + 1) ELSE f[k]]
    <3>2. \A k \in 0..m + 1 : g[k] = IF k = 0 THEN base ELSE Step(g[k - 1], k)
      <4> TAKE k \in 0..m + 1
      <4>1. k # 0 => k - 1 \in 0..m /\ g[k - 1] = f[k - 1]
        OBVIOUS
      <4>2. CASE k = m + 1
        BY <4>1, <4>2
      <4>3. CASE k # m + 1
        <5>1. k \in 0..m
          BY <4>3
        <5> QED BY <3>1, <4>1, <5>1
      <4> QED BY <4>2, <4>3
    <3>3. Is(g, m + 1)
      BY <3>2
    <3>4. \E h : Is(h, m + 1)
      <4> HIDE DEF Is, g
      <4> QED BY <3>3
    <3>5. m + 1 \in 0..n
      OBVIOUS
    <3> HIDE DEF Is
    <3> QED BY <3>4, <3>5
  <2>3. \A k \in 0..n : k \in T
    <3> HIDE DEF T
    <3> QED BY <2>1, <2>2, Induction
  <2> QED BY <2>3
<1>2. \E f : Is(f, n)
  <2> HIDE DEF Is
  <2> QED BY <1>1
<1>3. Upto(list) = CHOOSE f : Is(f, n)
  BY Zenon DEF Upto
<1> HIDE DEF Is
<1>4. Is(Upto(list), n)
  BY <1>2, <1>3, Zenon
<1> QED BY <1>4 DEF Is

LEMMA RangesLoop ==
  ASSUME NEW sgl, NEW n \in Nat, n = Len(sgl)
  PROVE  RangeLoop(sgl) =
           [k \in 0..n |-> IF k = 0 THEN <<>>
                           ELSE AddRange(RangeLoop(sgl)[k - 1], sgl[k])]
<1> DEFINE Step(x, k) == AddRange(x, sgl[k])
           base == <<>>
           Is(f, m) == f = [k \in 0..m |-> IF k = 0 THEN base ELSE Step(f[k - 1], k)]
<1>1. \A m \in 0..n : \E f : Is(f, m)
  <2> DEFINE T == {m \in 0..n : \E f : Is(f, m)}
  <2> HIDE DEF Step, base
  <2>1. 0 \in T
    <3>1. Is([k \in 0..0 |-> base], 0)
      OBVIOUS
    <3>2. \E f : Is(f, 0)
      <4> HIDE DEF Is
      <4> QED BY <3>1
    <3> QED BY <3>2
  <2>2. ASSUME NEW m \in 0..n - 1, m \in T PROVE m + 1 \in T
    <3>1. PICK f : Is(f, m)
      BY <2>2
    <3> DEFINE g == [k \in 0..m + 1 |-> IF k = m + 1 THEN Step(f[m], m + 1) ELSE f[k]]
    <3>2. \A k \in 0..m + 1 : g[k] = IF k = 0 THEN base ELSE Step(g[k - 1], k)
      <4> TAKE k \in 0..m + 1
      <4>1. k # 0 => k - 1 \in 0..m /\ g[k - 1] = f[k - 1]
        OBVIOUS
      <4>2. CASE k = m + 1
        BY <4>1, <4>2
      <4>3. CASE k # m + 1
        <5>1. k \in 0..m
          BY <4>3
        <5> QED BY <3>1, <4>1, <5>1
      <4> QED BY <4>2, <4>3
    <3>3. Is(g, m + 1)
      BY <3>2
    <3>4. \E h : Is(h, m + 1)
      <4> HIDE DEF Is, g
      <4> QED BY <3>3
    <3>5. m + 1 \in 0..n
      OBVIOUS
    <3> HIDE DEF Is
    <3> QED BY <3>4, <3>5
  <2>3. \A k \in 0..n : k \in T
    <3> HIDE DEF T
    <3> QED BY <2>1, <2>2, Induction
  <2> QED BY <2>3
<1>2. \E f : Is(f, n)
  <2> HIDE DEF Is
  <2> QED BY <1>1
<1>3. RangeLoop(sgl) = CHOOSE f : Is(f, n)
  BY Zenon DEF RangeLoop
<1> HIDE DEF Is
<1>4. Is(RangeLoop(sgl), n)
  BY <1>2, <1>3, Zenon
<1> QED BY <1>4 DEF Is

LEMMA SegsLoop ==
  ASSUME NEW sgl, NEW merge, NEW n \in Nat, n = Len(sgl)
  PROVE  SgLoop(sgl, merge) =
           [k \in 0..n |-> IF k = 0 THEN <<>>
                           ELSE AddSg(SgLoop(sgl, merge)[k - 1], sgl[k], merge)]
<1> DEFINE Step(x, k) == AddSg(x, sgl[k], merge)
           base == <<>>
           Is(f, m) == f = [k \in 0..m |-> IF k = 0 THEN base ELSE Step(f[k - 1], k)]
<1>1. \A m \in 0..n : \E f : Is(f, m)
  <2> DEFINE T == {m \in 0..n : \E f : Is(f, m)}
  <2> HIDE DEF Step, base
  <2>1. 0 \in T
    <3>1. Is([k \in 0..0 |-> base], 0)
      OBVIOUS
    <3>2. \E f : Is(f, 0)
      <4> HIDE DEF Is
      <4> QED BY <3>1
    <3> QED BY <3>2
  <2>2. ASSUME NEW m \in 0..n - 1, m \in T PROVE m + 1 \in T
    <3>1. PICK f : Is(f, m)
      BY <2>2
    <3> DEFINE g == [k \in 0..m + 1 |-> IF k = m + 1 THEN Step(f[m], m + 1) ELSE f[k]]
    <3>2. \A k \in 0..m + 1 : g[k] = IF k = 0 THEN base ELSE Step(g[k - 1], k)
      <4> TAKE k \in 0..m + 1
      <4>1. k # 0 => k - 1 \in 0..m /\ g[k - 1] = f[k - 1]
        OBVIOUS
      <4>2. CASE k = m + 1
        BY <4>1, <4>2
      <4>3. CASE k # m + 1
        <5>1. k \in 0..m
          BY <4>3
        <5> QED BY <3>1, <4>1, <5>1
      <4> QED BY <4>2, <4>3
    <3>3. Is(g, m + 1)
      BY <3>2
    <3>4. \E h : Is(h, m + 1)
      <4> HIDE DEF Is, g
      <4> QED BY <3>3
    <3>5. m + 1 \in 0..n
      OBVIOUS
    <3> HIDE DEF Is
    <3> QED BY <3>4, <3>5
  <2>3. \A k \in 0..n : k \in T
    <3> HIDE DEF T
    <3> QED BY <2>1, <2>2, Induction
  <2> QED BY <2>3
<1>2. \E f : Is(f, n)
  <2> HIDE DEF Is
  <2> QED BY <1>1
<1>3. SgLoop(sgl, merge) = CHOOSE f : Is(f, n)
  BY Zenon DEF SgLoop
<1> HIDE DEF Is
<1>4. Is(SgLoop(sgl, merge), n)
  BY <1>2, <1>3, Zenon
<1> QED BY <1>4 DEF Is

LEMMA DescsLoop ==
  ASSUME NEW segs, NEW n \in Nat, n = Len(segs)
  PROVE  CutLoop(segs) =
           [k \in 0..n |-> IF k = 0 THEN <<>>
                           ELSE CutLoop(segs)[k - 1] \o Cut(segs[k])]
<1> DEFINE Step(x, k) == x \o Cut(segs[k])
           base == <<>>
           Is(f, m) == f = [k \in 0..m |-> IF k = 0 THEN base ELSE Step(f[k - 1], k)]
<1>1. \A m \in 0..n : \E f : Is(f, m)
  <2> DEFINE T == {m \in 0..n : \E f : Is(f, m)}
  <2> HIDE DEF Step, base
  <2>1. 0 \in T
    <3>1. Is([k \in 0..0 |-> base], 0)
      OBVIOUS
    <3>2. \E f : Is(f, 0)
      <4> HIDE DEF Is
      <4> QED BY <3>1
    <3> QED BY <3>2
  <2>2. ASSUME NEW m \in 0..n - 1, m \in T PROVE m + 1 \in T
    <3>1. PICK f : Is(f, m)
      BY <2>2
    <3> DEFINE g == [k \in 0..m + 1 |-> IF k = m + 1 THEN Step(f[m], m + 1) ELSE f[k]]
    <3>2. \A k \in 0..m + 1 : g[k] = IF k = 0 THEN base ELSE Step(g[k - 1], k)
      <4> TAKE k \in 0..m + 1
      <4>1. k # 0 => k - 1 \in 0..m /\ g[k - 1] = f[k - 1]
        OBVIOUS
      <4>2. CASE k = m + 1
        BY <4>1, <4>2
      <4>3. CASE k # m + 1
        <5>1. k \in 0..m
          BY <4>3
        <5> QED BY <3>1, <4>1, <5>1
      <4> QED BY <4>2, <4>3
    <3>3. Is(g, m + 1)
      BY <3>2
    <3>4. \E h : Is(h, m + 1)
      <4> HIDE DEF Is, g
      <4> QED BY <3>3
    <3>5. m + 1 \in 0..n
      OBVIOUS
    <3> HIDE DEF Is
    <3> QED BY <3>4, <3>5
  <2>3. \A k \in 0..n : k \in T
    <3> HIDE DEF T
    <3> QED BY <2>1, <2>2, Induction
  <2> QED BY <2>3
<1>2. \E f : Is(f, n)
  <2> HIDE DEF Is
  <2> QED BY <1>1
<1>3. CutLoop(segs) = CHOOSE f : Is(f, n)
  BY Zenon DEF CutLoop
<1> HIDE DEF Is
<1>4. Is(CutLoop(segs), n)
  BY <1>2, <1>3, Zenon
<1> QED BY <1>4 DEF Is

LEMMA PassLoop ==
  ASSUME NEW segs, NEW r, NEW room, NEW n \in Nat, n = RingSize + Len(segs)
  PROVE  ApertureLoop(segs, r, room) =
           [k \in 0..n |-> IF k = 0 THEN ApertureStart(r)
                           ELSE ApertureStep(segs, r, room, ApertureLoop(segs, r, room)[k - 1])]
<1> DEFINE Step(x, k) == ApertureStep(segs, r, room, x)
           base == ApertureStart(r)
           Is(f, m) == f = [k \in 0..m |-> IF k = 0 THEN base ELSE Step(f[k - 1], k)]
<1>1. \A m \in 0..n : \E f : Is(f, m)
  <2> DEFINE T == {m \in 0..n : \E f : Is(f, m)}
  <2> HIDE DEF Step, base
  <2>1. 0 \in T
    <3>1. Is([k \in 0..0 |-> base], 0)
      OBVIOUS
    <3>2. \E f : Is(f, 0)
      <4> HIDE DEF Is
      <4> QED BY <3>1
    <3> QED BY <3>2
  <2>2. ASSUME NEW m \in 0..n - 1, m \in T PROVE m + 1 \in T
    <3>1. PICK f : Is(f, m)
      BY <2>2
    <3> DEFINE g == [k \in 0..m + 1 |-> IF k = m + 1 THEN Step(f[m], m + 1) ELSE f[k]]
    <3>2. \A k \in 0..m + 1 : g[k] = IF k = 0 THEN base ELSE Step(g[k - 1], k)
      <4> TAKE k \in 0..m + 1
      <4>1. k # 0 => k - 1 \in 0..m /\ g[k - 1] = f[k - 1]
        OBVIOUS
      <4>2. CASE k = m + 1
        BY <4>1, <4>2
      <4>3. CASE k # m + 1
        <5>1. k \in 0..m
          BY <4>3
        <5> QED BY <3>1, <4>1, <5>1
      <4> QED BY <4>2, <4>3
    <3>3. Is(g, m + 1)
      BY <3>2
    <3>4. \E h : Is(h, m + 1)
      <4> HIDE DEF Is, g
      <4> QED BY <3>3
    <3>5. m + 1 \in 0..n
      OBVIOUS
    <3> HIDE DEF Is
    <3> QED BY <3>4, <3>5
  <2>3. \A k \in 0..n : k \in T
    <3> HIDE DEF T
    <3> QED BY <2>1, <2>2, Induction
  <2> QED BY <2>3
<1>2. \E f : Is(f, n)
  <2> HIDE DEF Is
  <2> QED BY <1>1
<1>3. ApertureLoop(segs, r, room) = CHOOSE f : Is(f, n)
  BY Zenon DEF ApertureLoop
<1> HIDE DEF Is
<1>4. Is(ApertureLoop(segs, r, room), n)
  BY <1>2, <1>3, Zenon
<1> QED BY <1>4 DEF Is
-----------------------------------------------------------------------------
(* The chunks of a buffer                                                  *)

LEMMA LeastFacts ==
  ASSUME NEW a \in Int, NEW b \in Int
  PROVE  /\ Least(a, b) \in Int /\ Least(a, b) <= a /\ Least(a, b) <= b
         /\ Least(a, b) = a \/ Least(a, b) = b
BY DEF Least

(* The pages of a buffer reach from its first byte to its end.             *)
LEMMA PagesReach ==
  ASSUME NEW buf \in Nat, NEW len \in Nat
  PROVE  /\ PageCount(buf, len) \in Nat
         /\ PageSize * ((buf \div PageSize) + PageCount(buf, len)) >= buf + len
         /\ (buf \div PageSize) + PageCount(buf, len) =
              (buf + len + PageSize - 1) \div PageSize
<1> DEFINE P == PageSize
           q == buf \div P
           r == buf % P
           m == (buf + len + P - 1) - (buf - r)
           n == m \div P
           t == m % P
<1>0. P \in Nat \ {0}
  BY ListBounds
<1>1. q \in Nat /\ r \in 0..P - 1 /\ buf = P * q + r
  <2> HIDE DEF P
  <2> QED BY <1>0, Division
<1>2. m = len + P - 1 + r /\ m \in Nat
  <2> HIDE DEF P, r
  <2> QED BY <1>0, <1>1
<1>3. n \in Nat /\ t \in 0..P - 1 /\ m = P * n + t
  <2> HIDE DEF P, m
  <2> QED BY <1>0, <1>2, Division
<1>4. PageCount(buf, len) = n
  BY DEF PageCount
<1> HIDE DEF P, q, r, m, n, t
<1>5. P * (q + n) = P * q + P * n /\ P * q \in Int /\ P * n \in Int
  BY <1>0, <1>1, <1>3
<1>6. P * (q + n) >= buf + len
  BY <1>0, <1>1, <1>2, <1>3, <1>5
<1>7. buf + len + P - 1 \in Nat /\ buf + len + P - 1 = P * (q + n) + t /\ q + n \in Int
  BY <1>0, <1>1, <1>2, <1>3, <1>5
<1>8. (buf + len + P - 1) \div P = q + n
  BY <1>0, <1>3, <1>7, DivisionUnique
<1> QED BY <1>3, <1>4, <1>6, <1>8 DEF P, q

(* Chunk after chunk the buffer is covered; the bytes of chunk i lie in    *)
(* page i, from the offset of the chunk on.                                *)
Chunked(buf, len, n, done) ==
  /\ done \in [0..n -> 0..len] /\ done[0] = 0 /\ done[n] = len
  /\ \A i \in 1..n :
       /\ done[i] - done[i - 1] \in 0..PageSize
       /\ \A b \in 0..done[i] - done[i - 1] - 1 :
            /\ (buf + done[i - 1] + b) \div PageSize = (buf \div PageSize) + i - 1
            /\ (buf + done[i - 1] + b) % PageSize =
                 ((buf + done[i - 1]) % PageSize) + b

LEMMA Chunking ==
  ASSUME NEW buf \in Nat, NEW len \in Nat, NEW n \in Nat, n = PageCount(buf, len),
         NEW done, done = Covered(buf, len, n)
  PROVE  Chunked(buf, len, n, done)
<1> USE DEF Chunked
<1> DEFINE q == buf \div PageSize
           Good(k) == /\ done[k] \in 0..len
                      /\ done[k] # len => (buf + done[k]) \div PageSize = q + k
           T == {k \in 0..n : Good(k)}
<1>0. PageSize \in Nat \ {0}
  BY ListBounds
<1>1. q \in Nat
  BY <1>0, Division
<1>2. done = [k \in 0..n |-> IF k = 0 THEN 0 ELSE ChunkEnd(buf, len, done[k - 1])]
  <2>1. Covered(buf, len, n) =
          [k \in 0..n |-> IF k = 0 THEN 0 ELSE ChunkEnd(buf, len, Covered(buf, len, n)[k - 1])]
    BY CoveredLoop
  <2> QED BY <2>1, Zenon
<1>3. done[0] = 0
  BY <1>2
<1>4. ASSUME NEW k \in 0..n - 1, Good(k)
      PROVE  /\ Good(k + 1)
             /\ done[k + 1] - done[k] \in 0..PageSize
             /\ \A b \in 0..done[k + 1] - done[k] - 1 :
                   /\ (buf + done[k] + b) \div PageSize = q + k
                   /\ (buf + done[k] + b) % PageSize = ((buf + done[k]) % PageSize) + b
  <2> DEFINE d == done[k]
             o == (buf + d) % PageSize
             s == Least(PageSize - o, len - d)
  <2>1. d \in Nat /\ d <= len /\ (d # len => (buf + d) \div PageSize = q + k)
    BY <1>4
  <2>2. k + 1 \in 0..n /\ k + 1 # 0 /\ k + 1 - 1 = k
    OBVIOUS
  <2>3. done[k + 1] = ChunkEnd(buf, len, done[k])
    BY <1>2, <2>2
  <2>4. done[k + 1] = d + s
    BY <2>3 DEF ChunkEnd
  <2> HIDE DEF d
  <2>5. o \in 0..PageSize - 1
    BY <1>0, <2>1, Division
  <2> HIDE DEF o, q
  <2>6. s \in 0..PageSize /\ s <= len - d /\ s <= PageSize - o /\ (s = PageSize - o \/ s = len - d)
    BY <1>0, <2>1, <2>5 DEF Least
  <2> HIDE DEF s
  <2>7. s # 0 => (buf + d) \div PageSize = q + k
    BY <2>1, <2>6
  <2>8. ASSUME NEW b \in 0..s - 1
        PROVE  (buf + d + b) \div PageSize = q + k /\ (buf + d + b) % PageSize = o + b
    <3>1. buf + d \in Nat /\ b \in Nat /\ o + b < PageSize /\ s # 0
      BY <1>0, <2>1, <2>5, <2>6
    <3>2. /\ ((buf + d) + b) \div PageSize = (buf + d) \div PageSize
          /\ ((buf + d) + b) % PageSize = o + b
      BY <1>0, <3>1, InBlock DEF o
    <3> QED BY <2>7, <3>1, <3>2
  <2>9. d + s # len => (buf + (d + s)) \div PageSize = q + (k + 1)
    <3> SUFFICES ASSUME d + s # len PROVE (buf + (d + s)) \div PageSize = q + (k + 1)
      OBVIOUS
    <3>1. s = PageSize - o /\ o + s = PageSize /\ s \in Nat /\ buf + d \in Nat /\ d # len
      BY <1>0, <2>1, <2>5, <2>6
    <3>2. ((buf + d) + s) \div PageSize = ((buf + d) \div PageSize) + 1
      BY <1>0, <3>1, NextBlock DEF o
    <3>3. ((buf + d) + s) \div PageSize = q + k + 1
      BY <2>1, <3>1, <3>2
    <3>4. (buf + d) + s = buf + (d + s)
      BY <2>1, <2>6
    <3> QED BY <1>1, <3>3, <3>4
  <2>10. d + s \in 0..len /\ d + s - d = s
    BY <2>1, <2>6
  <2>11. Good(k + 1)
    BY <2>4, <2>9, <2>10
  <2>12. done[k + 1] - done[k] = s
    <3>1. done[k + 1] - d = s
      BY <1>0, <2>1, <2>4, <2>6
    <3> QED BY <3>1 DEF d
  <2>13. \A b \in 0..s - 1 :
            /\ (buf + done[k] + b) \div PageSize = q + k
            /\ (buf + done[k] + b) % PageSize = ((buf + done[k]) % PageSize) + b
    BY <2>8 DEF d, o
  <2> HIDE DEF Good
  <2> QED BY <2>6, <2>11, <2>12, <2>13
<1>5. \A k \in 0..n : Good(k)
  <2>1. 0 \in T
    BY <1>1, <1>3
  <2>2. \A k \in 0..n - 1 : k \in T => k + 1 \in T
    BY <1>4
  <2>3. \A k \in 0..n : k \in T
    <3> HIDE DEF T
    <3> QED BY <2>1, <2>2, Induction
  <2> QED BY <2>3
<1>6. done[n] = len
  <2> DEFINE d == done[n]
  <2>1. d \in 0..len /\ (d # len => (buf + d) \div PageSize = q + n)
    BY <1>5
  <2> HIDE DEF d
  <2>2. ASSUME d # len PROVE FALSE
    <3>1. buf + d \in Nat /\ (buf + d) \div PageSize = q + n
      BY <2>1, <2>2
    <3>2. PageSize * (q + n) >= buf + len
      BY PagesReach
    <3>3. /\ (buf + d) % PageSize \in 0..PageSize - 1
          /\ buf + d = PageSize * ((buf + d) \div PageSize) + ((buf + d) % PageSize)
      BY <1>0, <3>1, Division
    <3> DEFINE z == PageSize * (q + n)
    <3>4. z \in Int /\ buf + d >= z
      <4>1. z \in Int
        BY <1>0, <1>1
      <4> HIDE DEF z, q
      <4> QED BY <3>1, <3>3, <4>1 DEF z
    <3> HIDE DEF z
    <3> QED BY <2>1, <2>2, <3>2, <3>4 DEF z
  <2> QED BY <2>2 DEF d
<1>7. \A k \in 0..n : done[k] \in 0..len
  BY <1>5
<1>8. done \in [0..n -> 0..len]
  BY <1>2, <1>7
<1>9. ASSUME NEW i \in 1..n
      PROVE  /\ done[i] - done[i - 1] \in 0..PageSize
             /\ \A b \in 0..done[i] - done[i - 1] - 1 :
                  /\ (buf + done[i - 1] + b) \div PageSize = q + i - 1
                  /\ (buf + done[i - 1] + b) % PageSize =
                       ((buf + done[i - 1]) % PageSize) + b
  <2> DEFINE k == i - 1
  <2>1. k \in 0..n - 1 /\ i = k + 1
    OBVIOUS
  <2>2. i - 1 = k /\ q + i - 1 = q + k
    BY <1>1, <2>1
  <2> HIDE DEF k
  <2>3. Good(k)
    BY <1>5, <2>1
  <2> HIDE DEF Good, q
  <2> QED BY <1>4, <2>1, <2>2, <2>3
<1> QED BY <1>3, <1>6, <1>8, <1>9
-----------------------------------------------------------------------------
(* Delegation                                                              *)

PageChunks == [page : Nat, offset : Nat, nbytes : 0..PageSize]
PageRanges == [base : Nat, num : Nat]

LEMMA GranulesOfChunk ==
  ASSUME NEW n \in 0..PageSize
  PROVE  Granules(n) = IF n = 0 THEN 0 ELSE 1
<1>0. PageSize \in Nat \ {0}
  BY ListBounds
<1>1. CASE n = 0
  <2>1. n + PageSize - 1 \in Nat /\ n + PageSize - 1 = PageSize * 0 + (PageSize - 1)
    BY <1>0, <1>1
  <2>2. PageSize - 1 \in 0..PageSize - 1 /\ 0 \in Int
    BY <1>0
  <2>3. (n + PageSize - 1) \div PageSize = 0
    BY <1>0, <2>1, <2>2, DivisionUnique
  <2> QED BY <1>1, <2>3 DEF Granules
<1>2. CASE n # 0
  <2>1. n + PageSize - 1 \in Nat /\ n + PageSize - 1 = PageSize * 1 + (n - 1)
    BY <1>0, <1>2
  <2>2. n - 1 \in 0..PageSize - 1 /\ 1 \in Int
    BY <1>0, <1>2
  <2>3. (n + PageSize - 1) \div PageSize = 1
    BY <1>0, <2>1, <2>2, DivisionUnique
  <2> QED BY <1>2, <2>3 DEF Granules
<1> QED BY <1>1, <1>2

(* An entry of the list grants its page, unless it is empty, and no other. *)
LEMMA RangeAdded ==
  ASSUME NEW ranges \in Seq(PageRanges), NEW sg \in PageChunks
  PROVE  /\ AddRange(ranges, sg) \in Seq(PageRanges)
         /\ \A g : g \in Granted(AddRange(ranges, sg)) <=>
                     g \in Granted(ranges) \/ (sg.nbytes # 0 /\ g = sg.page)
<1> DEFINE num == Granules(sg.nbytes)
           l == Len(ranges)
<1>1. /\ sg.page \in Nat /\ sg.nbytes \in 0..PageSize
      /\ num = IF sg.nbytes = 0 THEN 0 ELSE 1
  BY GranulesOfChunk DEF PageChunks
<1>2. \A s : \A g : g \in Granted(s) <=>
               \E i \in DOMAIN s : g \in s[i].base .. s[i].base + s[i].num - 1
  BY DEF Granted
<1>3. \A i \in 1..l : ranges[i] \in PageRanges
  OBVIOUS
<1> HIDE DEF num
<1>4. CASE ranges # <<>> /\ Last(ranges).base + Last(ranges).num = sg.page
  <2> DEFINE new == [ranges EXCEPT ![l].num = @ + num]
  <2>1. AddRange(ranges, sg) = new
    BY <1>4 DEF AddRange, num
  <2>2. l \in 1..l /\ ranges[l] \in PageRanges /\ ranges[l].base + ranges[l].num = sg.page
    BY <1>3, <1>4 DEF Last
  <2>3. /\ new \in Seq(PageRanges) /\ Len(new) = l /\ DOMAIN new = 1..l /\ DOMAIN ranges = 1..l
        /\ new[l].base = ranges[l].base /\ new[l].num = ranges[l].num + num
        /\ \A i \in 1..l : i # l => new[i] = ranges[i]
    <3> DEFINE one == [ranges[l] EXCEPT !.num = @ + num]
    <3>1. one \in PageRanges /\ one.base = ranges[l].base /\ one.num = ranges[l].num + num
      BY <1>1, <2>2 DEF PageRanges
    <3>2. new = [ranges EXCEPT ![l] = one]
      OBVIOUS
    <3> HIDE DEF new, one
    <3>3. /\ new \in Seq(PageRanges) /\ Len(new) = l /\ DOMAIN new = 1..l /\ new[l] = one
          /\ DOMAIN ranges = 1..l
          /\ \A i \in 1..l : i # l => new[i] = ranges[i]
      BY <2>2, <3>1, <3>2
    <3> QED BY <3>1, <3>3
  <2> HIDE DEF new, l
  <2>4. ASSUME NEW g
        PROVE  g \in new[l].base .. new[l].base + new[l].num - 1 <=>
                 \/ g \in ranges[l].base .. ranges[l].base + ranges[l].num - 1
                 \/ sg.nbytes # 0 /\ g = sg.page
    <3>1. ranges[l].base \in Nat /\ ranges[l].num \in Nat
      BY <2>2 DEF PageRanges
    <3> QED BY <1>1, <2>2, <2>3, <3>1
  <2>5. ASSUME NEW g PROVE g \in Granted(new) <=>
                              g \in Granted(ranges) \/ (sg.nbytes # 0 /\ g = sg.page)
    <3>1. g \in Granted(new) <=>
            \E i \in 1..l : g \in new[i].base .. new[i].base + new[i].num - 1
      BY <1>2, <2>3
    <3>2. g \in Granted(ranges) <=>
            \E i \in 1..l : g \in ranges[i].base .. ranges[i].base + ranges[i].num - 1
      BY <1>2, <2>3
    <3> QED BY <2>2, <2>3, <2>4, <3>1, <3>2, Zenon
  <2> QED BY <2>1, <2>3, <2>5
<1>5. CASE ~(ranges # <<>> /\ Last(ranges).base + Last(ranges).num = sg.page)
  <2> DEFINE one == [base |-> sg.page, num |-> num]
             new == Append(ranges, one)
  <2>1. AddRange(ranges, sg) = new
    BY <1>5 DEF AddRange, NewRange, num
  <2>2. one \in PageRanges
    BY <1>1 DEF PageRanges
  <2>3. /\ new \in Seq(PageRanges) /\ DOMAIN new = 1..l + 1 /\ DOMAIN ranges = 1..l
        /\ new[l + 1] = one /\ \A i \in 1..l : new[i] = ranges[i]
    <3> HIDE DEF one
    <3> QED BY <2>2
  <2>4. l \in Nat /\ l + 1 \in 1..l + 1 /\ \A i \in 1..l + 1 : i = l + 1 \/ i \in 1..l
    OBVIOUS
  <2>5. \A i \in 1..l : i \in 1..l + 1
    OBVIOUS
  <2>6. new[l + 1].base = sg.page /\ new[l + 1].num = num
    BY <2>3
  <2> HIDE DEF new, l, one
  <2>7. ASSUME NEW g
        PROVE  g \in new[l + 1].base .. new[l + 1].base + new[l + 1].num - 1 <=>
                 sg.nbytes # 0 /\ g = sg.page
    BY <1>1, <2>6
  <2>8. ASSUME NEW g PROVE g \in Granted(new) <=>
                              g \in Granted(ranges) \/ (sg.nbytes # 0 /\ g = sg.page)
    <3>1. g \in Granted(new) <=>
            \E i \in 1..l + 1 : g \in new[i].base .. new[i].base + new[i].num - 1
      BY <1>2, <2>3
    <3>2. g \in Granted(ranges) <=>
            \E i \in 1..l : g \in ranges[i].base .. ranges[i].base + ranges[i].num - 1
      BY <1>2, <2>3
    <3> QED BY <2>3, <2>4, <2>5, <2>7, <3>1, <3>2, Zenon
  <2> QED BY <2>1, <2>3, <2>8
<1> QED BY <1>4, <1>5

LEMMA RangesExact ==
  ASSUME NEW sgl \in Seq(PageChunks)
  PROVE  \A g : g \in Granted(DelegateRanges(sgl)) <=>
                  \E i \in 1..Len(sgl) : sgl[i].nbytes # 0 /\ g = sgl[i].page
<1> DEFINE n == Len(sgl)
           made == RangeLoop(sgl)
           Good(k) == /\ made[k] \in Seq(PageRanges)
                      /\ \A g : g \in Granted(made[k]) <=>
                                  \E i \in 1..k : sgl[i].nbytes # 0 /\ g = sgl[i].page
           T == {k \in 0..n : Good(k)}
<1>1. n \in Nat /\ \A i \in 1..n : sgl[i] \in PageChunks
  OBVIOUS
<1>2. made = [k \in 0..n |-> IF k = 0 THEN <<>> ELSE AddRange(made[k - 1], sgl[k])]
  BY <1>1, RangesLoop
<1> HIDE DEF made, n
<1>3. 0 \in T
  <2>1. made[0] = <<>>
    BY <1>1, <1>2
  <2>2. <<>> \in Seq(PageRanges) /\ \A g : g \notin Granted(<<>>)
    BY DEF Granted
  <2>3. 0 \in 0..n /\ \A i \in 1..0 : FALSE
    BY <1>1
  <2> QED BY <2>1, <2>2, <2>3, Zenon
<1>4. ASSUME NEW k \in 0..n - 1, k \in T PROVE k + 1 \in T
  <2>1. k + 1 \in 0..n /\ k + 1 \in 1..n /\ k + 1 # 0 /\ k + 1 - 1 = k
    BY <1>1
  <2>2. made[k + 1] = AddRange(made[k], sgl[k + 1])
    <3>1. made[k + 1] = AddRange(made[(k + 1) - 1], sgl[k + 1])
      BY <1>2, <2>1, Zenon
    <3> QED BY <2>1, <3>1
  <2>3. Good(k)
    BY <1>4, Zenon
  <2>4. /\ made[k + 1] \in Seq(PageRanges)
        /\ \A g : g \in Granted(made[k + 1]) <=>
             g \in Granted(made[k]) \/ (sgl[k + 1].nbytes # 0 /\ g = sgl[k + 1].page)
    <3>1. made[k] \in Seq(PageRanges) /\ sgl[k + 1] \in PageChunks
      BY <1>1, <2>1, <2>3
    <3> QED BY <2>2, <3>1, RangeAdded, Zenon
  <2>5. /\ \A i \in 1..k + 1 : i = k + 1 \/ i \in 1..k
        /\ \A i \in 1..k : i \in 1..k + 1
        /\ k + 1 \in 1..k + 1
    OBVIOUS
  <2>6. \A g : g \in Granted(made[k + 1]) <=>
                 \E i \in 1..k + 1 : sgl[i].nbytes # 0 /\ g = sgl[i].page
    BY <2>3, <2>4, <2>5, Zenon
  <2> QED BY <2>1, <2>4, <2>6, Zenon
<1>5. \A k \in 0..n : k \in T
  <2> HIDE DEF T
  <2> QED BY <1>1, <1>3, <1>4, Induction
<1>6. Good(n)
  <2>1. n \in 0..n
    BY <1>1
  <2> QED BY <1>5, <2>1, Zenon
<1>7. DelegateRanges(sgl) = made[n]
  BY DEF DelegateRanges, made, n
<1> QED BY <1>6, <1>7 DEF n
-----------------------------------------------------------------------------
(* Where the entries of a list lie in the buffer: pos[i] bytes are in the  *)
(* first i of them, and byte gives the address of every byte.              *)

Spans == [addr : Nat, len : Nat]
DescSpans == [addr : Nat, len : 1..DescBlenMax]

Counts(list, pos) ==
  /\ pos \in [0..Len(list) -> Nat] /\ pos[0] = 0
  /\ \A i \in 1..Len(list) : pos[i] = pos[i - 1] + list[i].len

Lays(list, pos, byte) ==
  /\ Counts(list, pos)
  /\ \A i \in 1..Len(list) : \A b \in 0..list[i].len - 1 :
       byte[pos[i - 1] + b] = list[i].addr + b

LaidOut(list, total, byte) ==
  \E pos : Lays(list, pos, byte) /\ pos[Len(list)] = total

LEMMA UptoCounts ==
  ASSUME NEW list, Len(list) \in Nat, \A i \in 1..Len(list) : list[i].len \in Nat
  PROVE  Counts(list, Upto(list))
<1> DEFINE n == Len(list)
           sum == Upto(list)
           T == {k \in 0..n : sum[k] \in Nat}
<1>1. sum = [k \in 0..n |-> IF k = 0 THEN 0 ELSE sum[k - 1] + list[k].len]
  BY UptoLoop
<1> HIDE DEF n, sum
<1>0. n \in Nat /\ \A i \in 1..n : list[i].len \in Nat
  BY DEF n
<1>2. sum[0] = 0 /\ \A i \in 1..n : sum[i] = sum[i - 1] + list[i].len
  BY <1>0, <1>1
<1>3. 0 \in T
  BY <1>0, <1>2
<1>4. ASSUME NEW k \in 0..n - 1, k \in T PROVE k + 1 \in T
  <2>1. k + 1 \in 1..n /\ k + 1 - 1 = k /\ sum[k] \in Nat
    BY <1>0, <1>4
  <2>2. sum[k + 1] = sum[k] + list[k + 1].len
    BY <1>2, <2>1
  <2> QED BY <1>0, <2>1, <2>2
<1>5. \A k \in 0..n : k \in T
  <2> HIDE DEF T
  <2> QED BY <1>0, <1>3, <1>4, Induction
<1>6. sum \in [0..n -> Nat]
  <2>1. \A k \in 0..n : sum[k] \in Nat
    BY <1>5
  <2> QED BY <1>1, <2>1
<1> QED BY <1>2, <1>6 DEF Counts, n, sum

LEMMA CountsUnique ==
  ASSUME NEW list, Len(list) \in Nat, \A i \in 1..Len(list) : list[i].len \in Nat,
         NEW pos, Counts(list, pos)
  PROVE  pos = Upto(list) /\ pos[Len(list)] = Total(list)
<1> DEFINE n == Len(list)
           sum == Upto(list)
           T == {k \in 0..n : pos[k] = sum[k]}
<1>1. Counts(list, sum)
  BY UptoCounts
<1> HIDE DEF sum
<1>2. /\ n \in Nat /\ \A i \in 1..n : list[i].len \in Nat
      /\ pos \in [0..n -> Nat] /\ sum \in [0..n -> Nat]
      /\ pos[0] = 0 /\ sum[0] = 0
      /\ \A i \in 1..n : pos[i] = pos[i - 1] + list[i].len
      /\ \A i \in 1..n : sum[i] = sum[i - 1] + list[i].len
  BY <1>1 DEF Counts
<1> HIDE DEF n
<1>3. 0 \in T
  BY <1>2
<1>4. ASSUME NEW k \in 0..n - 1, k \in T PROVE k + 1 \in T
  <2>1. k + 1 \in 1..n /\ k + 1 - 1 = k /\ sum[k] = pos[k] /\ k + 1 \in 0..n
    BY <1>2, <1>4
  <2>2. sum[k + 1] = sum[k] + list[k + 1].len /\ pos[k + 1] = pos[k] + list[k + 1].len
    BY <1>2, <2>1
  <2> QED BY <2>1, <2>2
<1>5. \A k \in 0..n : k \in T
  <2> HIDE DEF T
  <2> QED BY <1>2, <1>3, <1>4, Induction
<1>6. \A k \in 0..n : pos[k] = sum[k]
  BY <1>5
<1>7. pos = sum
  BY <1>2, <1>6
<1>8. Total(list) = sum[n]
  BY DEF Total, sum, n
<1> QED BY <1>7, <1>8 DEF n, sum

LEMMA CountsMonotone ==
  ASSUME NEW list, Len(list) \in Nat, \A i \in 1..Len(list) : list[i].len \in Nat,
         NEW pos, Counts(list, pos), NEW i \in 0..Len(list)
  PROVE  \A j \in i..Len(list) : pos[i] <= pos[j]
<1> DEFINE n == Len(list)
           T == {k \in 0..n - i : pos[i] <= pos[i + k]}
<1>1. /\ n \in Nat /\ i \in 0..n /\ \A h \in 1..n : list[h].len \in Nat
      /\ pos \in [0..n -> Nat] /\ \A h \in 1..n : pos[h] = pos[h - 1] + list[h].len
  BY DEF Counts
<1> HIDE DEF n
<1>2. n - i \in Nat /\ 0 \in T
  BY <1>1
<1>3. ASSUME NEW k \in 0..n - i - 1, k \in T PROVE k + 1 \in T
  <2>1. i + k + 1 \in 1..n /\ i + k \in 0..n /\ i + k + 1 - 1 = i + k /\ pos[i] <= pos[i + k]
        /\ i + k + 1 = i + (k + 1) /\ k + 1 \in 0..n - i
    BY <1>1, <1>3
  <2>2. pos[i + k + 1] = pos[i + k] + list[i + k + 1].len
    BY <1>1, <2>1
  <2>3. pos[i] <= pos[i + k + 1]
    BY <1>1, <2>1, <2>2
  <2> QED BY <2>1, <2>3
<1>4. \A k \in 0..n - i : k \in T
  <2> HIDE DEF T
  <2> DEFINE m == n - i
  <2>1. m \in Nat /\ \A k \in 0..m - 1 : k \in T => k + 1 \in T
    BY <1>2, <1>3
  <2> HIDE DEF m
  <2>2. \A k \in 0..m : k \in T
    BY <1>2, <2>1, Induction
  <2> QED BY <2>2 DEF m
<1>5. ASSUME NEW j \in i..n PROVE pos[i] <= pos[j]
  <2>1. j - i \in 0..n - i /\ i + (j - i) = j
    BY <1>1
  <2>2. j - i \in T
    BY <1>4, <2>1
  <2> QED BY <2>1, <2>2
<1> QED BY <1>5 DEF n

(* Every byte belongs to an entry.                                         *)
LEMMA EntryOfByte ==
  ASSUME NEW list, Len(list) \in Nat, \A i \in 1..Len(list) : list[i].len \in Nat,
         NEW pos, Counts(list, pos), NEW k \in 0..pos[Len(list)] - 1
  PROVE  \E i \in 1..Len(list) : \E b \in 0..list[i].len - 1 : k = pos[i - 1] + b
<1> DEFINE n == Len(list)
           T == {j \in 0..n : k < pos[j]}
<1>1. /\ n \in Nat /\ \A h \in 1..n : list[h].len \in Nat
      /\ pos \in [0..n -> Nat] /\ pos[0] = 0
      /\ \A h \in 1..n : pos[h] = pos[h - 1] + list[h].len
      /\ k \in Nat /\ k < pos[n]
  <2>1. /\ pos \in [0..n -> Nat] /\ pos[0] = 0
        /\ \A h \in 1..n : pos[h] = pos[h - 1] + list[h].len
    BY Zenon DEF Counts
  <2>2. n \in Nat /\ (\A h \in 1..n : list[h].len \in Nat) /\ k \in 0..pos[n] - 1
    BY Zenon
  <2> HIDE DEF n
  <2>3. pos[n] \in Nat
    BY <2>1, <2>2
  <2> QED BY <2>1, <2>2, <2>3
<1> HIDE DEF n
<1>2. T \in SUBSET Nat /\ T # {}
  <2>1. n \in T
    BY <1>1
  <2> QED BY <2>1
<1>3. PICK i \in T : \A y \in T : i <= y
  <2> HIDE DEF T
  <2> QED BY <1>2, LeastNumber
<1>4. i \in 1..n /\ k < pos[i] /\ i - 1 \in 0..n
  BY <1>1, <1>3
<1>5. ~(k < pos[i - 1])
  BY <1>3, <1>4
<1>6. pos[i] = pos[i - 1] + list[i].len /\ pos[i - 1] \in Nat /\ list[i].len \in Nat
  BY <1>1, <1>4
<1>7. k - pos[i - 1] \in 0..list[i].len - 1 /\ k = pos[i - 1] + (k - pos[i - 1])
  <2> DEFINE c == pos[i - 1]
             l == list[i].len
  <2>1. c \in Nat /\ l \in Nat /\ k \in Nat /\ ~(k < c) /\ k < c + l
    BY <1>1, <1>4, <1>5, <1>6
  <2> HIDE DEF c, l
  <2>2. k - c \in 0..l - 1 /\ k = c + (k - c)
    BY <2>1
  <2> QED BY <2>2 DEF c, l
<1> QED BY <1>4, <1>7 DEF n

\* The bytes of an entry of the scatter list are those from byte d on.
HoldsFrom(sg, d, byte) ==
  \A b \in 0..sg.nbytes - 1 : byte[d + b] = sg.page * PageSize + sg.offset + b

(* An entry of the scatter list appended to the segments or merged into    *)
(* the last one                                                            *)
LEMMA SegAdded ==
  ASSUME NEW segs \in Seq(Spans), NEW pos, NEW byte, Lays(segs, pos, byte),
         NEW sg \in PageChunks, NEW merge,
         HoldsFrom(sg, pos[Len(segs)], byte)
  PROVE  /\ AddSg(segs, sg, merge) \in Seq(Spans)
         /\ LaidOut(AddSg(segs, sg, merge), pos[Len(segs)] + sg.nbytes, byte)
<1> DEFINE l == Len(segs)
           addr == sg.page * PageSize + sg.offset
           d == pos[l]
           n == sg.nbytes
<1>0. PageSize \in Nat \ {0}
  BY ListBounds
<1>1. addr \in Nat /\ n \in Nat
  <2>1. sg.page \in Nat /\ sg.offset \in Nat /\ n \in Nat
    BY <1>0 DEF PageChunks
  <2>2. sg.page * PageSize \in Nat
    BY <1>0, <2>1
  <2> QED BY <2>1, <2>2
<1>2. \A b \in 0..n - 1 : byte[d + b] = addr + b
  BY DEF HoldsFrom
<1>3. /\ l \in Nat /\ DOMAIN segs = 1..l /\ \A i \in 1..l : segs[i] \in Spans
      /\ pos \in [0..l -> Nat] /\ pos[0] = 0
      /\ \A i \in 1..l : pos[i] = pos[i - 1] + segs[i].len
      /\ \A i \in 1..l : \A b \in 0..segs[i].len - 1 :
           byte[pos[i - 1] + b] = segs[i].addr + b
  BY DEF Lays, Counts
<1>4. d \in Nat
  BY <1>3
<1>5. CASE merge /\ segs # <<>> /\ Last(segs).addr + Last(segs).len = addr
  <2> DEFINE one == [segs[l] EXCEPT !.len = @ + n]
             now == [segs EXCEPT ![l] = one]
             new == [pos EXCEPT ![l] = d + n]
  <2>1. AddSg(segs, sg, merge) = now
    BY <1>5 DEF AddSg
  <2>2. l \in 1..l /\ segs[l] \in Spans /\ segs[l].addr + segs[l].len = addr
    BY <1>3, <1>5 DEF Last
  <2>3. /\ one \in Spans /\ one.addr = segs[l].addr /\ one.len = segs[l].len + n
        /\ segs[l].addr \in Nat /\ segs[l].len \in Nat
    <3> DEFINE z == segs[l]
    <3> HIDE DEF z, n
    <3>1. z \in Spans /\ n \in Nat
      BY <1>1, <2>2 DEF z
    <3>2. z.addr \in Nat /\ z.len \in Nat /\ z.len + n \in Nat
      BY <3>1 DEF Spans
    <3>3. [z EXCEPT !.len = @ + n] = [addr |-> z.addr, len |-> z.len + n]
      BY <3>1 DEF Spans
    <3> QED BY <3>2, <3>3 DEF Spans, z
  <2> HIDE DEF one, n, addr, d
  <2>4. /\ now \in Seq(Spans) /\ Len(now) = l /\ now[l] = one
        /\ \A i \in 1..l : i # l => now[i] = segs[i]
    BY <1>3, <2>2, <2>3
  <2>5. /\ new \in [0..l -> Nat] /\ new[l] = d + n
        /\ \A i \in 0..l : i # l => new[i] = pos[i]
    <3>1. d + n \in Nat /\ l \in 0..l
      BY <1>1, <1>3, <1>4
    <3> QED BY <1>3, <3>1
  <2> HIDE DEF now, new, l
  <2>6. ASSUME NEW i \in 1..l PROVE new[i] = new[i - 1] + now[i].len
    <3>1. i - 1 \in 0..l /\ i - 1 # l
      BY <1>3
    <3>2. new[i - 1] = pos[i - 1] /\ pos[i - 1] \in Nat
      BY <1>3, <2>5, <3>1
    <3>3. CASE i = l
      <4>1. pos[l] = pos[l - 1] + segs[l].len /\ pos[l - 1] \in Nat
        BY <1>3, <2>2, <3>2, <3>3
      <4>2. d + n = pos[l - 1] + (segs[l].len + n)
        BY <1>1, <2>3, <4>1 DEF d
      <4> QED BY <2>3, <2>4, <2>5, <3>2, <3>3, <4>2
    <3>4. CASE i # l
      BY <1>3, <2>4, <2>5, <3>2, <3>4
    <3> QED BY <3>3, <3>4
  <2>7. ASSUME NEW i \in 1..l, NEW b \in 0..now[i].len - 1
        PROVE  byte[new[i - 1] + b] = now[i].addr + b
    <3>0. i - 1 \in 0..l /\ i - 1 # l
      BY <1>3
    <3>1. i - 1 \in 0..l /\ i - 1 # l /\ new[i - 1] = pos[i - 1] /\ pos[i - 1] \in Nat
      BY <1>3, <2>5, <3>0
    <3>2. CASE i # l
      BY <1>3, <2>4, <3>1, <3>2
    <3>3. CASE i = l
      <4> DEFINE c == pos[l - 1]
                 m == segs[l].len
                 a == segs[l].addr
      <4>1. c \in Nat /\ m \in Nat /\ a \in Nat /\ d = c + m /\ addr = a + m
        BY <1>3, <2>2, <2>3, <3>1, <3>3 DEF d
      <4>2. b \in 0..m + n - 1 /\ now[i].addr = a /\ new[i - 1] = c
        <5>1. now[i] = one /\ one.len = m + n /\ one.addr = a
          BY <2>3, <2>4, <3>3
        <5>2. now[i].len = m + n
          BY <5>1
        <5>3. b \in 0..m + n - 1
          BY <1>1, <4>1, <5>2
        <5>4. new[i - 1] = c
          BY <3>1, <3>3
        <5>5. now[i].addr = a
          BY <5>1
        <5> QED BY <5>3, <5>4, <5>5
      <4>3. \A x \in 0..m - 1 : byte[c + x] = a + x
        BY <1>3, <2>2
      <4> HIDE DEF c, m, a
      <4>4. CASE b < m
        <5>1. b \in 0..m - 1
          BY <1>1, <4>1, <4>2, <4>4
        <5> QED BY <4>2, <4>3, <5>1
      <4>5. CASE ~(b < m)
        <5>1. b - m \in 0..n - 1 /\ d + (b - m) = c + b /\ addr + (b - m) = a + b
          BY <1>1, <4>1, <4>2, <4>5
        <5>2. byte[d + (b - m)] = addr + (b - m)
          BY <1>2, <5>1
        <5> QED BY <4>2, <5>1, <5>2
      <4> QED BY <4>4, <4>5
    <3> QED BY <3>2, <3>3
  <2>8. new[0] = 0
    BY <1>3, <2>2, <2>5
  <2>9. Lays(now, new, byte) /\ new[Len(now)] = d + n
    BY <2>4, <2>5, <2>6, <2>7, <2>8 DEF Lays, Counts
  <2>10. LaidOut(now, d + n, byte)
    BY <2>9, Zenon DEF LaidOut
  <2> QED BY <2>1, <2>4, <2>10, Zenon DEF d, n, l
<1>6. CASE ~(merge /\ segs # <<>> /\ Last(segs).addr + Last(segs).len = addr)
  <2> DEFINE one == [addr |-> addr, len |-> n]
             now == Append(segs, one)
             new == [i \in 0..l + 1 |-> IF i = l + 1 THEN d + n ELSE pos[i]]
  <2>1. AddSg(segs, sg, merge) = now
    BY <1>6 DEF AddSg
  <2>2. one \in Spans /\ one.addr = addr /\ one.len = n
    BY <1>1 DEF Spans
  <2> HIDE DEF one, n, addr, d
  <2>3. /\ now \in Seq(Spans) /\ Len(now) = l + 1 /\ now[l + 1] = one
        /\ \A i \in 1..l : now[i] = segs[i]
    BY <2>2
  <2>4. /\ new \in [0..l + 1 -> Nat] /\ new[l + 1] = d + n
        /\ \A i \in 0..l : new[i] = pos[i]
    BY <1>1, <1>3, <1>4
  <2> HIDE DEF now, new, l
  <2>5. \A i \in 1..l + 1 : i - 1 \in 0..l /\ (i = l + 1 \/ i \in 1..l)
    BY <1>3
  <2>6. ASSUME NEW i \in 1..l + 1
        PROVE  /\ new[i] = new[i - 1] + now[i].len
               /\ \A b \in 0..now[i].len - 1 : byte[new[i - 1] + b] = now[i].addr + b
    <3>1. new[i - 1] = pos[i - 1]
      BY <2>4, <2>5
    <3>2. CASE i = l + 1
      <4>1. i - 1 = l /\ pos[i - 1] = d
        BY <1>3, <3>2 DEF d
      <4> QED BY <1>2, <2>2, <2>3, <2>4, <3>1, <3>2, <4>1
    <3>3. CASE i \in 1..l
      <4>1. i \in 0..l /\ new[i] = pos[i] /\ now[i] = segs[i]
        BY <1>3, <2>3, <2>4, <3>3
      <4> QED BY <1>3, <3>1, <3>3, <4>1
    <3> QED BY <2>5, <3>2, <3>3
  <2>7. new[0] = 0
    BY <1>3, <2>4
  <2>8. Lays(now, new, byte) /\ new[Len(now)] = d + n
    BY <2>3, <2>4, <2>6, <2>7 DEF Lays, Counts
  <2>9. LaidOut(now, d + n, byte)
    BY <2>8, Zenon DEF LaidOut
  <2> QED BY <2>1, <2>3, <2>9, Zenon DEF d, n, l
<1> QED BY <1>5, <1>6

LEMMA SegsLaid ==
  ASSUME NEW sgl \in Seq(PageChunks), NEW merge, NEW byte,
         NEW done \in [0..Len(sgl) -> Nat], done[0] = 0,
         \A i \in 1..Len(sgl) :
           /\ done[i] = done[i - 1] + sgl[i].nbytes
           /\ HoldsFrom(sgl[i], done[i - 1], byte)
  PROVE  /\ MapSg(sgl, merge) \in Seq(Spans)
         /\ LaidOut(MapSg(sgl, merge), done[Len(sgl)], byte)
<1> DEFINE n == Len(sgl)
           segs == SgLoop(sgl, merge)
           Good(k) == segs[k] \in Seq(Spans) /\ LaidOut(segs[k], done[k], byte)
           T == {k \in 0..n : Good(k)}
<1>1. /\ n \in Nat /\ \A i \in 1..n : sgl[i] \in PageChunks
      /\ \A i \in 1..n : done[i] = done[i - 1] + sgl[i].nbytes
      /\ \A i \in 1..n : HoldsFrom(sgl[i], done[i - 1], byte)
  OBVIOUS
<1>2. segs = [k \in 0..n |-> IF k = 0 THEN <<>> ELSE AddSg(segs[k - 1], sgl[k], merge)]
  BY <1>1, SegsLoop
<1> HIDE DEF segs, n
<1>3. 0 \in T
  <2> DEFINE zero == [i \in 0..0 |-> 0]
  <2>1. segs[0] = <<>>
    BY <1>1, <1>2
  <2>2. <<>> \in Seq(Spans) /\ Len(<<>>) = 0
    OBVIOUS
  <2>3. Lays(<<>>, zero, byte) /\ zero[0] = 0
    BY DEF Lays, Counts
  <2>4. 0 \in 0..n
    BY <1>1
  <2> HIDE DEF zero
  <2>5. LaidOut(segs[0], done[0], byte)
    BY <2>1, <2>2, <2>3, Zenon DEF LaidOut
  <2> QED BY <2>1, <2>2, <2>4, <2>5, Zenon
<1>4. ASSUME NEW k \in 0..n - 1, k \in T PROVE k + 1 \in T
  <2>1. k + 1 \in 0..n /\ k + 1 \in 1..n /\ k + 1 # 0 /\ k + 1 - 1 = k
    BY <1>1
  <2>2. segs[k + 1] = AddSg(segs[k], sgl[k + 1], merge)
    <3>1. segs[k + 1] = AddSg(segs[(k + 1) - 1], sgl[k + 1], merge)
      BY <1>2, <2>1, Zenon
    <3> QED BY <2>1, <3>1
  <2> DEFINE S == segs[k]
             g == sgl[k + 1]
             h == (k + 1) - 1
  <2>3. S \in Seq(Spans) /\ LaidOut(S, done[k], byte)
    BY <1>4, Zenon
  <2>4. PICK pos : Lays(S, pos, byte) /\ pos[Len(S)] = done[k]
    BY <2>3, Zenon DEF LaidOut
  <2>5. g \in PageChunks /\ done[k + 1] = done[k] + g.nbytes /\ HoldsFrom(g, done[k], byte)
    <3>1. h = k
      BY <2>1
    <3>2. g \in PageChunks /\ done[k + 1] = done[h] + g.nbytes /\ HoldsFrom(g, done[h], byte)
      BY <1>1, <2>1, Zenon
    <3> HIDE DEF h
    <3> QED BY <3>1, <3>2, Zenon
  <2> HIDE DEF S, g
  <2>6. AddSg(S, g, merge) \in Seq(Spans) /\ LaidOut(AddSg(S, g, merge), done[k + 1], byte)
    <3>1. HoldsFrom(g, pos[Len(S)], byte)
      BY <2>4, <2>5, Zenon
    <3>2. /\ AddSg(S, g, merge) \in Seq(Spans)
          /\ LaidOut(AddSg(S, g, merge), pos[Len(S)] + g.nbytes, byte)
      BY <2>3, <2>4, <2>5, <3>1, SegAdded
    <3> QED BY <2>4, <2>5, <3>2, Zenon
  <2> QED BY <2>1, <2>2, <2>6, Zenon DEF S, g
<1>5. \A k \in 0..n : k \in T
  <2> HIDE DEF T
  <2> QED BY <1>1, <1>3, <1>4, Induction
<1>6. Good(n)
  <2>1. n \in 0..n
    BY <1>1
  <2> QED BY <1>5, <2>1, Zenon
<1>7. MapSg(sgl, merge) = segs[n]
  BY DEF MapSg, segs, n
<1> QED BY <1>6, <1>7, Zenon DEF n

(* The pieces of a segment: all are full but the last.                     *)
LEMMA CutPieces ==
  ASSUME NEW seg \in Spans
  PROVE  /\ Cut(seg) \in Seq(DescSpans)
         /\ \E pos : /\ Counts(Cut(seg), pos) /\ pos[Len(Cut(seg))] = seg.len
                     /\ \A j \in 1..Len(Cut(seg)) : Cut(seg)[j].addr = seg.addr + pos[j - 1]
<1> DEFINE D == DescBlenMax
           len == seg.len
           m == len + D - 1
           K == m \div D
           t == m % D
           cut == Cut(seg)
           pos == [j \in 0..K |-> Least(D * j, len)]
<1>0. D \in Nat \ {0} /\ len \in Nat /\ seg.addr \in Nat
  BY ListBounds DEF Spans
<1>1. m \in Nat /\ K \in Nat /\ t \in 0..D - 1 /\ m = D * K + t
  <2>1. m \in Nat
    BY <1>0
  <2> HIDE DEF m, D
  <2> QED BY <1>0, <2>1, Division
<1>2. cut = [k \in 1..K |-> [addr |-> seg.addr + (k - 1) * D,
                             len  |-> Least(D, len - (k - 1) * D)]]
  BY DEF Cut
<1> HIDE DEF K, t, cut, pos
<1>3. D * K \in Int /\ D * K >= len /\ D * K <= len + D - 1
  BY <1>0, <1>1
<1> HIDE DEF m
<1>4. ASSUME NEW j \in 1..K
      PROVE  /\ (j - 1) * D = D * (j - 1) /\ D * (j - 1) \in Nat /\ D * j = D * (j - 1) + D
             /\ D * (j - 1) < len
  <2>1. (j - 1) * D = D * (j - 1) /\ D * (j - 1) \in Nat /\ D * j = D * (j - 1) + D
    BY <1>0
  <2>2. D * j <= D * K
    <3>1. CASE j = K
      BY <1>3, <3>1
    <3>2. CASE j # K
      <4>1. j \in Int /\ K \in Int /\ j < K
        BY <1>1, <3>2
      <4>2. D * j + D <= D * K
        BY <1>0, <4>1, Products
      <4>3. D * j \in Int
        BY <1>0
      <4> QED BY <1>0, <1>3, <4>2, <4>3
    <3> QED BY <3>1, <3>2
  <2> QED BY <1>0, <1>3, <2>1, <2>2
<1>5. ASSUME NEW j \in 0..K
      PROVE  pos[j] = Least(D * j, len) /\ D * j \in Nat /\ pos[j] \in Nat
  <2>1. D * j \in Nat
    BY <1>0
  <2>2. pos[j] = Least(D * j, len)
    BY DEF pos
  <2> QED BY <1>0, <2>1, <2>2 DEF Least
<1>6. ASSUME NEW j \in 1..K
      PROVE  /\ pos[j - 1] = D * (j - 1) /\ pos[j] = pos[j - 1] + cut[j].len
             /\ cut[j].addr = seg.addr + pos[j - 1] /\ cut[j] \in DescSpans
  <2> DEFINE c == D * (j - 1)
             l == Least(D, len - c)
  <2>1. c \in Nat /\ c < len /\ (j - 1) * D = c /\ D * j = c + D
    BY <1>4
  <2>2. cut[j] = [addr |-> seg.addr + c, len |-> l]
    BY <1>2, <2>1
  <2>3. j \in 0..K /\ j - 1 \in 0..K
    BY <1>1
  <2>4. pos[j - 1] = Least(c, len) /\ pos[j] = Least(c + D, len)
    BY <1>5, <2>1, <2>3
  <2> HIDE DEF c
  <2>5. pos[j - 1] = c /\ l \in 1..D /\ Least(c + D, len) = c + l
    BY <1>0, <2>1, <2>4 DEF Least
  <2> HIDE DEF l
  <2>6. cut[j].addr = seg.addr + c /\ cut[j].len = l
    BY <2>2
  <2>7. cut[j] \in DescSpans
    BY <1>0, <2>1, <2>2, <2>5 DEF DescSpans
  <2> QED BY <2>4, <2>5, <2>6, <2>7 DEF c
<1>7. cut \in Seq(DescSpans) /\ Len(cut) = K
  <2>1. DOMAIN cut = 1..K /\ cut = [j \in 1..K |-> cut[j]] /\ K \in Nat
    BY <1>1, <1>2
  <2>2. \A j \in 1..K : cut[j] \in DescSpans
    BY <1>6
  <2>3. cut \in [1..K -> DescSpans]
    BY <2>1, <2>2
  <2> QED BY <2>1, <2>3
<1>8. pos \in [0..K -> Nat] /\ pos[0] = 0 /\ pos[K] = len
  <2>1. pos \in [0..K -> Nat]
    <3>1. \A j \in 0..K : pos[j] \in Nat
      BY <1>5
    <3>2. pos = [j \in 0..K |-> pos[j]]
      BY DEF pos
    <3> QED BY <3>1, <3>2
  <2>2. 0 \in 0..K /\ K \in 0..K /\ D * 0 = 0
    BY <1>0, <1>1
  <2>3. pos[0] = Least(0, len) /\ pos[K] = Least(D * K, len)
    BY <1>5, <2>2
  <2> QED BY <1>0, <1>3, <2>1, <2>3 DEF Least
<1>9. Counts(cut, pos)
  BY <1>6, <1>7, <1>8 DEF Counts
<1> QED BY <1>6, <1>7, <1>8, <1>9 DEF cut

(* Lists that lie one behind the other                                     *)
\* Its bytes are those from byte d on.
LaysFrom(list, pos, d, byte) ==
  \A j \in 1..Len(list) : \A b \in 0..list[j].len - 1 :
    byte[d + pos[j - 1] + b] = list[j].addr + b

LEMMA Concatenated ==
  ASSUME NEW s \in Seq(Spans), NEW t \in Seq(Spans), NEW pos, NEW ext, NEW byte,
         Lays(s, pos, byte), Counts(t, ext), LaysFrom(t, ext, pos[Len(s)], byte)
  PROVE  LaidOut(s \o t, pos[Len(s)] + ext[Len(t)], byte)
<1> DEFINE L == Len(s)
           K == Len(t)
           d == pos[L]
           new == [i \in 0..L + K |-> IF i <= L THEN pos[i] ELSE d + ext[i - L]]
           st == s \o t
<1>1. /\ L \in Nat /\ K \in Nat
      /\ pos \in [0..L -> Nat] /\ pos[0] = 0
      /\ \A i \in 1..L : pos[i] = pos[i - 1] + s[i].len
      /\ \A i \in 1..L : \A b \in 0..s[i].len - 1 : byte[pos[i - 1] + b] = s[i].addr + b
      /\ ext \in [0..K -> Nat] /\ ext[0] = 0
      /\ \A j \in 1..K : ext[j] = ext[j - 1] + t[j].len
      /\ \A j \in 1..K : \A b \in 0..t[j].len - 1 :
           byte[d + ext[j - 1] + b] = t[j].addr + b
  BY DEF Lays, LaysFrom, Counts
<1>2. /\ Len(st) = L + K
      /\ \A i \in 1..L : st[i] = s[i]
      /\ \A i \in L + 1..L + K : st[i] = t[i - L]
  OBVIOUS
<1>3. \A j \in 1..K : t[j].len \in Nat
  <2>1. \A j \in 1..K : t[j] \in Spans
    OBVIOUS
  <2> QED BY <2>1 DEF Spans
<1> HIDE DEF L, K, st
<1>4. d \in Nat
  BY <1>1
<1> HIDE DEF d
<1>5. ASSUME NEW i \in 0..L + K
      PROVE  /\ new[i] \in Nat
             /\ i <= L => new[i] = pos[i]
             /\ i >= L => new[i] = d + ext[i - L]
  <2>1. CASE i < L
    BY <1>1, <2>1
  <2>2. CASE i = L
    <3>1. i - L = 0 /\ d + ext[0] = d /\ pos[i] = d
      BY <1>1, <1>4, <2>2 DEF d
    <3> QED BY <1>1, <1>4, <2>2, <3>1
  <2>3. CASE i > L
    <3>1. i - L \in 0..K
      BY <1>1, <2>3
    <3>2. ext[i - L] \in Nat
      BY <1>1, <3>1
    <3> QED BY <1>1, <1>4, <2>3, <3>2
  <2> QED BY <1>1, <2>1, <2>2, <2>3
<1>6. new \in [0..L + K -> Nat]
  BY <1>5
<1> HIDE DEF new
<1>7. ASSUME NEW i \in 1..L + K
      PROVE  /\ new[i] = new[i - 1] + st[i].len
             /\ \A b \in 0..st[i].len - 1 : byte[new[i - 1] + b] = st[i].addr + b
  <2>1. i \in 0..L + K /\ i - 1 \in 0..L + K
    BY <1>1
  <2>2. CASE i <= L
    <3>1. i \in 1..L /\ i - 1 <= L
      BY <1>1, <2>2
    <3>2. new[i] = pos[i] /\ new[i - 1] = pos[i - 1] /\ st[i] = s[i]
      BY <1>2, <1>5, <2>1, <2>2, <3>1
    <3> QED BY <1>1, <3>1, <3>2
  <2>3. CASE ~(i <= L)
    <3> DEFINE j == i - L
    <3>1. j \in 1..K /\ i >= L /\ i - 1 >= L /\ i \in L + 1..L + K /\ (i - 1) - L = j - 1
      BY <1>1, <2>3
    <3>2. new[i] = d + ext[j] /\ new[i - 1] = d + ext[j - 1] /\ st[i] = t[j]
      BY <1>2, <1>5, <2>1, <3>1
    <3> HIDE DEF j
    <3>3. ext[j] = ext[j - 1] + t[j].len /\ ext[j - 1] \in Nat /\ t[j].len \in Nat
      BY <1>1, <1>3, <3>1
    <3>4. d + ext[j] = (d + ext[j - 1]) + t[j].len
      BY <1>4, <3>3
    <3>5. \A b \in 0..t[j].len - 1 : byte[d + ext[j - 1] + b] = t[j].addr + b
      BY <1>1, <3>1
    <3> QED BY <3>2, <3>4, <3>5
  <2> QED BY <2>2, <2>3
<1>8. new[0] = 0 /\ new[L + K] = d + ext[K]
  <2>1. 0 \in 0..L + K /\ 0 <= L /\ L + K \in 0..L + K /\ L + K >= L /\ L + K - L = K
    BY <1>1
  <2> QED BY <1>1, <1>5, <2>1
<1>9. Lays(st, new, byte) /\ new[Len(st)] = d + ext[K]
  BY <1>2, <1>6, <1>7, <1>8 DEF Lays, Counts
<1> QED BY <1>9, Zenon DEF d, K, L, st, LaidOut

LEMMA DescsLaid ==
  ASSUME NEW segs \in Seq(Spans), NEW pos, NEW byte, Lays(segs, pos, byte)
  PROVE  /\ InitRequest(segs) \in Seq(DescSpans)
         /\ LaidOut(InitRequest(segs), pos[Len(segs)], byte)
<1> DEFINE n == Len(segs)
           descs == CutLoop(segs)
           Good(k) == descs[k] \in Seq(DescSpans) /\ LaidOut(descs[k], pos[k], byte)
           T == {k \in 0..n : Good(k)}
<1>1. /\ n \in Nat /\ \A i \in 1..n : segs[i] \in Spans
      /\ pos \in [0..n -> Nat] /\ pos[0] = 0
      /\ \A i \in 1..n : pos[i] = pos[i - 1] + segs[i].len
      /\ \A i \in 1..n : \A b \in 0..segs[i].len - 1 :
           byte[pos[i - 1] + b] = segs[i].addr + b
  <2>1. n \in Nat /\ \A i \in 1..n : segs[i] \in Spans
    OBVIOUS
  <2> QED BY <2>1, Zenon DEF Lays, Counts
<1>2. descs = [k \in 0..n |-> IF k = 0 THEN <<>> ELSE descs[k - 1] \o Cut(segs[k])]
  BY <1>1, DescsLoop
<1>3. Seq(DescSpans) \subseteq Seq(Spans)
  <2>1. DescSpans \subseteq Spans
    BY ListBounds DEF DescSpans, Spans
  <2> QED BY <2>1
<1> HIDE DEF descs, n
<1>4. 0 \in T
  <2> DEFINE zero == [i \in 0..0 |-> 0]
  <2>1. descs[0] = <<>>
    BY <1>1, <1>2
  <2>2. <<>> \in Seq(DescSpans) /\ Len(<<>>) = 0
    OBVIOUS
  <2>3. Lays(<<>>, zero, byte) /\ zero[0] = 0
    BY DEF Lays, Counts
  <2>4. 0 \in 0..n
    BY <1>1
  <2> HIDE DEF zero
  <2>5. LaidOut(descs[0], pos[0], byte)
    BY <1>1, <2>1, <2>2, <2>3, Zenon DEF LaidOut
  <2> QED BY <2>1, <2>2, <2>4, <2>5, Zenon
<1>5. ASSUME NEW k \in 0..n - 1, k \in T PROVE k + 1 \in T
  <2> DEFINE s == descs[k]
             seg == segs[k + 1]
             t == Cut(seg)
  <2>1. k + 1 \in 0..n /\ k + 1 \in 1..n /\ k + 1 # 0 /\ k + 1 - 1 = k /\ k \in 0..n
    BY <1>1
  <2>2. descs[k + 1] = s \o t
    <3>1. descs[k + 1] = descs[(k + 1) - 1] \o Cut(segs[k + 1])
      BY <1>2, <2>1, Zenon
    <3> DEFINE h == (k + 1) - 1
    <3>2. h = k
      BY <2>1
    <3>3. descs[k + 1] = descs[h] \o Cut(segs[k + 1])
      BY <3>1, Zenon
    <3> HIDE DEF h
    <3> QED BY <3>2, <3>3, Zenon
  <2>3. s \in Seq(DescSpans) /\ LaidOut(s, pos[k], byte)
    BY <1>5, Zenon
  <2>4. PICK old : Lays(s, old, byte) /\ old[Len(s)] = pos[k]
    BY <2>3, Zenon DEF LaidOut
  <2>5. /\ seg \in Spans /\ pos[k + 1] = pos[k] + seg.len
        /\ \A b \in 0..seg.len - 1 : byte[pos[k] + b] = seg.addr + b
    <3>1. /\ seg \in Spans /\ pos[k + 1] = pos[(k + 1) - 1] + seg.len
          /\ \A b \in 0..seg.len - 1 : byte[pos[(k + 1) - 1] + b] = seg.addr + b
      BY <1>1, <2>1, Zenon
    <3> DEFINE h == (k + 1) - 1
    <3>2. h = k
      BY <2>1
    <3>3. /\ seg \in Spans /\ pos[k + 1] = pos[h] + seg.len
          /\ \A b \in 0..seg.len - 1 : byte[pos[h] + b] = seg.addr + b
      BY <3>1
    <3> HIDE DEF h, seg
    <3> QED BY <3>2, <3>3
  <2> HIDE DEF seg
  <2>6. t \in Seq(DescSpans)
    BY <2>5, CutPieces
  <2>7. PICK ext : /\ Counts(t, ext) /\ ext[Len(t)] = seg.len
                   /\ \A j \in 1..Len(t) : t[j].addr = seg.addr + ext[j - 1]
    BY <2>5, CutPieces
  <2> HIDE DEF t, s
  <2>8. s \in Seq(Spans) /\ t \in Seq(Spans)
    BY <1>3, <2>3, <2>6
  <2>9. ASSUME NEW j \in 1..Len(t), NEW b \in 0..t[j].len - 1
        PROVE  byte[old[Len(s)] + ext[j - 1] + b] = t[j].addr + b
    <3>1. Len(t) \in Nat /\ \A i \in 1..Len(t) : t[i].len \in Nat
      <4>1. Len(t) \in Nat /\ \A i \in 1..Len(t) : t[i] \in Spans
        BY <2>8
      <4> QED BY <4>1 DEF Spans
    <3>2. /\ ext \in [0..Len(t) -> Nat] /\ ext[j] = ext[j - 1] + t[j].len
          /\ j - 1 \in 0..Len(t) /\ j \in 0..Len(t) /\ Len(t) \in 0..Len(t)
          /\ Len(t) \in j..Len(t)
      BY <2>7, <3>1 DEF Counts
    <3>3. ext[j] <= ext[Len(t)]
      BY <2>7, <3>1, <3>2, CountsMonotone
    <3> DEFINE e == ext[j - 1]
               l == t[j].len
    <3>4. e \in Nat /\ l \in Nat /\ ext[j] = e + l /\ e + l <= seg.len /\ seg.len \in Nat
          /\ seg.addr \in Nat /\ t[j].addr = seg.addr + e /\ b \in 0..l - 1
      BY <2>5, <2>7, <3>1, <3>2, <3>3 DEF Spans
    <3> HIDE DEF e, l
    <3>5. e + b \in 0..seg.len - 1 /\ seg.addr + (e + b) = (seg.addr + e) + b
      <4> DEFINE u == seg.len
                 v == seg.addr
      <4>1. e \in Nat /\ l \in Nat /\ u \in Nat /\ v \in Nat /\ e + l <= u /\ b \in 0..l - 1
        BY <3>4
      <4> HIDE DEF u, v
      <4>2. e + b \in 0..u - 1 /\ v + (e + b) = (v + e) + b
        BY <4>1
      <4> QED BY <4>2 DEF u, v
    <3>6. byte[pos[k] + (e + b)] = seg.addr + (e + b)
      BY <2>5, <3>5
    <3>7. pos[k] \in Nat /\ pos[k] + (e + b) = pos[k] + e + b
      BY <1>1, <2>1, <3>4
    <3> QED BY <2>4, <3>4, <3>5, <3>6, <3>7 DEF e
  <2>10. LaidOut(s \o t, old[Len(s)] + ext[Len(t)], byte)
    <3>1. LaysFrom(t, ext, old[Len(s)], byte)
      BY <2>9 DEF LaysFrom
    <3>2. Lays(s, old, byte) /\ Counts(t, ext)
      BY <2>4, <2>7
    <3> QED BY <2>8, <3>1, <3>2, Concatenated
  <2>11. LaidOut(descs[k + 1], pos[k + 1], byte)
    <3>1. old[Len(s)] + ext[Len(t)] = pos[k + 1]
      BY <2>4, <2>5, <2>7
    <3> QED BY <2>2, <2>10, <3>1, Zenon
  <2>12. descs[k + 1] \in Seq(DescSpans)
    BY <2>2, <2>3, <2>6
  <2> QED BY <2>1, <2>11, <2>12, Zenon
<1>6. \A k \in 0..n : k \in T
  <2> HIDE DEF T
  <2> QED BY <1>1, <1>4, <1>5, Induction
<1>7. Good(n)
  <2>1. n \in 0..n
    BY <1>1
  <2> QED BY <1>6, <2>1, Zenon
<1>8. InitRequest(segs) = descs[n]
  BY DEF InitRequest, descs, n
<1> QED BY <1>7, <1>8, Zenon DEF n
-----------------------------------------------------------------------------
(* The bytes of lists made from others                                     *)

\* A list whose entries have lengths.
Measured(list) == Len(list) \in Nat /\ \A i \in 1..Len(list) : list[i].len \in Nat

LEMMA UptoFacts ==
  ASSUME NEW list, Measured(list)
  PROVE  /\ Counts(list, Upto(list)) /\ Upto(list)[Len(list)] = Total(list)
         /\ Total(list) \in Nat
         /\ \A i \in 0..Len(list) : Upto(list)[i] \in Nat /\ Upto(list)[i] <= Total(list)
<1>1. Len(list) \in Nat /\ \A i \in 1..Len(list) : list[i].len \in Nat
  BY DEF Measured
<1>2. Counts(list, Upto(list))
  BY <1>1, UptoCounts
<1> DEFINE n == Len(list)
           sum == Upto(list)
<1>3. n \in Nat /\ sum \in [0..n -> Nat]
  BY <1>1, <1>2, Zenon DEF Counts
<1>4. sum[n] = Total(list)
  BY Zenon DEF Total
<1>5. ASSUME NEW i \in 0..n PROVE sum[i] <= sum[n]
  <2>1. \A j \in i..n : sum[i] <= sum[j]
    BY <1>1, <1>2, CountsMonotone
  <2>2. n \in i..n
    BY <1>3
  <2> QED BY <2>1, <2>2
<1> HIDE DEF n, sum
<1>6. sum[n] \in Nat /\ \A i \in 0..n : sum[i] \in Nat
  BY <1>3
<1> QED BY <1>2, <1>4, <1>5, <1>6 DEF n, sum

LEMMA CountsAre ==
  ASSUME NEW list, Measured(list), NEW pos, Counts(list, pos)
  PROVE  pos = Upto(list) /\ pos[Len(list)] = Total(list)
<1>1. Len(list) \in Nat /\ \A i \in 1..Len(list) : list[i].len \in Nat
  BY DEF Measured
<1> QED BY <1>1, CountsUnique

LEMMA SameLengths ==
  ASSUME NEW s, NEW t, Measured(s), Len(t) = Len(s), \A i \in 1..Len(s) : t[i].len = s[i].len
  PROVE  Measured(t) /\ Upto(t) = Upto(s) /\ Total(t) = Total(s)
<1>1. Measured(t)
  BY DEF Measured
<1>2. Counts(t, Upto(s))
  BY UptoFacts DEF Counts
<1> QED BY <1>1, <1>2, CountsAre, UptoFacts

\* n entries of a list, from the one behind entry a on
Part(sub, list, a, n) ==
  a + n <= Len(list) /\ Len(sub) = n /\ \A i \in 1..n : sub[i] = list[a + i]

LEMMA UptoSub ==
  ASSUME NEW list, Measured(list), NEW a \in Nat, NEW n \in Nat, NEW sub, Part(sub, list, a, n)
  PROVE  /\ Measured(sub)
         /\ \A i \in 0..n : Upto(sub)[i] = Upto(list)[a + i] - Upto(list)[a]
         /\ Total(sub) = Upto(list)[a + n] - Upto(list)[a]
<1> DEFINE sum == Upto(list)
           L == Len(list)
           pos == [i \in 0..n |-> sum[a + i] - sum[a]]
<1>0. a + n <= Len(list) /\ Len(sub) = n /\ \A i \in 1..n : sub[i] = list[a + i]
  BY Zenon DEF Part
<1>1. /\ L \in Nat /\ (\A i \in 1..L : list[i].len \in Nat)
      /\ sum \in [0..L -> Nat] /\ \A i \in 1..L : sum[i] = sum[i - 1] + list[i].len
  BY UptoFacts, Zenon DEF Measured, Counts
<1>2. \A j \in a..L : sum[a] <= sum[j]
  <2>1. a \in 0..L
    BY <1>0, <1>1
  <2>2. Counts(list, sum)
    BY UptoFacts
  <2> QED BY <1>1, <2>1, <2>2, CountsMonotone
<1> HIDE DEF sum, L
<1>3. Measured(sub)
  <2>1. \A i \in 1..n : a + i \in 1..L
    BY <1>0, <1>1 DEF L
  <2> QED BY <1>0, <1>1, <2>1 DEF Measured
<1>4. pos \in [0..n -> Nat] /\ pos[0] = 0
  <2>1. ASSUME NEW i \in 0..n PROVE sum[a + i] - sum[a] \in Nat
    <3>1. a + i \in a..L /\ a + i \in 0..L /\ a \in 0..L
      BY <1>0, <1>1 DEF L
    <3>2. sum[a + i] \in Nat /\ sum[a] \in Nat /\ sum[a] <= sum[a + i]
      BY <1>1, <1>2, <3>1
    <3> QED BY <3>2
  <2>2. a + 0 = a /\ 0 \in 0..n /\ a \in 0..L
    BY <1>0, <1>1 DEF L
  <2>3. sum[a] \in Nat
    BY <1>1, <2>2
  <2>4. sum[a + 0] - sum[a] = 0
    BY <2>2, <2>3
  <2>5. pos[0] = sum[a + 0] - sum[a]
    BY <2>2, Zenon
  <2>6. pos \in [0..n -> Nat]
    BY <2>1
  <2> QED BY <2>4, <2>5, <2>6
<1>5. ASSUME NEW i \in 1..n PROVE pos[i] = pos[i - 1] + sub[i].len
  <2>1. /\ a + i \in 1..L /\ a + i \in 0..L /\ (a + i) - 1 \in 0..L /\ a \in 0..L
        /\ i \in 0..n /\ i - 1 \in 0..n /\ a + (i - 1) = (a + i) - 1
    BY <1>0, <1>1 DEF L
  <2>2. pos[i] = sum[a + i] - sum[a] /\ pos[i - 1] = sum[(a + i) - 1] - sum[a]
    BY <2>1
  <2>3. sum[a + i] = sum[(a + i) - 1] + list[a + i].len /\ list[a + i].len \in Nat
    BY <1>1, <2>1
  <2>4. sum[a + i] \in Nat /\ sum[(a + i) - 1] \in Nat /\ sum[a] \in Nat
    BY <1>1, <2>1
  <2> DEFINE x == sum[a + i]
             y == sum[(a + i) - 1]
             z == sum[a]
             l == list[a + i].len
  <2>5. x \in Nat /\ y \in Nat /\ z \in Nat /\ l \in Nat /\ x = y + l /\ sub[i].len = l
    BY <1>0, <2>3, <2>4
  <2>6. pos[i] = x - z /\ pos[i - 1] = y - z
    BY <2>2
  <2> HIDE DEF x, y, z, l
  <2> QED BY <2>5, <2>6
<1> HIDE DEF pos
<1>6. Counts(sub, pos)
  BY <1>0, <1>4, <1>5 DEF Counts
<1>7. pos = Upto(sub) /\ pos[n] = Total(sub)
  BY <1>0, <1>3, <1>6, CountsAre
<1>8. \A i \in 0..n : pos[i] = sum[a + i] - sum[a]
  BY DEF pos
<1>9. n \in 0..n
  OBVIOUS
<1> QED BY <1>3, <1>7, <1>8, <1>9 DEF sum

LEMMA UptoAppend ==
  ASSUME NEW S, NEW list \in Seq(S), Measured(list), NEW e \in S, e.len \in Nat
  PROVE  /\ Measured(Append(list, e))
         /\ \A i \in 0..Len(list) : Upto(Append(list, e))[i] = Upto(list)[i]
         /\ Total(Append(list, e)) = Total(list) + e.len
<1> DEFINE n == Len(list)
           sum == Upto(list)
           new == Append(list, e)
           pos == [i \in 0..n + 1 |-> IF i <= n THEN sum[i] ELSE sum[n] + e.len]
<1>1. /\ Len(new) = n + 1 /\ new[n + 1] = e /\ (\A i \in 1..n : new[i] = list[i]) /\ n \in Nat
  OBVIOUS
<1>2. /\ (\A i \in 1..n : list[i].len \in Nat)
      /\ sum \in [0..n -> Nat] /\ sum[0] = 0 /\ \A i \in 1..n : sum[i] = sum[i - 1] + list[i].len
  BY UptoFacts, Zenon DEF Measured, Counts
<1>3. sum[n] = Total(list)
  BY UptoFacts
<1> HIDE DEF new, n, sum
<1>4. \A i \in 1..n + 1 : i \in 1..n \/ i = n + 1
  BY <1>1
<1>5. Measured(new)
  BY <1>1, <1>2, <1>4 DEF Measured
<1>6. pos \in [0..n + 1 -> Nat] /\ pos[0] = 0 /\ pos[n + 1] = sum[n] + e.len
  BY <1>1, <1>2
<1>7. \A i \in 0..n : pos[i] = sum[i]
  BY <1>1
<1> HIDE DEF pos
<1>8. ASSUME NEW i \in 1..n + 1 PROVE pos[i] = pos[i - 1] + new[i].len
  <2>1. CASE i \in 1..n
    <3>1. i \in 0..n /\ i - 1 \in 0..n
      BY <1>1, <2>1
    <3> QED BY <1>1, <1>2, <1>7, <2>1, <3>1
  <2>2. CASE i = n + 1
    <3>1. i - 1 = n /\ n \in 0..n
      BY <1>1, <2>2
    <3>2. pos[n] = sum[n]
      BY <1>7, <3>1
    <3>3. pos[i] = sum[n] + e.len /\ new[i] = e
      BY <1>1, <1>6, <2>2
    <3> QED BY <3>1, <3>2, <3>3
  <2> QED BY <1>4, <2>1, <2>2
<1>9. Counts(new, pos)
  BY <1>1, <1>6, <1>8 DEF Counts
<1>10. pos = Upto(new) /\ pos[n + 1] = Total(new)
  BY <1>1, <1>5, <1>9, CountsAre
<1> QED BY <1>3, <1>5, <1>6, <1>7, <1>10 DEF new, n, sum
-----------------------------------------------------------------------------
(* Descriptors                                                             *)

CardDescs == [addr : Nat, ep : Nat, len : 1..DescBlenMax]

\* The byte of the card that byte b of a descriptor goes to
OnCard(d, b, fix) == IF fix THEN d.ep ELSE d.ep + b

\* The descriptors move the bytes from byte d on: byte and card say where each
\* is in the memory of the host and where on the card.
Carries(list, d, fix, byte, card) ==
  \A i \in 1..Len(list) : \A b \in 0..list[i].len - 1 :
    /\ list[i].addr + b = byte[d + Upto(list)[i - 1] + b]
    /\ OnCard(list[i], b, fix) = card[d + Upto(list)[i - 1] + b]

Pairs(list, fix) ==
  UNION {{<<list[i].addr + b, OnCard(list[i], b, fix)>> : b \in 0..list[i].len - 1} :
           i \in DOMAIN list}

(* What such descriptors move is what they are meant to move.              *)
LEMMA PairsOf ==
  ASSUME NEW list, Measured(list), DOMAIN list = 1..Len(list), NEW d \in Nat, NEW fix,
         NEW byte, NEW card, Carries(list, d, fix, byte, card)
  PROVE  \A x : x \in Pairs(list, fix) <=>
                  \E k \in d..d + Total(list) - 1 : x = <<byte[k], card[k]>>
<1> DEFINE sum == Upto(list)
           n == Len(list)
           At(i, b) == d + sum[i - 1] + b
<1>1. /\ n \in Nat /\ (\A i \in 1..n : list[i].len \in Nat)
      /\ sum \in [0..n -> Nat] /\ \A i \in 1..n : sum[i] = sum[i - 1] + list[i].len
  BY UptoFacts, Zenon DEF Measured, Counts
<1>2. \A i \in 0..n : sum[i] \in Nat /\ sum[i] <= Total(list)
  BY UptoFacts
<1>3. Total(list) \in Nat /\ sum[n] = Total(list) /\ Counts(list, sum)
  BY UptoFacts
<1>4. \A i \in 1..n : \A b \in 0..list[i].len - 1 :
        /\ list[i].addr + b = byte[At(i, b)] /\ OnCard(list[i], b, fix) = card[At(i, b)]
  BY Zenon DEF Carries
<1>5. ASSUME NEW k \in 0..Total(list) - 1
      PROVE  \E i \in 1..n : \E b \in 0..list[i].len - 1 : k = sum[i - 1] + b
  BY <1>1, <1>3, EntryOfByte
<1> HIDE DEF sum, n
<1>6. ASSUME NEW i \in 1..n, NEW b \in 0..list[i].len - 1
      PROVE  At(i, b) \in d..d + Total(list) - 1
  <2> DEFINE y == sum[i - 1]
             l == list[i].len
             m == Total(list)
  <2>1. i - 1 \in 0..n /\ i \in 0..n
    BY <1>1
  <2>2. y \in Nat /\ l \in Nat /\ m \in Nat /\ y + l <= m /\ b \in 0..l - 1
    BY <1>1, <1>2, <1>3, <2>1
  <2> HIDE DEF y, l, m
  <2>3. d + y + b \in d..d + m - 1
    BY <2>2
  <2> QED BY <2>3 DEF y, m
<1>7. ASSUME NEW x PROVE x \in Pairs(list, fix) =>
                           \E k \in d..d + Total(list) - 1 : x = <<byte[k], card[k]>>
  <2>1. SUFFICES ASSUME x \in Pairs(list, fix)
                 PROVE  \E k \in d..d + Total(list) - 1 : x = <<byte[k], card[k]>>
    OBVIOUS
  <2>2. DOMAIN list = 1..n
    BY DEF n
  <2>3. PICK i \in 1..n : \E b \in 0..list[i].len - 1 :
               x = <<list[i].addr + b, OnCard(list[i], b, fix)>>
    BY <2>1, <2>2, Zenon DEF Pairs
  <2>6. PICK b \in 0..list[i].len - 1 : x = <<list[i].addr + b, OnCard(list[i], b, fix)>>
    BY <2>3
  <2>4. x = <<byte[At(i, b)], card[At(i, b)]>>
    BY <1>4, <2>6, Zenon
  <2>5. At(i, b) \in d..d + Total(list) - 1
    BY <1>6
  <2> HIDE DEF At
  <2> QED BY <2>4, <2>5, Zenon
<1>8. ASSUME NEW k \in d..d + Total(list) - 1 PROVE <<byte[k], card[k]>> \in Pairs(list, fix)
  <2>1. k - d \in 0..Total(list) - 1 /\ k = d + (k - d)
    BY <1>3
  <2>6. PICK i \in 1..n : \E b \in 0..list[i].len - 1 : k - d = sum[i - 1] + b
    BY <1>5, <2>1
  <2>2. PICK b \in 0..list[i].len - 1 : k - d = sum[i - 1] + b
    BY <2>6
  <2>3. At(i, b) = k
    <3>1. i - 1 \in 0..n
      BY <1>1
    <3> DEFINE y == sum[i - 1]
    <3>2. y \in Nat /\ k - d = y + b /\ b \in Int
      BY <1>1, <2>2, <3>1
    <3> HIDE DEF y
    <3>3. d + y + b = k
      BY <3>2
    <3> QED BY <3>3 DEF y
  <2>4. <<byte[k], card[k]>> = <<list[i].addr + b, OnCard(list[i], b, fix)>>
    <3> HIDE DEF At
    <3> QED BY <1>4, <2>3, Zenon
  <2>5. i \in DOMAIN list
    BY DEF n
  <2> DEFINE Of(j) == {<<list[j].addr + c, OnCard(list[j], c, fix)>> : c \in 0..list[j].len - 1}
  <2>7. <<list[i].addr + b, OnCard(list[i], b, fix)>> \in Of(i)
    OBVIOUS
  <2> HIDE DEF Of
  <2>8. Pairs(list, fix) = UNION {Of(j) : j \in DOMAIN list}
    BY Zenon DEF Pairs, Of
  <2> QED BY <2>4, <2>5, <2>7, <2>8
<1> QED BY <1>7, <1>8, Zenon

LEMMA DescsMeasured ==
  /\ \A list \in Seq(DescSpans) : Measured(list)
  /\ \A list \in Seq(CardDescs) : Measured(list)
  /\ \A list \in Seq(Spans) : Measured(list)
<1>0. DescBlenMax \in Nat \ {0}
  BY ListBounds
<1>1. ASSUME NEW list \in Seq(DescSpans) PROVE Measured(list)
  <2>1. Len(list) \in Nat /\ \A i \in 1..Len(list) : list[i] \in DescSpans
    OBVIOUS
  <2> QED BY <1>0, <2>1 DEF Measured, DescSpans
<1>2. ASSUME NEW list \in Seq(CardDescs) PROVE Measured(list)
  <2>1. Len(list) \in Nat /\ \A i \in 1..Len(list) : list[i] \in CardDescs
    OBVIOUS
  <2> QED BY <1>0, <2>1 DEF Measured, CardDescs
<1>3. ASSUME NEW list \in Seq(Spans) PROVE Measured(list)
  <2>1. Len(list) \in Nat /\ \A i \in 1..Len(list) : list[i] \in Spans
    OBVIOUS
  <2> QED BY <2>1 DEF Measured, Spans
<1> QED BY <1>1, <1>2, <1>3

(* transfer_build                                                          *)
IsBuilt(list, sub, ep, fix) ==
  /\ list \in Seq(CardDescs) /\ Len(list) = Len(sub)
  /\ \A i \in 1..Len(sub) : /\ list[i].addr = sub[i].addr /\ list[i].len = sub[i].len
                             /\ list[i].ep = IF fix THEN ep ELSE ep + Upto(sub)[i - 1]

LEMMA BuiltTyped ==
  ASSUME NEW sub \in Seq(DescSpans), NEW ep \in Nat, NEW fix \in BOOLEAN
  PROVE  IsBuilt(TransferBuild(sub, ep, fix), sub, ep, fix)
<1> DEFINE n == Len(sub)
           sum == Upto(sub)
           Desc(i) == [addr |-> sub[i].addr, len |-> sub[i].len,
                       ep |-> IF fix THEN ep ELSE ep + sum[i - 1]]
           list == [i \in 1..n |-> Desc(i)]
<1>1. TransferBuild(sub, ep, fix) = list
  BY DEF TransferBuild
<1>2. n \in Nat /\ \A i \in 1..n : sub[i] \in DescSpans
  OBVIOUS
<1>3. \A i \in 0..n : sum[i] \in Nat
  BY DescsMeasured, UptoFacts
<1> HIDE DEF n, sum
<1>4. ASSUME NEW i \in 1..n PROVE Desc(i) \in CardDescs
  <2>1. sub[i].addr \in Nat /\ sub[i].len \in 1..DescBlenMax
    BY <1>2 DEF DescSpans
  <2>2. sum[i - 1] \in Nat
    BY <1>2, <1>3
  <2>3. (IF fix THEN ep ELSE ep + sum[i - 1]) \in Nat
    BY <2>2
  <2> QED BY <2>1, <2>3 DEF CardDescs
<1>5. \A i \in 1..n : /\ Desc(i).addr = sub[i].addr /\ Desc(i).len = sub[i].len
                      /\ Desc(i).ep = IF fix THEN ep ELSE ep + sum[i - 1]
  OBVIOUS
<1> HIDE DEF Desc
<1>6. list \in Seq(CardDescs) /\ Len(list) = n /\ \A i \in 1..n : list[i] = Desc(i)
  BY <1>2, <1>4
<1> HIDE DEF list
<1>7. \A i \in 1..n : /\ list[i].addr = sub[i].addr /\ list[i].len = sub[i].len
                      /\ list[i].ep = IF fix THEN ep ELSE ep + sum[i - 1]
  BY <1>5, <1>6
<1> QED BY <1>1, <1>6, <1>7 DEF n, sum, IsBuilt

\* The bytes of the card from base on, or base alone; where a transfer starts
CardFrom(card, base, fix) == \A k \in Nat : card[k] = IF fix THEN base ELSE base + k
StartsAt(ep, base, fix, d) == (fix => ep = base) /\ (~fix => ep = base + d)

LEMMA Built ==
  ASSUME NEW descs \in Seq(DescSpans), NEW byte, Lays(descs, Upto(descs), byte),
         NEW a \in Nat, NEW n \in Nat, NEW sub \in Seq(DescSpans), Part(sub, descs, a, n),
         NEW base \in Nat, NEW fix \in BOOLEAN, NEW card, CardFrom(card, base, fix),
         NEW ep \in Nat, StartsAt(ep, base, fix, Upto(descs)[a])
  PROVE  /\ Total(TransferBuild(sub, ep, fix)) = Upto(descs)[a + n] - Upto(descs)[a]
         /\ Carries(TransferBuild(sub, ep, fix), Upto(descs)[a], fix, byte, card)
<1> DEFINE L == Len(descs)
           pos == Upto(descs)
           sum == Upto(sub)
           d == pos[a]
           list == TransferBuild(sub, ep, fix)
<1>1. /\ L \in Nat /\ (\A i \in 1..L : descs[i] \in DescSpans)
      /\ (\A i \in 0..L : pos[i] \in Nat)
      /\ \A i \in 1..L : \A b \in 0..descs[i].len - 1 : byte[pos[i - 1] + b] = descs[i].addr + b
  <2>1. \A i \in 0..L : pos[i] \in Nat
    BY DescsMeasured, UptoFacts
  <2>2. \A i \in 1..L : \A b \in 0..descs[i].len - 1 : byte[pos[i - 1] + b] = descs[i].addr + b
    BY Zenon DEF Lays
  <2>3. L \in Nat /\ \A i \in 1..L : descs[i] \in DescSpans
    OBVIOUS
  <2> QED BY <2>1, <2>2, <2>3
<1>2. a + n <= L /\ Len(sub) = n /\ \A i \in 1..n : sub[i] = descs[a + i]
  BY Zenon DEF Part
<1>3. /\ Measured(sub) /\ \A i \in 0..n : sum[i] = pos[a + i] - pos[a]
      /\ Total(sub) = pos[a + n] - pos[a]
  <2>1. Measured(descs)
    BY DescsMeasured
  <2>2. /\ Measured(sub) /\ \A i \in 0..n : Upto(sub)[i] = Upto(descs)[a + i] - Upto(descs)[a]
        /\ Total(sub) = Upto(descs)[a + n] - Upto(descs)[a]
    BY <2>1, UptoSub
  <2> QED BY <2>2, Zenon
<1>4. a \in 0..L /\ d \in Nat /\ ep \in Nat
  <2>1. a \in 0..L
    BY <1>1, <1>2
  <2>2. d \in Nat
    BY <1>1, <2>1
  <2> QED BY <2>1, <2>2
<1>5. /\ list \in Seq(CardDescs) /\ Len(list) = n
      /\ \A i \in 1..n : /\ list[i].addr = sub[i].addr /\ list[i].len = sub[i].len
                         /\ list[i].ep = IF fix THEN ep ELSE ep + sum[i - 1]
  <2>1. IsBuilt(list, sub, ep, fix)
    BY BuiltTyped
  <2> HIDE DEF list
  <2> QED BY <1>2, <2>1 DEF IsBuilt
<1> HIDE DEF list
<1>6. Upto(list) = sum /\ Total(list) = Total(sub)
  <2>1. Measured(sub) /\ Len(list) = Len(sub) /\ \A i \in 1..Len(sub) : list[i].len = sub[i].len
    BY <1>2, <1>3, <1>5, Zenon
  <2> QED BY <2>1, SameLengths, Zenon
<1>7. d = Upto(descs)[a] /\ pos[a + n] = Upto(descs)[a + n]
  OBVIOUS
<1>8. ep = IF fix THEN base ELSE base + d
  BY Zenon DEF StartsAt
<1> HIDE DEF L, pos, sum, d
<1>9. ASSUME NEW i \in 1..n, NEW b \in 0..list[i].len - 1
      PROVE  /\ list[i].addr + b = byte[d + sum[i - 1] + b]
             /\ OnCard(list[i], b, fix) = card[d + sum[i - 1] + b]
  <2> DEFINE j == a + i
             x == pos[j - 1]
  <2>1. /\ j \in 1..L /\ j - 1 \in 0..L /\ i - 1 \in 0..n /\ a + (i - 1) = j - 1
    BY <1>1, <1>2 DEF L
  <2>2. x \in Nat /\ sum[i - 1] = x - d
    BY <1>1, <1>3, <2>1 DEF d
  <2>3. list[i].len = descs[j].len /\ list[i].addr = descs[j].addr
    BY <1>2, <1>5
  <2>4. descs[j] \in DescSpans /\ b \in 0..descs[j].len - 1
    BY <1>1, <2>1, <2>3
  <2>5. b \in Nat
    BY <2>4, ListBounds DEF DescSpans
  <2>6. byte[x + b] = descs[j].addr + b
    BY <1>1, <2>1, <2>4
  <2> HIDE DEF x, j
  <2>7. d + sum[i - 1] + b = x + b /\ x + b \in Nat
    BY <1>4, <2>2, <2>5
  <2>8. OnCard(list[i], b, fix) = card[x + b]
    <3>1. card[x + b] = IF fix THEN base ELSE base + (x + b)
      BY <2>7, Zenon DEF CardFrom
    <3>2. CASE fix
      BY <1>5, <1>8, <3>1, <3>2 DEF OnCard
    <3>3. CASE ~fix
      <4>1. list[i].ep = base + d + (x - d)
        BY <1>5, <1>8, <2>2, <3>3
      <4>2. base + d + (x - d) + b = base + (x + b)
        BY <1>4, <2>2, <2>5
      <4> QED BY <3>1, <3>3, <4>1, <4>2 DEF OnCard
    <3> QED BY <3>2, <3>3
  <2> QED BY <2>3, <2>6, <2>7, <2>8
<1>10. Carries(list, d, fix, byte, card)
  BY <1>5, <1>6, <1>9 DEF Carries
<1> QED BY <1>3, <1>6, <1>7, <1>10 DEF list, pos

-----------------------------------------------------------------------------
(* The ring                                                                *)

LEMMA SizeInRing ==
  ASSUME NEW left \in Nat \ {0}, NEW idx \in 0..RingSize - 1
  PROVE  TransferSize(left, idx) \in 1..left /\ idx + TransferSize(left, idx) <= RingSize
<1>1. RingSize \in Nat \ {0}
  BY ListBounds
<1>2. Least(left, RingSize) \in 1..left /\ Least(left, RingSize) <= RingSize
  BY <1>1 DEF Least
<1> QED BY <1>1, <1>2 DEF TransferSize

(* The descriptors fetched together are before the end and in one block.   *)
LEMMA AdjInside ==
  ASSUME NEW left \in Nat \ {0}, NEW next \in Nat
  PROVE  /\ GetNextAdj(left, next) \in 0..left - 1
         /\ next \div AdjBlock = (next + GetNextAdj(left, next)) \div AdjBlock
<1> DEFINE B == AdjBlock
           t == next % B
           adj == GetNextAdj(left, next)
<1>1. B \in Nat \ {0}
  BY ListBounds
<1>2. t \in 0..B - 1
  <2> HIDE DEF B
  <2> QED BY <1>1, Division
<1>3. adj \in 0..left - 1 /\ t + adj <= B - 1
  <2> HIDE DEF B, t
  <2>1. GetNextAdj(left, next) = IF left <= 1 THEN 0 ELSE Least(B - t - 1, left - 1)
    BY DEF GetNextAdj, B, t
  <2> QED BY <1>1, <1>2, <2>1 DEF Least
<1> HIDE DEF adj
<1>4. next \div B = (next + adj) \div B
  <2>1. adj \in Nat /\ (next % B) + adj < B
    <3> HIDE DEF B, t
    <3>1. adj \in Nat /\ t + adj < B
      BY <1>1, <1>2, <1>3
    <3> QED BY <3>1 DEF t
  <2> HIDE DEF B
  <2> QED BY <1>1, <2>1, InBlock
<1> QED BY <1>3, <1>4 DEF B, adj

RingDescs == [addr : Nat, ep : Nat, len : 1..DescBlenMax, slot : 0..RingSize - 1,
              next : Nat, adj : Nat, stop : BOOLEAN]

\* The descriptors as they lie in the ring from slot first on
IsLinked(x, descs, first) ==
  /\ x \in Seq(RingDescs) /\ Len(x) = Len(descs) /\ first + Len(descs) <= RingSize
  /\ \A i \in 1..Len(descs) :
       /\ x[i].addr = descs[i].addr /\ x[i].ep = descs[i].ep /\ x[i].len = descs[i].len
       /\ x[i].slot = first + i - 1
       /\ x[i].next = IF i = Len(descs) THEN RingSize ELSE first + i
       /\ x[i].adj = GetNextAdj(Len(descs) - i, first + i)
       /\ x[i].stop = (i = Len(descs))

LEMMA LinkedTyped ==
  ASSUME NEW descs \in Seq(CardDescs), NEW first \in Nat, first + Len(descs) <= RingSize
  PROVE  IsLinked(Linked(descs, first), descs, first)
<1> DEFINE n == Len(descs)
           Desc(i) == [addr |-> descs[i].addr, ep |-> descs[i].ep, len |-> descs[i].len,
                       slot |-> first + i - 1,
                       next |-> IF i = n THEN RingSize ELSE first + i,
                       adj  |-> GetNextAdj(n - i, first + i),
                       stop |-> i = n]
           x == [i \in 1..n |-> Desc(i)]
<1>0. RingSize \in Nat \ {0}
  BY ListBounds
<1>1. n \in Nat /\ DOMAIN descs = 1..n /\ \A i \in 1..n : descs[i] \in CardDescs
  OBVIOUS
<1>2. Linked(descs, first) = x
  BY <1>1, Zenon DEF Linked
<1>3. first + n <= RingSize
  OBVIOUS
<1> HIDE DEF n
<1>4. ASSUME NEW i \in 1..n PROVE Desc(i) \in RingDescs
  <2>1. descs[i].addr \in Nat /\ descs[i].ep \in Nat /\ descs[i].len \in 1..DescBlenMax
    BY <1>1 DEF CardDescs
  <2>2. first + i - 1 \in 0..RingSize - 1 /\ (IF i = n THEN RingSize ELSE first + i) \in Nat
    BY <1>0, <1>1, <1>3
  <2>3. GetNextAdj(n - i, first + i) \in Nat
    <3>1. CASE i = n
      BY <1>1, <3>1 DEF GetNextAdj
    <3>2. CASE i # n
      <4>1. n - i \in Nat \ {0} /\ first + i \in Nat
        BY <1>1, <3>2
      <4>2. GetNextAdj(n - i, first + i) \in 0..(n - i) - 1
        BY <4>1, AdjInside
      <4> QED BY <4>1, <4>2
    <3> QED BY <3>1, <3>2
  <2>4. (i = n) \in BOOLEAN
    OBVIOUS
  <2> QED BY <2>1, <2>2, <2>3, <2>4 DEF RingDescs
<1>5. \A i \in 1..n :
        /\ Desc(i).addr = descs[i].addr /\ Desc(i).ep = descs[i].ep /\ Desc(i).len = descs[i].len
        /\ Desc(i).slot = first + i - 1
        /\ Desc(i).next = IF i = n THEN RingSize ELSE first + i
        /\ Desc(i).adj = GetNextAdj(n - i, first + i)
        /\ Desc(i).stop = (i = n)
  OBVIOUS
<1> HIDE DEF Desc
<1>6. x \in Seq(RingDescs) /\ Len(x) = n /\ \A i \in 1..n : x[i] = Desc(i)
  BY <1>1, <1>4
<1> HIDE DEF x
<1> QED BY <1>2, <1>3, <1>5, <1>6 DEF n, IsLinked

-----------------------------------------------------------------------------
(* A pass of the loop of xdma_xfer_aperture                                *)

PassReqs ==
  {r \in [ep : Nat, aperture : Nat \ {0}, offset : Nat, start : Nat, sgIdx : Nat, sgOff : Nat] :
     r.start < r.aperture}
PassStates == [list : Seq(CardDescs), i : Nat, sg : Nat, off : Nat, ep : Nat]

PassOK(s, r, room) ==
  /\ s \in PassStates /\ s.sg \in 1..s.i + 1 /\ Len(s.list) <= room
  /\ s.ep \in r.ep..r.ep + r.aperture

Left(segs, s) == (segs[s.sg].len - s.off) % U32

PassIs(s, list, i, sg, off, ep) ==
  s \in PassStates /\ s.list = list /\ s.i = i /\ s.sg = sg /\ s.off = off /\ s.ep = ep

NewDesc(segs, s, ep, len) == [addr |-> segs[s.sg].addr + s.off, ep |-> ep, len |-> len]

\* What a step of the loop may do: nothing, skip an entry of the scatter list or
\* make a descriptor of len bytes for byte ep of the card.
Skips(segs, s, t) ==
  /\ s.i < Len(segs) /\ Left(segs, s) = 0
  /\ PassIs(t, s.list, s.i + 1, s.sg + 1, 0, s.ep)
MakesOne(segs, r, s, room, t, ep, len) ==
  /\ s.i < Len(segs) /\ Len(s.list) < room
  /\ ep \in r.ep..r.ep + r.aperture - 1
  /\ ep = IF s.ep > r.ep + r.aperture - 1 THEN r.ep ELSE s.ep
  /\ len \in 1..DescBlenMax /\ len <= Left(segs, s) /\ ep + len <= r.ep + r.aperture
  /\ NewDesc(segs, s, ep, len) \in CardDescs
  /\ LET list == Append(s.list, NewDesc(segs, s, ep, len))
     IN IF len = Left(segs, s) THEN PassIs(t, list, s.i + 1, s.sg + 1, 0, ep + len)
                               ELSE PassIs(t, list, s.i, s.sg, s.off + len, ep + len)
Makes(segs, r, s, room, t) == \E ep, len : MakesOne(segs, r, s, room, t, ep, len)

LEMMA PassMoves ==
  ASSUME NEW s \in PassStates, NEW i \in Nat, NEW sg \in Nat, NEW off \in Nat
  PROVE  PassIs([s EXCEPT !.i = i, !.sg = sg, !.off = off], s.list, i, sg, off, s.ep)
BY DEF PassStates, PassIs

LEMMA PassMakes ==
  ASSUME NEW s \in PassStates, NEW l \in Seq(CardDescs), NEW off \in Nat, NEW ep \in Nat
  PROVE  PassIs([s EXCEPT !.off = off, !.ep = ep, !.list = l], l, s.i, s.sg, off, ep)
BY DEF PassStates, PassIs

LEMMA Wraps == U32 \in Nat \ {0}
BY DEF U32

LEMMA NextSgIs ==
  ASSUME NEW s \in PassStates
  PROVE  PassIs(NextSg(s), s.list, s.i + 1, s.sg + 1, 0, s.ep)
<1> DEFINE a == s.i + 1
           b == s.sg + 1
<1>1. a \in Nat /\ b \in Nat
  BY DEF PassStates
<1>2. NextSg(s) = [s EXCEPT !.i = a, !.sg = b, !.off = 0]
  BY Zenon DEF NextSg
<1> HIDE DEF a, b
<1>3. PassIs([s EXCEPT !.i = a, !.sg = b, !.off = 0], s.list, a, b, 0, s.ep)
  BY <1>1, PassMoves
<1> QED BY <1>2, <1>3, Zenon DEF a, b

LEMMA StepIs ==
  ASSUME NEW segs \in Seq(Spans), NEW r \in PassReqs, NEW room \in Nat, NEW s,
         PassOK(s, r, room)
  PROVE  LET t == ApertureStep(segs, r, room, s)
         IN t = s \/ Skips(segs, s, t) \/ Makes(segs, r, s, room, t)
<1> DEFINE t == ApertureStep(segs, r, room, s)
           epMax == r.ep + r.aperture - 1
           seg   == segs[s.sg]
           left  == Left(segs, s)
           ep    == IF s.ep > epMax THEN r.ep ELSE s.ep
           want  == Least(left, Least(r.aperture, DescBlenMax))
           len   == IF ep + want > epMax THEN epMax - ep + 1 ELSE want
           d     == NewDesc(segs, s, ep, len)
           m     == Append(s.list, d)
           made  == [s EXCEPT !.off = s.off + len, !.ep = ep + len, !.list = m]
           Ends  == s.i >= Len(segs) \/ Len(s.list) = room
<1>0. DescBlenMax \in Nat \ {0}
  BY ListBounds
<1>1. t = IF Ends THEN s
          ELSE IF left = 0 THEN NextSg(s)
          ELSE IF len = left THEN NextSg(made) ELSE made
  BY Zenon DEF ApertureStep, Left, NewDesc
<1>2. /\ r.ep \in Nat /\ r.aperture \in Nat \ {0} /\ s \in PassStates
      /\ s.list \in Seq(CardDescs) /\ s.i \in Nat /\ s.sg \in Nat /\ s.off \in Nat
      /\ s.ep \in Nat /\ s.ep \in r.ep..r.ep + r.aperture
      /\ s.sg \in 1..s.i + 1 /\ Len(s.list) <= room
  BY DEF PassOK, PassStates, PassReqs
<1>4. Ends \/ (s.i < Len(segs) /\ Len(s.list) < room)
  <2> DEFINE x == Len(segs)
             y == Len(s.list)
             z == s.i
  <2>1. x \in Nat /\ y \in Nat /\ z \in Nat /\ y <= room
    BY <1>2
  <2> HIDE DEF x, y, z
  <2>2. (z >= x \/ y = room) \/ (z < x /\ y < room)
    BY <2>1
  <2> QED BY <2>2, Zenon DEF x, y, z
<1>5. s.i < Len(segs) => seg \in Spans /\ left \in 0..U32 - 1
  <2>1. SUFFICES ASSUME s.i < Len(segs) PROVE seg \in Spans /\ left \in 0..U32 - 1
    BY Zenon
  <2>2. s.sg \in 1..Len(segs)
    BY <1>2, <2>1
  <2>3. seg \in Spans
    BY <2>2
  <2> DEFINE z == seg.len
             o == s.off
  <2>4. left = (z - o) % U32
    BY Zenon DEF Left
  <2> HIDE DEF seg, left
  <2>5. z \in Nat /\ o \in Nat
    BY <1>2, <2>3 DEF Spans
  <2> HIDE DEF z, o
  <2>6. (z - o) % U32 \in 0..U32 - 1
    BY <2>5, Wraps
  <2> QED BY <2>3, <2>4, <2>6, Zenon
<1>6. epMax \in Nat /\ epMax = r.ep + r.aperture - 1 /\ ep \in r.ep..epMax /\ ep \in Nat
  BY <1>2
<1>7. ep = IF s.ep > r.ep + r.aperture - 1 THEN r.ep ELSE s.ep
  BY Zenon
<1> HIDE DEF epMax, ep
<1>8. left \in 1..U32 - 1 =>
        len \in 1..DescBlenMax /\ len <= left /\ ep + len <= r.ep + r.aperture
  <2> SUFFICES ASSUME left \in 1..U32 - 1
               PROVE  len \in 1..DescBlenMax /\ len <= left /\ ep + len <= r.ep + r.aperture
    BY Zenon
  <2> HIDE DEF left
  <2> DEFINE x == r.ep
             y == r.aperture
  <2>0. x \in Nat /\ y \in Nat \ {0} /\ ep \in x..epMax /\ epMax = x + y - 1
    BY <1>2, <1>6
  <2>1. left \in Nat \ {0}
    BY Wraps
  <2>2. want = Least(left, Least(y, DescBlenMax))
    BY Zenon
  <2> HIDE DEF x, y, want
  <2>3. want \in 1..DescBlenMax /\ want <= left
    BY <1>0, <2>0, <2>1, <2>2 DEF Least
  <2>4. len \in 1..DescBlenMax /\ len <= left /\ ep + len <= x + y
    BY <1>0, <2>0, <2>1, <2>3
  <2> QED BY <2>4, Zenon DEF x, y
<1> HIDE DEF len
<1> HIDE DEF t, made, Ends
<1>12. CASE Ends
  <2>1. t = s
    BY <1>1, <1>12, Zenon
  <2> QED BY <2>1, Zenon DEF t
<1>13. CASE ~Ends /\ left = 0
  <2>1. t = NextSg(s)
    BY <1>1, <1>13, Zenon
  <2>2. PassIs(NextSg(s), s.list, s.i + 1, s.sg + 1, 0, s.ep)
    BY <1>2, NextSgIs
  <2>3. Skips(segs, s, t)
    BY <1>4, <1>13, <2>1, <2>2, Zenon DEF Skips
  <2> QED BY <2>3, Zenon DEF t
<1>14. CASE ~Ends /\ left # 0
  <2>1. t = IF len = left THEN NextSg(made) ELSE made
    BY <1>1, <1>14, Zenon
  <2>2. s.i < Len(segs) /\ Len(s.list) < room
    BY <1>4, <1>14, Zenon
  <2>3. seg \in Spans /\ left \in 1..U32 - 1
    <3>1. seg \in Spans /\ left \in 0..U32 - 1 /\ left # 0
      BY <1>5, <1>14, <2>2, Zenon
    <3> HIDE DEF left, seg
    <3> QED BY <3>1, Wraps
  <2>4. len \in 1..DescBlenMax /\ len <= left /\ ep + len <= r.ep + r.aperture
    BY <1>8, <2>3, Zenon
  <2>5. d \in CardDescs
    <3> DEFINE a == seg.addr
               o == s.off
               z == a + o
    <3> HIDE DEF seg
    <3>1. a \in Nat /\ o \in Nat
      BY <1>2, <2>3 DEF Spans
    <3> HIDE DEF a, o
    <3>2. z \in Nat
      BY <3>1
    <3> HIDE DEF z
    <3>3. [addr |-> z, ep |-> ep, len |-> len] \in CardDescs
      BY <1>6, <2>4, <3>2 DEF CardDescs
    <3> QED BY <3>3, Zenon DEF z, a, o, seg, NewDesc
  <2> HIDE DEF d
  <2>6. m \in Seq(CardDescs)
    BY <1>2, <2>5
  <2> DEFINE o == s.off + len
             e == ep + len
  <2>7. o \in Nat /\ e \in Nat
    <3> DEFINE z == s.off
    <3>1. z \in Nat /\ len \in Nat
      BY <1>0, <1>2, <2>4
    <3> HIDE DEF z
    <3>2. z + len \in Nat /\ ep + len \in Nat
      BY <1>6, <3>1
    <3> QED BY <3>2 DEF z
  <2>8. made = [s EXCEPT !.off = o, !.ep = e, !.list = m]
    BY Zenon DEF made
  <2> HIDE DEF m, o, e
  <2>9. PassIs(made, m, s.i, s.sg, o, e)
    <3>1. PassIs([s EXCEPT !.off = o, !.ep = e, !.list = m], m, s.i, s.sg, o, e)
      BY <1>2, <2>6, <2>7, PassMakes
    <3> QED BY <2>8, <3>1, Zenon
  <2>10. PassIs(NextSg(made), m, s.i + 1, s.sg + 1, 0, e)
    <3>1. /\ made \in PassStates
          /\ made.list = m /\ made.i = s.i /\ made.sg = s.sg /\ made.ep = e
      BY <2>9, Zenon DEF PassIs
    <3>2. PassIs(NextSg(made), made.list, made.i + 1, made.sg + 1, 0, made.ep)
      BY <3>1, NextSgIs
    <3> QED BY <3>1, <3>2, Zenon
  <2>11. m = Append(s.list, NewDesc(segs, s, ep, len)) /\ d = NewDesc(segs, s, ep, len)
    BY Zenon DEF m, d
  <2>12. IF len = Left(segs, s) THEN PassIs(t, m, s.i + 1, s.sg + 1, 0, ep + len)
                                ELSE PassIs(t, m, s.i, s.sg, s.off + len, ep + len)
    BY <2>1, <2>9, <2>10, Zenon DEF o, e
  <2>13. ep \in r.ep..r.ep + r.aperture - 1
    BY <1>6, Zenon
  <2>14. MakesOne(segs, r, s, room, t, ep, len)
    BY <1>7, <2>2, <2>4, <2>5, <2>11, <2>12, <2>13, Zenon DEF MakesOne
  <2>15. Makes(segs, r, s, room, t)
    BY <2>14, Zenon DEF Makes
  <2> QED BY <2>15, Zenon DEF t
<1> QED BY <1>12, <1>13, <1>14, Zenon

(* What holds at the start of a pass and is kept by its steps holds at its *)
(* end.                                                                    *)
LEMMA PassInduction ==
  ASSUME NEW segs \in Seq(Spans), NEW r, NEW idx \in 0..RingSize - 1, NEW T,
         ApertureStart(r) \in T,
         \A s \in T : ApertureStep(segs, r, RingSize - idx, s) \in T
  PROVE  AperturePass(segs, r, idx) \in T
<1> DEFINE n == RingSize + Len(segs)
           room == RingSize - idx
           loop == ApertureLoop(segs, r, room)
           K == {k \in 0..n : loop[k] \in T}
<1>1. n \in Nat
  BY ListBounds
<1>2. loop = [k \in 0..n |-> IF k = 0 THEN ApertureStart(r)
                             ELSE ApertureStep(segs, r, room, loop[k - 1])]
  BY <1>1, PassLoop
<1>3. \A s \in T : ApertureStep(segs, r, room, s) \in T
  BY Zenon
<1>4. AperturePass(segs, r, idx) = loop[n]
  BY Zenon DEF AperturePass
<1> HIDE DEF n, loop, room
<1>5. 0 \in K
  <2>1. 0 \in 0..n
    BY <1>1
  <2>2. loop[0] = ApertureStart(r)
    BY <1>2, <2>1, Zenon
  <2> QED BY <2>1, <2>2, Zenon
<1>6. ASSUME NEW k \in 0..n - 1, k \in K PROVE k + 1 \in K
  <2> DEFINE h == (k + 1) - 1
  <2>1. k + 1 \in 0..n /\ k + 1 # 0 /\ h = k
    BY <1>1
  <2>2. loop[k + 1] = ApertureStep(segs, r, room, loop[h])
    BY <1>2, <2>1, Zenon
  <2> HIDE DEF h
  <2>3. loop[k + 1] = ApertureStep(segs, r, room, loop[k]) /\ loop[k] \in T
    BY <1>6, <2>1, <2>2, Zenon
  <2>4. loop[k + 1] \in T
    BY <1>3, <2>3, Zenon
  <2> QED BY <2>1, <2>4, Zenon
<1>7. \A k \in 0..n : k \in K
  <2> HIDE DEF K
  <2> QED BY <1>1, <1>5, <1>6, Induction
<1>8. n \in 0..n
  BY <1>1
<1> QED BY <1>4, <1>7, <1>8, Zenon

(* The descriptors of a pass are sound, and no more than there is room.    *)
LEMMA PassStarts ==
  ASSUME NEW r \in PassReqs, NEW room \in Nat
  PROVE  PassOK(ApertureStart(r), r, room)
<1> DEFINE x == r.ep
           a == r.aperture
           m == r.start
           e == x + m
           i == r.sgIdx
           f == r.sgOff
<1>1. x \in Nat /\ a \in Nat \ {0} /\ m \in Nat /\ m < a /\ i \in Nat /\ f \in Nat
  BY DEF PassReqs
<1>2. ApertureStart(r) = [list |-> <<>>, i |-> i, sg |-> 1, off |-> f, ep |-> e]
  BY Zenon DEF ApertureStart
<1> HIDE DEF x, a, m, i, f
<1>4. e \in x..x + a /\ e \in Nat
  BY <1>1
<1> HIDE DEF e
<1> DEFINE l == <<>>
<1>5. l \in Seq(CardDescs) /\ Len(l) = 0
  OBVIOUS
<1> HIDE DEF l
<1> DEFINE s == [list |-> l, i |-> i, sg |-> 1, off |-> f, ep |-> e]
<1>6. /\ s \in PassStates /\ s.list = l /\ s.sg = 1 /\ s.i = i /\ s.ep = e
  BY <1>1, <1>4, <1>5 DEF PassStates
<1> HIDE DEF s
<1>7. 1 \in 1..i + 1 /\ 0 <= room
  BY <1>1
<1>8. PassOK(s, r, room)
  BY <1>4, <1>5, <1>6, <1>7 DEF PassOK, x, a
<1> QED BY <1>2, <1>8, Zenon DEF s, l

LEMMA StepTyped ==
  ASSUME NEW segs \in Seq(Spans), NEW r \in PassReqs, NEW room \in Nat, NEW s,
         PassOK(s, r, room)
  PROVE  PassOK(ApertureStep(segs, r, room, s), r, room)
<1> DEFINE t == ApertureStep(segs, r, room, s)
<1>1. t = s \/ Skips(segs, s, t) \/ Makes(segs, r, s, room, t)
  BY StepIs, Zenon
<1> SUFFICES PassOK(t, r, room)
  BY Zenon
<1> HIDE DEF t
<1>2. /\ s \in PassStates /\ s.sg \in 1..s.i + 1 /\ Len(s.list) <= room
      /\ s.ep \in r.ep..r.ep + r.aperture
      /\ s.i \in Nat /\ s.sg \in Nat /\ s.list \in Seq(CardDescs)
      /\ r.ep \in Nat /\ r.aperture \in Nat \ {0}
  BY DEF PassOK, PassStates, PassReqs
<1> DEFINE i1 == s.i + 1
           sg1 == s.sg + 1
<1>3. sg1 \in 1..i1 + 1 /\ sg1 \in Nat /\ i1 \in Nat /\ s.ep \in Nat
  BY <1>2
<1>4. CASE Skips(segs, s, t)
  <2>1. PassIs(t, s.list, i1, sg1, 0, s.ep)
    BY <1>4, Zenon DEF Skips
  <2> HIDE DEF i1, sg1
  <2>2. t \in PassStates /\ t.list = s.list /\ t.i = i1 /\ t.sg = sg1 /\ t.ep = s.ep
    BY <2>1, Zenon DEF PassIs
  <2> QED BY <1>2, <1>3, <2>2 DEF PassOK
<1>5. CASE Makes(segs, r, s, room, t)
  <2>1. PICK ep, len : MakesOne(segs, r, s, room, t, ep, len)
    BY <1>5, Zenon DEF Makes
  <2> DEFINE d == NewDesc(segs, s, ep, len)
             m == Append(s.list, d)
             left == Left(segs, s)
  <2>2. /\ Len(s.list) < room /\ ep \in r.ep..r.ep + r.aperture - 1
        /\ len \in 1..DescBlenMax /\ ep + len <= r.ep + r.aperture /\ d \in CardDescs
        /\ IF len = left THEN PassIs(t, m, s.i + 1, s.sg + 1, 0, ep + len)
                         ELSE PassIs(t, m, s.i, s.sg, s.off + len, ep + len)
    BY <2>1, Zenon DEF MakesOne
  <2> HIDE DEF d, left
  <2>3. Len(m) = Len(s.list) + 1 /\ Len(s.list) \in Nat
    BY <1>2, <2>2
  <2>4. Len(m) <= room
    BY <2>2, <2>3
  <2>5. ep + len \in r.ep..r.ep + r.aperture /\ ep + len \in Nat
    <3> DEFINE x == r.ep
               a == r.aperture
    <3>1. x \in Nat /\ a \in Nat /\ ep \in x..x + a - 1 /\ ep + len <= x + a
      BY <1>2, <2>2
    <3>2. len \in Nat
      BY <2>2, ListBounds
    <3> HIDE DEF x, a
    <3>3. ep + len \in x..x + a /\ ep + len \in Nat
      BY <3>1, <3>2
    <3> QED BY <3>3 DEF x, a
  <2> DEFINE e == ep + len
             o == s.off + len
  <2> HIDE DEF m
  <2>6. CASE len = left
    <3>1. PassIs(t, m, i1, sg1, 0, e) /\ e \in r.ep..r.ep + r.aperture /\ e \in Nat
      BY <2>2, <2>5, <2>6, Zenon
    <3> HIDE DEF i1, sg1, e
    <3>2. t \in PassStates /\ t.list = m /\ t.i = i1 /\ t.sg = sg1 /\ t.ep = e
      BY <3>1, Zenon DEF PassIs
    <3> QED BY <1>3, <2>4, <3>1, <3>2 DEF PassOK
  <2>7. CASE len # left
    <3>1. PassIs(t, m, s.i, s.sg, o, e) /\ e \in r.ep..r.ep + r.aperture /\ e \in Nat
      BY <2>2, <2>5, <2>7, Zenon
    <3> HIDE DEF o, e
    <3>2. t \in PassStates /\ t.list = m /\ t.i = s.i /\ t.sg = s.sg /\ t.ep = e
      BY <3>1, Zenon DEF PassIs
    <3> QED BY <1>2, <2>4, <3>1, <3>2 DEF PassOK
  <2> QED BY <2>6, <2>7, Zenon
<1> QED BY <1>1, <1>4, <1>5, Zenon DEF t

LEMMA PassTyped ==
  ASSUME NEW segs \in Seq(Spans), NEW r \in PassReqs, NEW idx \in 0..RingSize - 1
  PROVE  PassOK(AperturePass(segs, r, idx), r, RingSize - idx)
<1> DEFINE room == RingSize - idx
           T == {s \in PassStates : PassOK(s, r, room)}
<1>1. room \in Nat
  BY ListBounds
<1> HIDE DEF room
<1>2. \A s : PassOK(s, r, room) => s \in PassStates
  BY Zenon DEF PassOK
<1>3. ApertureStart(r) \in T
  <2>1. PassOK(ApertureStart(r), r, room)
    BY <1>1, PassStarts
  <2> QED BY <1>2, <2>1, Zenon
<1>4. ASSUME NEW s \in T PROVE ApertureStep(segs, r, room, s) \in T
  <2>1. PassOK(s, r, room)
    BY Zenon
  <2>2. PassOK(ApertureStep(segs, r, room, s), r, room)
    BY <1>1, <2>1, StepTyped
  <2> QED BY <1>2, <2>2, Zenon
<1> HIDE DEF T
<1>5. \A s \in T : ApertureStep(segs, r, RingSize - idx, s) \in T
  BY <1>4 DEF room
<1>6. AperturePass(segs, r, idx) \in T
  BY <1>3, <1>5, PassInduction
<1> QED BY <1>6, Zenon DEF T, room

\* A descriptor that moves the bytes from byte d on
CarriesOne(e, d, fix, byte, card) ==
  \A b \in 0..e.len - 1 : e.addr + b = byte[d + b] /\ OnCard(e, b, fix) = card[d + b]

LEMMA CarriesAppend ==
  ASSUME NEW list \in Seq(CardDescs), NEW e \in CardDescs, NEW d \in Nat, NEW fix, NEW byte,
         NEW card, Carries(list, d, fix, byte, card),
         CarriesOne(e, d + Total(list), fix, byte, card)
  PROVE  Carries(Append(list, e), d, fix, byte, card)
<1> DEFINE n == Len(list)
           new == Append(list, e)
           sum == Upto(list)
           sum2 == Upto(new)
<1>1. n \in Nat /\ Len(new) = n + 1 /\ new[n + 1] = e /\ \A i \in 1..n : new[i] = list[i]
  OBVIOUS
<1>2. e.len \in Nat
  BY ListBounds DEF CardDescs
<1>3. Measured(list)
  BY DescsMeasured
<1>4. \A i \in 0..n : sum2[i] = sum[i]
  BY <1>2, <1>3, UptoAppend
<1>5. sum[n] = Total(list) /\ Total(list) \in Nat
  BY <1>3, UptoFacts
<1>6. \A i \in 1..n : \A b \in 0..list[i].len - 1 :
        /\ list[i].addr + b = byte[d + sum[i - 1] + b]
        /\ OnCard(list[i], b, fix) = card[d + sum[i - 1] + b]
  BY Zenon DEF Carries
<1>7. \A b \in 0..e.len - 1 : /\ e.addr + b = byte[(d + sum[n]) + b]
                              /\ OnCard(e, b, fix) = card[(d + sum[n]) + b]
  BY <1>5, Zenon DEF CarriesOne
<1> HIDE DEF n, new, sum, sum2
<1>8. ASSUME NEW i \in 1..n + 1
      PROVE  \A b \in 0..new[i].len - 1 :
               /\ new[i].addr + b = byte[d + sum2[i - 1] + b]
               /\ OnCard(new[i], b, fix) = card[d + sum2[i - 1] + b]
  <2>1. CASE i \in 1..n
    <3>1. i - 1 \in 0..n
      BY <1>1, <2>1
    <3>2. sum2[i - 1] = sum[i - 1] /\ new[i] = list[i]
      BY <1>1, <1>4, <2>1, <3>1, Zenon
    <3> QED BY <1>6, <2>1, <3>2, Zenon
  <2>2. CASE i = n + 1
    <3> DEFINE h == i - 1
    <3>1. h = n /\ n \in 0..n
      BY <1>1, <2>2
    <3>2. sum2[n] = sum[n] /\ new[i] = e
      BY <1>1, <1>4, <2>2, <3>1, Zenon
    <3> HIDE DEF h
    <3>3. sum2[h] = sum[n]
      BY <3>1, <3>2, Zenon
    <3>4. \A b \in 0..new[i].len - 1 :
            /\ new[i].addr + b = byte[d + sum2[h] + b]
            /\ OnCard(new[i], b, fix) = card[d + sum2[h] + b]
      BY <1>7, <3>2, <3>3, Zenon
    <3> QED BY <3>4, Zenon DEF h
  <2>3. i \in 1..n \/ i = n + 1
    BY <1>1
  <2> QED BY <2>1, <2>2, <2>3, Zenon
<1> QED BY <1>1, <1>8, Zenon DEF new, sum2, Carries

(* A pass from the head of the scatter list: where it is in the list, in   *)
(* the buffer and in the window of the card.                               *)
PassAt(segs, r, s, q) ==
  /\ s.sg = s.i + 1 /\ s.i <= Len(segs)
  /\ q = Upto(segs)[s.i] + s.off
  /\ IF s.i = Len(segs) THEN s.off = 0 ELSE s.off <= segs[s.i + 1].len
  /\ \/ s.ep = r.ep + (q % r.aperture)
     \/ q % r.aperture = 0 /\ s.ep = r.ep + r.aperture

PassExact(segs, r, s, byte, card) ==
  /\ PassAt(segs, r, s, r.offset + Total(s.list))
  /\ Carries(s.list, r.offset, FALSE, byte, card)

\* Where the bytes of the window are
Window(r, card) == \A k \in Nat : card[k] = r.ep + (k % r.aperture)

(* The byte a descriptor is made for, and the bytes behind it to the end   *)
(* of the window                                                           *)
InWindow(x, a, q, ep) == ep = x + (q % a) \/ (q % a = 0 /\ ep = x + a)
RunsOn(x, a, q, ep, len) ==
  /\ ep = x + (q % a)
  /\ \A b \in 0..len - 1 : ep + b = x + ((q + b) % a)
  /\ InWindow(x, a, q + len, ep + len)

LEMMA WindowStep ==
  ASSUME NEW x \in Nat, NEW a \in Nat \ {0}, NEW q \in Nat, NEW old \in x..x + a, NEW ep,
         NEW len \in Nat \ {0}, InWindow(x, a, q, old),
         ep = IF old > x + a - 1 THEN x ELSE old, ep + len <= x + a
  PROVE  RunsOn(x, a, q, ep, len)
<1> DEFINE m == q % a
<1>1. m \in 0..a - 1
  BY Division
<1>2. old = x + m \/ (m = 0 /\ old = x + a)
  BY Zenon DEF InWindow
<1> HIDE DEF m
<1>3. ep = x + m /\ m + len <= a
  BY <1>1, <1>2
<1>4. ASSUME NEW b \in 0..len - 1 PROVE ep + b = x + ((q + b) % a)
  <2>1. b \in Nat /\ m + b < a
    BY <1>1, <1>3
  <2>2. (q + b) % a = m + b
    BY <2>1, InBlock DEF m
  <2> QED BY <1>1, <1>3, <2>1, <2>2
<1>5. CASE m + len < a
  <2>1. (q + len) % a = m + len
    BY <1>5, InBlock DEF m
  <2>2. ep + len = x + ((q + len) % a)
    BY <1>1, <1>3, <2>1
  <2> QED BY <1>3, <1>4, <2>2, Zenon DEF m, InWindow, RunsOn
<1>6. CASE m + len = a
  <2>1. (q + len) % a = 0
    BY <1>6, NextBlock DEF m
  <2>2. ep + len = x + a
    BY <1>1, <1>3, <1>6
  <2> QED BY <1>3, <1>4, <2>1, <2>2, Zenon DEF m, InWindow, RunsOn
<1>7. RunsOn(x, a, q, ep, len)
  BY <1>1, <1>3, <1>5, <1>6
<1> QED BY <1>7

(* The entry of the scatter list a step is at                              *)
AtEntry(segs, s, i, q, seg) ==
  /\ i = s.i /\ i \in Nat /\ i < Len(segs) /\ s.sg = i + 1
  /\ seg = segs[i + 1] /\ seg \in Spans
  /\ segs[s.sg] = seg
  /\ Upto(segs)[i] \in Nat /\ Upto(segs)[i + 1] = Upto(segs)[i] + seg.len
  /\ q = Upto(segs)[i] + s.off
  /\ s.off \in 0..seg.len
  /\ Left(segs, s) = seg.len - s.off

LEMMA EntryAt ==
  ASSUME NEW segs \in Seq(Spans), Total(segs) < U32, NEW r, NEW s \in PassStates, NEW q,
         PassAt(segs, r, s, q), s.i < Len(segs)
  PROVE  AtEntry(segs, s, s.i, q, segs[s.i + 1])
<1> DEFINE i == s.i
           n == Len(segs)
           pos == Upto(segs)
           seg == segs[i + 1]
           o == s.off
<1>1. i \in Nat /\ o \in Nat
  BY DEF PassStates
<1>2. n \in Nat /\ i < n /\ \A j \in 1..n : segs[j] \in Spans
  OBVIOUS
<1>3. s.sg = i + 1 /\ q = pos[i] + o /\ (IF i = n THEN o = 0 ELSE o <= seg.len)
  BY Zenon DEF PassAt
<1>4. /\ Counts(segs, pos) /\ Total(segs) \in Nat
      /\ \A j \in 0..n : pos[j] \in Nat /\ pos[j] <= Total(segs)
  BY DescsMeasured, UptoFacts
<1>5. \A j \in 1..n : pos[j] = pos[j - 1] + segs[j].len
  BY <1>4, Zenon DEF Counts
<1> HIDE DEF i, n, pos, o
<1>6. i + 1 \in 1..n /\ i \in 0..n /\ i + 1 \in 0..n /\ i # n
  BY <1>1, <1>2
<1>7. seg \in Spans
  BY <1>2, <1>6, Zenon
<1>8. pos[i + 1] = pos[i] + seg.len
  <2> DEFINE h == (i + 1) - 1
  <2>1. pos[i + 1] = pos[h] + seg.len
    BY <1>5, <1>6, Zenon
  <2>2. h = i
    BY <1>1
  <2> HIDE DEF h
  <2> QED BY <2>1, <2>2, Zenon
<1> DEFINE z == seg.len
           c == pos[i]
<1>9. z \in Nat /\ c \in Nat /\ pos[i + 1] <= Total(segs) /\ o <= z
  <2>1. o <= z
    BY <1>3, <1>6, Zenon
  <2>2. c \in Nat /\ pos[i + 1] <= Total(segs)
    BY <1>4, <1>6, Zenon
  <2> HIDE DEF seg
  <2>3. seg.len \in Nat
    BY <1>7 DEF Spans
  <2> QED BY <2>1, <2>2, <2>3, Zenon
<1> HIDE DEF seg
<1>10. Left(segs, s) = (z - o) % U32
  BY <1>3, Zenon DEF Left, z, o, seg
<1>11. c + z < U32 /\ pos[i + 1] = c + z
  <2> DEFINE u == U32
             w == Total(segs)
             y == pos[i + 1]
  <2>1. u \in Nat /\ w \in Nat /\ w < u /\ y <= w /\ y = c + z
    BY <1>4, <1>8, <1>9, Wraps
  <2> HIDE DEF u, w, y, c, z
  <2>2. c + z < u
    BY <1>9, <2>1
  <2> QED BY <2>1, <2>2, Zenon DEF u, y
<1> HIDE DEF z, c
<1>12. (z - o) % U32 = z - o
  <2> DEFINE v == z - o
             u == U32
  <2>1. u \in Nat \ {0} /\ v \in Nat /\ v \in 0..u - 1 /\ v = u * 0 + v
    BY <1>1, <1>9, <1>11, Wraps
  <2> HIDE DEF u, v
  <2>2. v % u = v
    BY <2>1, DivisionUnique
  <2> QED BY <2>2 DEF u, v
<1>13. o \in 0..z
  BY <1>1, <1>9
<1>14. AtEntry(segs, s, i, q, seg)
  <2>1. segs[s.sg] = seg /\ Left(segs, s) = seg.len - o /\ o \in 0..seg.len
    BY <1>3, <1>10, <1>12, <1>13, Zenon DEF seg, z
  <2>2. i = s.i /\ i < Len(segs) /\ seg = segs[i + 1]
    BY <1>2, Zenon DEF i, n, seg
  <2> QED BY <1>1, <1>3, <1>7, <1>8, <1>9, <2>1, <2>2, Zenon DEF AtEntry, pos, o, c
<1> QED BY <1>14, Zenon DEF i, seg

(* On to the next entry                                                    *)
LEMMA NextEntry ==
  ASSUME NEW segs \in Seq(Spans), NEW s \in PassStates, NEW q, NEW i, NEW seg, NEW r,
         AtEntry(segs, s, i, q, seg),
         NEW t, NEW n \in Nat, t.i = i + 1, t.sg = s.sg + 1, t.off = 0, n = Left(segs, s),
         \/ t.ep = r.ep + ((q + n) % r.aperture)
         \/ (q + n) % r.aperture = 0 /\ t.ep = r.ep + r.aperture
  PROVE  PassAt(segs, r, t, q + n)
<1> DEFINE o == s.off
           z == seg.len
           c == Upto(segs)[i]
           L == Len(segs)
           j == i + 1
<1>1. /\ i \in Nat /\ i < L /\ s.sg = i + 1 /\ c \in Nat /\ Upto(segs)[j] = c + z
      /\ q = c + o /\ o \in 0..z /\ n = z - o
  BY Zenon DEF AtEntry
<1>2. seg \in Spans /\ \A k \in 1..L : segs[k] \in Spans
  BY DEF AtEntry
<1>3. z \in Nat /\ L \in Nat
  BY <1>2 DEF Spans
<1> HIDE DEF o, z, c, L
<1>4. q + n = (c + z) + 0 /\ j <= L /\ s.sg + 1 = j + 1 /\ j \in Nat
  BY <1>1, <1>3
<1> HIDE DEF j
<1>5. q + n = Upto(segs)[j] + 0
  BY <1>1, <1>4, Zenon
<1>6. j # L => 0 <= segs[j + 1].len
  <2> SUFFICES ASSUME j # L PROVE 0 <= segs[j + 1].len
    BY Zenon
  <2>1. j + 1 \in 1..L
    BY <1>3, <1>4
  <2>2. segs[j + 1] \in Spans
    BY <1>2, <2>1, Zenon
  <2> DEFINE g == segs[j + 1]
  <2> HIDE DEF g
  <2>3. g.len \in Nat
    BY <2>2 DEF g, Spans
  <2>4. 0 <= g.len
    BY <2>3
  <2> QED BY <2>4, Zenon DEF g
<1>7. t.i = j /\ t.sg = j + 1 /\ t.off = 0
  BY <1>4, Zenon DEF j
<1> QED BY <1>4, <1>5, <1>6, <1>7, Zenon DEF PassAt, L

LEMMA StepExact ==
  ASSUME NEW segs \in Seq(Spans), NEW byte, Lays(segs, Upto(segs), byte), Total(segs) < U32,
         NEW r \in PassReqs, NEW card, Window(r, card), NEW room \in Nat, NEW s,
         PassOK(s, r, room), PassExact(segs, r, s, byte, card)
  PROVE  PassExact(segs, r, ApertureStep(segs, r, room, s), byte, card)
<1> DEFINE t == ApertureStep(segs, r, room, s)
           q == r.offset + Total(s.list)
           i == s.i
           seg == segs[i + 1]
<1>1. t = s \/ Skips(segs, s, t) \/ Makes(segs, r, s, room, t)
  BY StepIs, Zenon
<1> SUFFICES PassExact(segs, r, t, byte, card)
  BY Zenon
<1> HIDE DEF t
<1>2. /\ s \in PassStates /\ s.list \in Seq(CardDescs) /\ s.ep \in r.ep..r.ep + r.aperture
      /\ s.off \in Nat /\ r.ep \in Nat /\ r.aperture \in Nat \ {0} /\ r.offset \in Nat
  BY DEF PassOK, PassStates, PassReqs
<1>3. Total(s.list) \in Nat /\ q \in Nat
  <2>1. Total(s.list) \in Nat
    BY <1>2, DescsMeasured, UptoFacts
  <2> QED BY <1>2, <2>1
<1>4. /\ PassAt(segs, r, s, q) /\ Carries(s.list, r.offset, FALSE, byte, card)
      /\ \/ s.ep = r.ep + (q % r.aperture)
         \/ q % r.aperture = 0 /\ s.ep = r.ep + r.aperture
  BY Zenon DEF PassExact, PassAt
<1>5. s.i < Len(segs) => AtEntry(segs, s, i, q, seg)
  <2> HIDE DEF q
  <2> QED BY <1>2, <1>4, EntryAt, Zenon
<1>6. CASE Skips(segs, s, t)
  <2>1. /\ s.i < Len(segs) /\ Left(segs, s) = 0 /\ t.list = s.list /\ t.i = s.i + 1
        /\ t.sg = s.sg + 1 /\ t.off = 0 /\ t.ep = s.ep
    BY <1>6, Zenon DEF Skips, PassIs
  <2>2. AtEntry(segs, s, i, q, seg)
    BY <1>5, <2>1, Zenon
  <2> HIDE DEF q, seg
  <2>3. q + 0 = q
    BY <1>3
  <2>4. \/ t.ep = r.ep + ((q + 0) % r.aperture)
        \/ (q + 0) % r.aperture = 0 /\ t.ep = r.ep + r.aperture
    BY <1>4, <2>1, <2>3, Zenon
  <2>5. PassAt(segs, r, t, q + 0)
    <3>1. t.i = i + 1 /\ 0 = Left(segs, s) /\ 0 \in Nat
      BY <2>1
    <3> HIDE DEF i
    <3> QED BY <1>2, <2>1, <2>2, <2>4, <3>1, NextEntry, Zenon
  <2>6. PassAt(segs, r, t, q)
    BY <2>3, <2>5, Zenon
  <2> QED BY <1>4, <2>1, <2>6, Zenon DEF PassExact, q
<1>7. CASE Makes(segs, r, s, room, t)
  <2>1. PICK ep, len : MakesOne(segs, r, s, room, t, ep, len)
    BY <1>7, Zenon DEF Makes
  <2> DEFINE d == NewDesc(segs, s, ep, len)
             m == Append(s.list, d)
             left == Left(segs, s)
  <2>2. /\ s.i < Len(segs)
        /\ ep = IF s.ep > r.ep + r.aperture - 1 THEN r.ep ELSE s.ep
        /\ len \in 1..DescBlenMax /\ len <= left /\ ep + len <= r.ep + r.aperture
        /\ d \in CardDescs
        /\ IF len = left THEN PassIs(t, m, s.i + 1, s.sg + 1, 0, ep + len)
                         ELSE PassIs(t, m, s.i, s.sg, s.off + len, ep + len)
    BY <2>1, Zenon DEF MakesOne
  <2>3. AtEntry(segs, s, i, q, seg)
    BY <1>5, <2>2, Zenon
  <2>4. d.addr = segs[s.sg].addr + s.off /\ d.ep = ep /\ d.len = len
    BY DEF NewDesc
  <2> HIDE DEF q, seg, i, d, left
  <2>5. len \in Nat \ {0}
    BY <2>2, ListBounds
  <2>6. /\ ep = r.ep + (q % r.aperture)
        /\ \A b \in 0..len - 1 : ep + b = r.ep + ((q + b) % r.aperture)
        /\ \/ ep + len = r.ep + ((q + len) % r.aperture)
           \/ (q + len) % r.aperture = 0 /\ ep + len = r.ep + r.aperture
    <3> DEFINE x == r.ep
               a == r.aperture
               old == s.ep
    <3>1. /\ x \in Nat /\ a \in Nat \ {0} /\ old \in x..x + a
          /\ InWindow(x, a, q, old)
          /\ ep = IF old > x + a - 1 THEN x ELSE old
          /\ ep + len <= x + a
      BY <1>2, <1>4, <2>2, Zenon DEF InWindow
    <3> HIDE DEF x, a, old
    <3>2. RunsOn(x, a, q, ep, len)
      BY <1>3, <2>5, <3>1, WindowStep
    <3> QED BY <3>2, Zenon DEF x, a, RunsOn, InWindow
  <2>7. CarriesOne(d, q, FALSE, byte, card)
    <3> DEFINE o == s.off
               z == seg.len
               g == seg.addr
               c == Upto(segs)[i]
    <3>1. /\ d.addr = g + o /\ q = c + o /\ o \in 0..z /\ left = z - o /\ c \in Nat
          /\ i \in Nat /\ i < Len(segs) /\ segs[i + 1] = seg /\ seg \in Spans
      BY <2>3, <2>4, Zenon DEF AtEntry, left
    <3>2. z \in Nat /\ g \in Nat
      BY <3>1 DEF Spans
    <3>3. \A b \in 0..z - 1 : byte[c + b] = g + b
      <4>1. \A j \in 1..Len(segs) : \A b \in 0..segs[j].len - 1 :
              byte[Upto(segs)[j - 1] + b] = segs[j].addr + b
        BY Zenon DEF Lays
      <4> DEFINE h == (i + 1) - 1
      <4>2. i + 1 \in 1..Len(segs) /\ h = i
        BY <3>1
      <4>3. \A b \in 0..segs[i + 1].len - 1 : byte[Upto(segs)[h] + b] = segs[i + 1].addr + b
        BY <4>1, <4>2, Zenon
      <4> HIDE DEF h
      <4> QED BY <3>1, <4>2, <4>3, Zenon
    <3> HIDE DEF o, z, g, c
    <3>4. ASSUME NEW b \in 0..len - 1
          PROVE  d.addr + b = byte[q + b] /\ d.ep + b = card[q + b]
      <4>1. b \in Nat /\ q + b \in Nat
        BY <1>3, <2>5
      <4>2. o + b \in 0..z - 1 /\ c + (o + b) = q + b /\ g + (o + b) = (g + o) + b
        BY <2>2, <2>5, <3>1, <3>2, <4>1
      <4>3. byte[c + (o + b)] = g + (o + b)
        BY <3>3, <4>2
      <4>4. card[q + b] = r.ep + ((q + b) % r.aperture)
        BY <4>1, Zenon DEF Window
      <4>5. ep + b = r.ep + ((q + b) % r.aperture)
        BY <2>6, Zenon
      <4> QED BY <2>4, <3>1, <4>2, <4>3, <4>4, <4>5
    <3> QED BY <2>4, <3>4, Zenon DEF CarriesOne, OnCard
  <2>8. Carries(m, r.offset, FALSE, byte, card)
    <3> DEFINE l == s.list
               f == r.offset
    <3>1. l \in Seq(CardDescs) /\ f \in Nat /\ Carries(l, f, FALSE, byte, card)
          /\ CarriesOne(d, f + Total(l), FALSE, byte, card) /\ d \in CardDescs
      BY <1>2, <1>4, <2>2, <2>7, Zenon DEF q
    <3> HIDE DEF l, f
    <3>2. Carries(Append(l, d), f, FALSE, byte, card)
      BY <3>1, CarriesAppend
    <3> QED BY <3>2, Zenon DEF l, f
  <2>9. r.offset + Total(m) = q + len
    <3> DEFINE l == s.list
    <3>1. l \in Seq(CardDescs) /\ Measured(l) /\ d \in CardDescs /\ d.len \in Nat
      BY <1>2, <2>2, <2>4, <2>5, DescsMeasured
    <3> HIDE DEF l
    <3>2. Total(Append(l, d)) = Total(l) + d.len
      BY <3>1, UptoAppend
    <3>3. Total(m) = Total(s.list) + len
      BY <2>4, <3>2, Zenon DEF l
    <3> HIDE DEF m
    <3> QED BY <1>2, <1>3, <2>5, <3>3 DEF q
  <2> HIDE DEF m
  <2>10. CASE len = left
    <3>1. t.list = m /\ t.i = i + 1 /\ t.sg = s.sg + 1 /\ t.off = 0 /\ t.ep = ep + len
      BY <2>2, <2>10, Zenon DEF PassIs, i
    <3>2. PassAt(segs, r, t, q + len)
      <4>1. len = Left(segs, s) /\ len \in Nat
        BY <2>5, <2>10 DEF left
      <4>2. \/ t.ep = r.ep + ((q + len) % r.aperture)
            \/ (q + len) % r.aperture = 0 /\ t.ep = r.ep + r.aperture
        BY <2>6, <3>1, Zenon
      <4> QED BY <1>2, <2>3, <3>1, <4>1, <4>2, NextEntry, Zenon
    <3> QED BY <2>8, <2>9, <3>1, <3>2, Zenon DEF PassExact
  <2>11. CASE len # left
    <3>1. t.list = m /\ t.i = i /\ t.sg = s.sg /\ t.off = s.off + len /\ t.ep = ep + len
      BY <2>2, <2>11, Zenon DEF PassIs, i
    <3> DEFINE o == s.off
               z == seg.len
               c == Upto(segs)[i]
               n == Len(segs)
               p == o + len
    <3>2. /\ q = c + o /\ o \in 0..z /\ left = z - o /\ c \in Nat /\ s.sg = i + 1
          /\ i \in Nat /\ i < n /\ segs[i + 1] = seg /\ seg \in Spans
      BY <2>3, Zenon DEF AtEntry, left
    <3>3. z \in Nat /\ n \in Nat
      BY <3>2 DEF Spans
    <3> HIDE DEF o, z, c, n
    <3>4. q + len = c + p /\ p <= z /\ i <= n /\ i # n
      BY <2>2, <2>5, <3>2, <3>3
    <3> HIDE DEF p
    <3>5. \/ t.ep = r.ep + ((q + len) % r.aperture)
          \/ (q + len) % r.aperture = 0 /\ t.ep = r.ep + r.aperture
      BY <2>6, <3>1, Zenon
    <3>6. t.off = p /\ segs[t.i + 1].len = z
      BY <3>1, <3>2, Zenon DEF p, o, z
    <3>7. PassAt(segs, r, t, q + len)
      BY <3>1, <3>2, <3>4, <3>5, <3>6, Zenon DEF PassAt, c, n
    <3> QED BY <2>8, <2>9, <3>1, <3>7, Zenon DEF PassExact
  <2> QED BY <2>10, <2>11, Zenon
<1>8. CASE t = s
  BY <1>8, Zenon
<1> QED BY <1>1, <1>6, <1>7, <1>8, Zenon

(* A pass from the head of the list that has not left its first entry.     *)
LEMMA PassCarries ==
  ASSUME NEW segs \in Seq(Spans), NEW byte, Lays(segs, Upto(segs), byte), Total(segs) < U32,
         NEW r \in PassReqs, NEW card, Window(r, card), NEW idx \in 0..RingSize - 1,
         r.sgIdx = 0, r.sgOff = r.offset, r.start = r.offset % r.aperture,
         Len(segs) # 0, r.offset <= segs[1].len
  PROVE  PassExact(segs, r, AperturePass(segs, r, idx), byte, card)
<1> DEFINE room == RingSize - idx
           T == {s \in PassStates : PassOK(s, r, room) /\ PassExact(segs, r, s, byte, card)}
           start == ApertureStart(r)
<1>1. room \in Nat
  BY ListBounds
<1> HIDE DEF room
<1>2. \A s : PassOK(s, r, room) => s \in PassStates
  BY Zenon DEF PassOK
<1>3. start \in T
  <2>1. PassOK(start, r, room)
    BY <1>1, PassStarts
  <2>2. /\ start.list = <<>> /\ start.i = r.sgIdx /\ start.sg = 1 /\ start.off = r.sgOff
        /\ start.ep = r.ep + (r.offset % r.aperture)
    BY DEF ApertureStart
  <2> HIDE DEF start
  <2> DEFINE f == r.offset
             none == <<>>
  <2>3. f \in Nat
    BY DEF PassReqs
  <2>4. none \in Seq(CardDescs) /\ Len(none) = 0
    OBVIOUS
  <2> HIDE DEF none
  <2>5. Total(none) = 0
    <3>1. Measured(none) /\ Upto(none)[0] = Total(none) /\ Counts(none, Upto(none))
      BY <2>4, DescsMeasured, UptoFacts
    <3> QED BY <3>1, Zenon DEF Counts
  <2>6. Upto(segs)[0] = 0
    <3>1. Counts(segs, Upto(segs))
      BY DescsMeasured, UptoFacts
    <3> QED BY <3>1, Zenon DEF Counts
  <2>7. f + Total(none) = f /\ Upto(segs)[0] + f = f
    BY <2>3, <2>5, <2>6
  <2>8. PassAt(segs, r, start, f)
    <3>1. /\ start.i = 0 /\ start.sg = 0 + 1 /\ 0 <= Len(segs) /\ start.off = f
          /\ 0 # Len(segs) /\ f <= segs[0 + 1].len
      BY <2>2
    <3> HIDE DEF f
    <3>2. start.ep = r.ep + (f % r.aperture)
      BY <2>2, Zenon DEF f
    <3> QED BY <2>7, <3>1, <3>2, Zenon DEF PassAt
  <2>9. Carries(none, f, FALSE, byte, card)
    BY <2>4 DEF Carries
  <2>10. PassExact(segs, r, start, byte, card)
    BY <2>2, <2>7, <2>8, <2>9, Zenon DEF PassExact, none
  <2> QED BY <1>2, <2>1, <2>10, Zenon
<1>4. ASSUME NEW s \in T PROVE ApertureStep(segs, r, room, s) \in T
  <2>1. PassOK(s, r, room) /\ PassExact(segs, r, s, byte, card)
    BY Zenon
  <2>2. PassOK(ApertureStep(segs, r, room, s), r, room)
    BY <1>1, <2>1, StepTyped
  <2>3. PassExact(segs, r, ApertureStep(segs, r, room, s), byte, card)
    BY <1>1, <2>1, StepExact
  <2> QED BY <1>2, <2>2, <2>3, Zenon
<1> HIDE DEF T
<1>5. \A s \in T : ApertureStep(segs, r, RingSize - idx, s) \in T
  BY <1>4 DEF room
<1>6. AperturePass(segs, r, idx) \in T
  BY <1>3, <1>5, PassInduction
<1> QED BY <1>6, Zenon DEF T
=============================================================================
