----------------------------- MODULE XdmaLifeProofs -----------------------------
(***************************************************************************)
(* Machine-checked properties of the drivers' lives (XdmaLife), for any    *)
(* number of cards and processes, any layout of a card and any mixture of  *)
(* failures, resets and removals.                                          *)
(***************************************************************************)
EXTENDS XdmaLife, FiniteSetTheorems, SequenceTheorems,
        WellFoundedInduction, TLAPS

-----------------------------------------------------------------------------
(* The stages of a card                                                    *)

\* Probing up to the handlers, a card whose handlers are installed, its removal
Early  == {"list", "enable", "regions", "bars", "mask", "engines", "vectors", "irqs"}
InUse  == {"users", "nodes", "bound"}
Ends1  == {"undo_nodes", "undo_masks", "undo_irqs"}
Ends2  == {"undo_vectors", "undo_engines", "undo_bars", "undo_regions", "undo_device",
           "undo_list", "undo_free"}
Stages ==
  {"absent", "list", "enable", "regions", "bars", "mask", "engines", "vectors", "irqs", "users",
   "nodes", "bound", "undo_nodes", "undo_masks", "undo_irqs", "undo_vectors", "undo_engines",
   "undo_bars", "undo_regions", "undo_device", "undo_list", "undo_free"}

\* What each stage has
Unlisted  == {"absent", "list", "undo_free"}
Unpowered == {"absent", "list", "enable", "undo_list", "undo_free"}
Powered   == {"regions", "bars", "mask", "engines", "vectors", "irqs", "users", "nodes", "bound"}
Falling   == {"undo_nodes", "undo_masks", "undo_irqs", "undo_vectors", "undo_engines",
              "undo_bars", "undo_regions", "undo_device"}
HasRegion == {"bars", "mask", "engines", "vectors", "irqs", "users", "nodes", "bound",
              "undo_nodes", "undo_masks", "undo_irqs", "undo_vectors", "undo_engines",
              "undo_bars", "undo_regions"}
Mapped    == {"mask", "engines", "vectors", "irqs", "users", "nodes", "bound", "undo_nodes",
              "undo_masks", "undo_irqs", "undo_vectors", "undo_engines", "undo_bars"}
HasEng    == {"engines", "vectors", "irqs", "users", "nodes", "bound", "undo_nodes",
              "undo_masks", "undo_irqs", "undo_vectors", "undo_engines"}
HasVec    == {"irqs", "users", "nodes", "bound", "undo_nodes", "undo_masks", "undo_irqs",
              "undo_vectors"}
Live      == {"users", "nodes", "bound", "undo_nodes", "undo_masks"}

Ids       == {"h2c", "c2h", "user", "isr"} \X Nat
NodeNames == ({"ctrl", "user", "xvc", "bypass"} \X {0}) \cup ({"events"} \X (0..15))
               \cup ({"h2c", "c2h", "bypass_h2c", "bypass_c2h"} \X (0..3))
NodeRecs  == [major : BOOLEAN, nodes : SUBSET NodeNames, dead : SUBSET NodeNames,
              twice : BOOLEAN]
CardRecs  == [h2c : 0..4, c2h : 0..4, users : 0..16, config : Int, user : Int, bypass : Int]
Misuses   == {"bar", "irq twice", "vectors", "handler", "work", "poll", "file"}
Faults    == {"none", "threads", "enable", "regions", "bars", "mask", "vectors", "irqs",
              "nodes"}

DevRecs ==
  [pc : Stages, gen : 0..MaxProbes, xdev : {"none", "live", "freed"}, idx : Nat,
   card : CardRecs, dir : {"h2c", "c2h"}, enabled : -1..1, regions : BOOLEAN,
   inUse : BOOLEAN, bars : SUBSET Nat, eng : SUBSET Ids, vectors : BOOLEAN,
   irqs : SUBSET Ids, shared : 0..(MaxResets + 1), lines : SUBSET Ids, chOn : BOOLEAN,
   userOn : BOOLEAN, offline : BOOLEAN, frozen : BOOLEAN, work : SUBSET Ids,
   events : SUBSET Nat, N : NodeRecs, resets : 0..MaxResets, paired : BOOLEAN,
   partly : BOOLEAN, fault : Faults, misuse : SUBSET Misuses]

FileRecs ==
  [st : {"none", "open", "reading", "woken"}, d : Devs \cup {NoDev},
   node : NodeNames \cup {<<>>}, gen : Nat]

LifeTypes ==
  /\ load \in Loads /\ given \in StubSituations
  /\ dev \in [Devs -> DevRecs]
  /\ list \in Seq(Devs)
  /\ threads.cnt \in Nat /\ threads.work \in [1..threads.cnt -> SUBSET (Devs \X Ids)]
  /\ threads = [cnt |-> threads.cnt, work |-> threads.work, lost |-> threads.lost]
  /\ mod \in [st : {"absent", "live", "exiting"}, class : BOOLEAN, cache : BOOLEAN,
              failed : BOOLEAN]
  /\ files \in [Procs -> FileRecs]

-----------------------------------------------------------------------------
(* A card                                                                  *)

\* How far it is, and what went wrong
StageInv(D) ==
  /\ D.pc # "absent" => D.xdev = "live" /\ D.gen > 0
  /\ D.gen = 0 => D.fault = "none"
  /\ D.pc \in Early \cup InUse => D.fault = "none" /\ ~D.inUse
  /\ D.pc \in Ends1 => D.fault \in {"none", "nodes"}
  /\ D.pc \in Early \cup {"users"} => D.paired /\ D.resets = 0
  /\ D.pc \in InUse /\ D.offline => D.resets > 0

\* What it has acquired
HeldInv(D) ==
  /\ D.pc \notin HasRegion => ~D.regions
  /\ D.pc \in Mapped => D.card.config \in D.bars
  /\ D.pc \notin Mapped => D.bars = {}
  /\ D.pc \notin HasVec => ~D.vectors
  /\ D.pc \notin HasEng => D.eng = {}
  /\ \A e \in D.eng : e[1] \in {"h2c", "c2h"} /\ e[2] < D.card[e[1]]

\* How often it is enabled
PowerInv(D) ==
  /\ D.pc \in Early \cup {"users", "nodes"} => ~D.frozen
  /\ D.frozen => D.resets > 0
  /\ D.pc \in Powered => D.enabled = IF D.frozen THEN 0 ELSE 1
  /\ D.pc \in Falling => D.enabled \in 0..1 /\ (D.paired => D.enabled = 1)
  /\ D.pc \in {"list", "enable"} => D.enabled = 0
  /\ D.pc \in Unpowered /\ D.paired => D.enabled = IF D.inUse THEN 1 ELSE 0

\* Its handlers
IrqInv(D) ==
  /\ D.irqs \subseteq D.lines
  /\ D.frozen /\ D.pc = "bound" => D.shared <= MaxResets
  /\ D.pc \in Early => D.irqs = {} /\ D.lines = {} /\ D.shared = 0
  /\ D.pc \in InUse \cup Ends1 => D.lines = Handlers(D)
  /\ D.pc \in InUse \cup Ends1 => D.irqs \in {{}, D.lines} \/ D.partly
  /\ D.pc \in InUse /\ ~D.offline /\ (load.poll => D.resets = 0) => D.irqs = D.lines \/ D.partly
  /\ Orderly(D) /\ D.pc \in InUse => D.shared = 0 /\ (D.offline => D.irqs = {})
  /\ Orderly(D) /\ D.pc \in Ends1 =>
       D.shared = 0 /\ (D.irqs = D.lines \/ D.partly) /\ ~D.offline
  /\ Orderly(D) /\ D.pc \in Ends2 \cup {"absent"} /\ D.fault # "irqs" =>
       D.shared = 0 /\ D.irqs = {}

\* Whether its interrupts are masked
MaskInv(D) ==
  /\ Orderly(D) /\ D.pc \notin Live => ~D.chOn /\ ~D.userOn
  /\ D.pc = "users" => ~D.userOn
  /\ D.pc \in InUse /\ ~D.offline /\ ~load.poll => D.chOn
  /\ D.pc \in {"nodes", "bound"} /\ ~D.offline /\ (load.poll => D.resets = 0)
       /\ D.card.users > 0 => D.userOn

\* Its devices
AllNodes(card) == {NodeSeq(card)[i] : i \in 1..Len(NodeSeq(card))}

FirstNodes(card, k) == {NodeSeq(card)[i] : i \in 1..k}

NodeInv(D) ==
  /\ D.N.nodes \subseteq AllNodes(D.card)
  /\ D.pc \in Early \cup {"users"} => D.N = NoNodes
  /\ D.pc = "nodes" => /\ D.N.dead = {} /\ ~D.N.twice
                       /\ \E k \in 0..(Len(NodeSeq(D.card)) - 1) :
                            D.N.nodes = FirstNodes(D.card, k)
  /\ D.pc = "bound" \/ (D.pc = "undo_nodes" /\ D.fault = "none") =>
       D.N.dead = {} /\ ~D.N.twice /\ D.N.nodes = AllNodes(D.card)
  /\ D.pc \in Ends2 \cup {"absent", "undo_masks", "undo_irqs"} /\ D.fault # "nodes" =>
       D.N.nodes = {} /\ ~D.N.major /\ ~D.N.twice

\* Its BARs
BarInv(D) ==
  D.pc \in Mapped =>
    \A kind \in {"user", "config", "bypass"} : \A i \in 1..Len(load.bars) :
      load.bars[i] = kind => D.card[kind] = i - 1

UseInv(D) ==
  Orderly(D) /\ D.fault # "irqs" =>
    D.misuse \subseteq
      {"work"} \cup (IF load.unplug \/ D.fault = "nodes" THEN {"file"} ELSE {})
               \cup (IF D.partly THEN {"irq twice"} ELSE {})

CardInv(D) ==
  /\ StageInv(D) /\ HeldInv(D) /\ PowerInv(D) /\ IrqInv(D) /\ MaskInv(D) /\ NodeInv(D)
  /\ BarInv(D) /\ UseInv(D)

Cards == \A d \in Devs : CardInv(dev[d])

-----------------------------------------------------------------------------
(* The list of cards, the threads, the module and the files                *)

ListInv ==
  /\ \A d \in Devs : dev[d].pc \notin Unlisted <=> \E i \in 1..Len(list) : list[i] = d
  /\ \A i, j \in 1..Len(list) : i < j => dev[list[i]].idx < dev[list[j]].idx

ThreadInv ==
  /\ load.poll => (threads.cnt = 0 <=> list = <<>>)
  /\ ~load.poll => threads.cnt = 0
  /\ threads.lost => load.poll /\ Fails("threads")
  /\ \A i \in 1..threads.cnt : \A x \in threads.work[i] : x[2] \in dev[x[1]].eng
  /\ load.poll => \A d \in Devs : \A e \in dev[d].eng :
       \E i \in 1..threads.cnt : \A j \in 1..threads.cnt :
         <<d, e>> \in threads.work[j] <=> j = i

ModInv ==
  /\ mod.st = "absent" => \A d \in Devs : dev[d].pc = "absent"
  /\ mod.st = "absent" /\ ~mod.failed => ~mod.class /\ ~mod.cache
  /\ \A d \in Devs : dev[d].pc \in Ends1 \cup Ends2 /\ dev[d].fault = "none" =>
       load.unplug \/ mod.st = "exiting"

FileInv ==
  \A p \in Procs : LET f == files[p] IN f.st # "none" =>
    /\ mod.st = "live" /\ f.d \in Devs /\ f.node \in NodeNames
    /\ f.gen <= dev[f.d].gen
    /\ f.gen = dev[f.d].gen => dev[f.d].pc \notin Early \cup {"users"}
    /\ ~load.unplug => /\ f.gen = dev[f.d].gen
                       /\ dev[f.d].pc \in {"nodes", "bound"} \/ dev[f.d].fault = "nodes"

\* The guest's driver
StubRecs ==
  [pc : {"absent", "devices", "nodes", "hook", "live", "unhook", "unregister"},
   class : BOOLEAN, cache : BOOLEAN, xpdev : {"none", "live", "freed"},
   xdev : {"none", "live"}, pdev : {"none", "claimed"}, driver : BOOLEAN,
   N : NodeRecs, hooked : BOOLEAN, failed : BOOLEAN, misuse : SUBSET {"probe", "pdev"}]

StubInv ==
  /\ stub \in StubRecs
  /\ stub.misuse # {} \/ stub.pdev = "claimed" => given.ids
  /\ stub.pc \in {"unhook", "unregister"} \/ (stub.pc = "absent" /\ ~given.faults) =>
       ~stub.class /\ ~stub.cache
  /\ stub.pc = "absent" /\ ~given.faults => ~stub.driver
  /\ stub.pc \notin {"live", "unhook"} => ~stub.hooked
  /\ stub.pc = "devices" => stub.N = NoNodes
  /\ stub.pc = "absent" /\ ~stub.failed => stub.N = NoNodes
  /\ stub.pc = "nodes" => /\ stub.N.dead = {} /\ ~stub.N.twice
                          /\ \E k \in 0..(Len(NodeSeq(StubCard)) - 1) :
                               stub.N.nodes = FirstNodes(StubCard, k)
  /\ stub.pc \in {"hook", "live"} =>
       stub.N.dead = {} /\ ~stub.N.twice /\ stub.N.nodes = AllNodes(StubCard)
  /\ stub.pc \in {"unhook", "unregister"} \/ (stub.pc = "absent" /\ ~given.faults) =>
       stub.N.nodes = {} /\ ~stub.N.major /\ ~stub.N.twice

LifeInv == LifeTypes /\ Cards /\ ListInv /\ ThreadInv /\ ModInv /\ FileInv /\ StubInv

-----------------------------------------------------------------------------
(* The devices of a card                                                   *)

\* A list of different devices whose types are among those given
Plain(s, types) ==
  /\ s \in Seq(NodeNames)
  /\ \A i \in 1..Len(s) : s[i][1] \in types
  /\ \A i, j \in 1..Len(s) : i # j => s[i] # s[j]

LEMMA PlainCat ==
  ASSUME NEW A, NEW B, A \cap B = {}, NEW s, NEW t, Plain(s, A), Plain(t, B)
  PROVE  Plain(s \o t, A \cup B)
<1> DEFINE n == Len(s)
           m == Len(t)
           r == s \o t
<1>1. s \in Seq(NodeNames) /\ t \in Seq(NodeNames) /\ n \in Nat /\ m \in Nat
  BY DEF Plain
<1>2. r \in Seq(NodeNames) /\ Len(r) = n + m
  BY <1>1
<1>3. \A i \in 1..n : r[i] = s[i] /\ r[i][1] \in A
  BY <1>1, <1>2 DEF Plain
<1>4. \A i \in 1..(n + m) : i \notin 1..n => /\ i - n \in 1..m /\ r[i] = t[i - n]
                                              /\ r[i][1] \in B
  BY <1>1, <1>2 DEF Plain
<1>5. \A i, j \in 1..(n + m) : i # j => r[i] # r[j]
  <2> SUFFICES ASSUME NEW i \in 1..(n + m), NEW j \in 1..(n + m), i # j
               PROVE  r[i] # r[j]
    OBVIOUS
  <2> HIDE DEF r
  <2>1. CASE i \in 1..n /\ j \in 1..n
    BY <2>1, <1>3 DEF Plain
  <2>2. CASE i \in 1..n /\ j \notin 1..n
    <3>1. r[i][1] \in A /\ r[j][1] \in B
      BY <2>2, <1>3, <1>4
    <3> QED
      BY <3>1
  <2>3. CASE i \notin 1..n /\ j \in 1..n
    <3>1. r[i][1] \in B /\ r[j][1] \in A
      BY <2>3, <1>3, <1>4
    <3> QED
      BY <3>1
  <2>4. CASE i \notin 1..n /\ j \notin 1..n
    <3>1. /\ i - n \in 1..m /\ r[i] = t[i - n]
          /\ j - n \in 1..m /\ r[j] = t[j - n]
      BY <2>4, <1>4
    <3>2. i - n # j - n
      BY <1>1
    <3> QED
      BY <3>1, <3>2 DEF Plain
  <2> QED
    BY <2>1, <2>2, <2>3, <2>4
<1>6. \A i \in 1..(n + m) : r[i][1] \in A \cup B
  BY <1>3, <1>4
<1> QED
  BY <1>2, <1>5, <1>6 DEF Plain

LEMMA PlainMore ==
  ASSUME NEW A, NEW B, A \subseteq B, NEW s, Plain(s, A)
  PROVE  Plain(s, B)
BY DEF Plain

LEMMA PlainSeveral ==
  ASSUME NEW type, NEW n \in Nat, \A i \in 0..(n - 1) : <<type, i>> \in NodeNames
  PROVE  /\ Several(type, n) \in Seq(NodeNames) /\ Len(Several(type, n)) = n
         /\ \A i \in 1..n : Several(type, n)[i] = <<type, i - 1>>
         /\ Plain(Several(type, n), {type})
<1>1. \A i \in 1..n : i - 1 \in 0..(n - 1)
  OBVIOUS
<1>2. /\ Several(type, n) \in Seq(NodeNames) /\ Len(Several(type, n)) = n
      /\ \A i \in 1..n : Several(type, n)[i] = <<type, i - 1>>
  BY <1>1 DEF Several
<1> QED
  BY <1>2 DEF Plain

LEMMA PlainOne ==
  ASSUME NEW type, <<type, 0>> \in NodeNames
  PROVE  Plain(<< <<type, 0>> >>, {type})
BY DEF Plain

LEMMA PlainNone == Plain(<<>>, {})
BY DEF Plain

LEMMA NodesPlain ==
  ASSUME NEW card \in CardRecs
  PROVE  /\ NodeSeq(card) \in Seq(NodeNames) /\ Len(NodeSeq(card)) \in Nat \ {0}
         /\ \A i, j \in 1..Len(NodeSeq(card)) : i # j => NodeSeq(card)[i] # NodeSeq(card)[j]
<1> DEFINE c0 == << <<"ctrl", 0>> >>
           c1 == Several("events", card.users)
           c2 == Several("h2c", card.h2c)
           c3 == Several("c2h", card.c2h)
           b1 == Several("bypass_h2c", card.h2c)
           b2 == Several("bypass_c2h", card.c2h)
           b3 == Several("bypass", 1)
           bb == IF card.bypass > 0 THEN b1 \o b2 \o b3 ELSE <<>>
           uu == IF card.user >= 0 THEN << <<"user", 0>>, <<"xvc", 0>> >> ELSE <<>>
<1>1. /\ card.users \in 0..16 /\ card.h2c \in 0..4 /\ card.c2h \in 0..4
      /\ card.users \in Nat /\ card.h2c \in Nat /\ card.c2h \in Nat
  BY DEF CardRecs
<1>2. Plain(c0, {"ctrl"})
  BY PlainOne DEF NodeNames
<1>3. Plain(c1, {"events"})
  <2>1. \A i \in 0..(card.users - 1) : <<"events", i>> \in NodeNames
    BY <1>1 DEF NodeNames
  <2> QED
    BY <1>1, <2>1, PlainSeveral, Zenon
<1>4. Plain(c2, {"h2c"}) /\ Plain(b1, {"bypass_h2c"})
  <2>1. \A i \in 0..(card.h2c - 1) : <<"h2c", i>> \in NodeNames /\ <<"bypass_h2c", i>> \in NodeNames
    BY <1>1 DEF NodeNames
  <2> QED
    BY <1>1, <2>1, PlainSeveral, Zenon
<1>5. Plain(c3, {"c2h"}) /\ Plain(b2, {"bypass_c2h"})
  <2>1. \A i \in 0..(card.c2h - 1) : <<"c2h", i>> \in NodeNames /\ <<"bypass_c2h", i>> \in NodeNames
    BY <1>1 DEF NodeNames
  <2> QED
    BY <1>1, <2>1, PlainSeveral, Zenon
<1>6. Plain(b3, {"bypass"})
  <2>1. \A i \in 0..(1 - 1) : <<"bypass", i>> \in NodeNames
    BY DEF NodeNames
  <2> QED
    BY <2>1, PlainSeveral
<1>7. Plain(<< <<"user", 0>>, <<"xvc", 0>> >>, {"user", "xvc"})
  BY DEF Plain, NodeNames
<1> HIDE DEF c0, c1, c2, c3, b1, b2, b3
<1>8. Plain(bb, {"bypass_h2c", "bypass_c2h", "bypass"})
  <2>1. Plain(b1 \o b2, {"bypass_h2c"} \cup {"bypass_c2h"})
    BY <1>4, <1>5, PlainCat
  <2>2. Plain((b1 \o b2) \o b3, ({"bypass_h2c"} \cup {"bypass_c2h"}) \cup {"bypass"})
    BY <2>1, <1>6, PlainCat
  <2>3. Plain(<<>>, {"bypass_h2c", "bypass_c2h", "bypass"})
    BY PlainNone, PlainMore
  <2> QED
    BY <2>2, <2>3, PlainMore
<1>9. Plain(uu, {"user", "xvc"})
  BY <1>7, PlainNone, PlainMore
<1> HIDE DEF bb, uu
<1>10. Plain(c0 \o c1, {"ctrl"} \cup {"events"})
  BY <1>2, <1>3, PlainCat
<1>11. Plain((c0 \o c1) \o c2, ({"ctrl"} \cup {"events"}) \cup {"h2c"})
  BY <1>10, <1>4, PlainCat
<1>12. Plain(((c0 \o c1) \o c2) \o c3, (({"ctrl"} \cup {"events"}) \cup {"h2c"}) \cup {"c2h"})
  BY <1>11, <1>5, PlainCat
<1>13. Plain((((c0 \o c1) \o c2) \o c3) \o bb,
             ((({"ctrl"} \cup {"events"}) \cup {"h2c"}) \cup {"c2h"})
               \cup {"bypass_h2c", "bypass_c2h", "bypass"})
  BY <1>12, <1>8, PlainCat
<1>14. Plain(((((c0 \o c1) \o c2) \o c3) \o bb) \o uu,
             (((({"ctrl"} \cup {"events"}) \cup {"h2c"}) \cup {"c2h"})
               \cup {"bypass_h2c", "bypass_c2h", "bypass"}) \cup {"user", "xvc"})
  BY <1>13, <1>9, PlainCat
<1>15. NodeSeq(card) = ((((c0 \o c1) \o c2) \o c3) \o bb) \o uu
  BY Zenon DEF NodeSeq, c0, c1, c2, c3, b1, b2, b3, bb, uu
<1>16. Len(((((c0 \o c1) \o c2) \o c3) \o bb) \o uu) >= Len(c0)
  <2>1. /\ c0 \in Seq(NodeNames) /\ c1 \in Seq(NodeNames) /\ c2 \in Seq(NodeNames)
        /\ c3 \in Seq(NodeNames) /\ bb \in Seq(NodeNames) /\ uu \in Seq(NodeNames)
    BY <1>2, <1>3, <1>4, <1>5, <1>8, <1>9 DEF Plain
  <2> QED
    BY <2>1
<1>17. Len(c0) = 1
  BY DEF c0
<1> DEFINE all == ((((c0 \o c1) \o c2) \o c3) \o bb) \o uu
<1>18. /\ all \in Seq(NodeNames) /\ \A i, j \in 1..Len(all) : i # j => all[i] # all[j]
  BY <1>14, Zenon DEF Plain
<1> HIDE DEF all
<1>19. Len(all) \in Nat \ {0}
  <2>1. Len(all) >= 1
    BY <1>16, <1>17 DEF all
  <2> QED
    BY <1>18, <2>1
<1> QED
  BY <1>15, <1>18, <1>19, Zenon DEF all

\* The first devices are as many as were created.
LEMMA NodesCounted ==
  ASSUME NEW card \in CardRecs, NEW k \in 0..Len(NodeSeq(card))
  PROVE  /\ Cardinality(FirstNodes(card, k)) = k /\ FirstNodes(card, k) \subseteq AllNodes(card)
         /\ FirstNodes(card, k) \subseteq NodeNames
<1> DEFINE s == NodeSeq(card)
           S == FirstNodes(card, k)
           f == [i \in 1..k |-> s[i]]
<1>1. /\ s \in Seq(NodeNames) /\ Len(s) \in Nat
      /\ \A i, j \in 1..Len(s) : i # j => s[i] # s[j]
  BY NodesPlain
<1> HIDE DEF s
<1>2. k \in Nat /\ 1..k \subseteq 1..Len(s)
  BY <1>1 DEF s
<1>3. f \in Bijection(1..k, S)
  <2>1. S = {s[i] : i \in 1..k}
    BY DEF FirstNodes, s
  <2>2. f \in [1..k -> S] /\ \A t \in S : \E i \in 1..k : f[i] = t
    BY <2>1
  <2>3. \A i, j \in 1..k : f[i] = f[j] => i = j
    BY <1>1, <1>2
  <2> QED
    BY <2>2, <2>3 DEF Bijection, Injection, Surjection, IsInjective
<1>4. IsFiniteSet(1..k) /\ Cardinality(1..k) = k
  <2>1. IsFiniteSet(1..k)
    BY <1>2, FS_Interval
  <2>2. Cardinality(1..k) = IF 1 > k THEN 0 ELSE k - 1 + 1
    BY <1>2, FS_Interval
  <2> QED
    BY <1>2, <2>1, <2>2
<1>5. Cardinality(S) = k
  BY <1>3, <1>4, FS_Bijection, Zenon DEF ExistsBijection
<1>6. S \subseteq AllNodes(card)
  BY <1>2 DEF FirstNodes, AllNodes, s
<1>7. S \subseteq NodeNames
  BY <1>1, <1>2 DEF FirstNodes, s
<1> QED
  BY <1>5, <1>6, <1>7

LEMMA NodeCreated ==
  ASSUME NEW card \in CardRecs, NEW N \in NodeRecs, NEW k \in 0..(Len(NodeSeq(card)) - 1),
         N.nodes = FirstNodes(card, k)
  PROVE  /\ CreateXcdev(card, N) \in NodeRecs
         /\ CreateXcdev(card, N).nodes = FirstNodes(card, k + 1)
         /\ CreateXcdev(card, N).dead = N.dead /\ CreateXcdev(card, N).twice = N.twice
         /\ AllCreated(card, CreateXcdev(card, N)) =>
              CreateXcdev(card, N).nodes = AllNodes(card)
         /\ ~AllCreated(card, CreateXcdev(card, N)) => k + 1 \in 0..(Len(NodeSeq(card)) - 1)
<1> DEFINE s == NodeSeq(card)
           M == CreateXcdev(card, N)
<1>1. Len(s) \in Nat /\ s \in Seq(NodeNames)
  BY NodesPlain
<1> HIDE DEF s
<1>2. k \in Nat /\ k \in 0..Len(s) /\ k + 1 \in 0..Len(s) /\ k + 1 \in 1..Len(s)
  BY <1>1 DEF s
<1>3. Cardinality(N.nodes) = k
  BY <1>2, NodesCounted DEF s
<1>4. NextNode(card, N) = s[k + 1]
  BY <1>3 DEF NextNode, s
<1>5. M.nodes = FirstNodes(card, k + 1)
  <2>1. M.nodes = N.nodes \cup {s[k + 1]}
    BY <1>4 DEF CreateXcdev, NodeRecs
  <2>2. 1..(k + 1) = (1..k) \cup {k + 1}
    BY <1>2
  <2> QED
    BY <2>1, <2>2 DEF FirstNodes, s
<1>6. M \in NodeRecs /\ M.dead = N.dead /\ M.twice = N.twice
  <2>1. s[k + 1] \in NodeNames
    BY <1>1, <1>2
  <2> QED
    BY <1>4, <2>1 DEF CreateXcdev, NodeRecs
<1>7. Cardinality(M.nodes) = k + 1
  BY <1>2, <1>5, NodesCounted DEF s
<1>8. AllCreated(card, M) <=> k + 1 = Len(s)
  BY <1>7 DEF AllCreated, s
<1>9. k + 1 = Len(s) => FirstNodes(card, k + 1) = AllNodes(card)
  BY DEF FirstNodes, AllNodes, s
<1>10. k + 1 # Len(s) => k + 1 \in 0..(Len(s) - 1)
  BY <1>1, <1>2
<1> QED
  BY <1>5, <1>6, <1>8, <1>9, <1>10 DEF s

LEMMA NodesDestroyed ==
  ASSUME NEW card \in CardRecs, NEW N \in NodeRecs, N.nodes \subseteq AllNodes(card)
  PROVE  /\ DestroyInterfaces(card, N) \in NodeRecs
         /\ DestroyInterfaces(card, N).nodes \subseteq N.nodes
         /\ ~DestroyInterfaces(card, N).major
         /\ N.nodes = AllNodes(card) /\ N.dead = {} /\ ~N.twice =>
              DestroyInterfaces(card, N).nodes = {} /\ ~DestroyInterfaces(card, N).twice
<1> DEFINE gone == {n \in N.nodes \cup N.dead : Flag(n) \in Flags(card, N)}
           tw == N.twice \/ (gone \cap N.dead # {})
           M == [N EXCEPT !.major = FALSE, !.nodes = N.nodes \ gone,
                          !.dead = N.dead \cup gone, !.twice = tw]
<1>1. DestroyInterfaces(card, N) = M
  BY Zenon DEF DestroyInterfaces
<1>2. tw \in BOOLEAN /\ gone \subseteq N.nodes \cup N.dead
  BY DEF NodeRecs
<1>3. N.nodes = AllNodes(card) /\ N.dead = {} => gone = N.nodes
  <2> SUFFICES ASSUME N.nodes = AllNodes(card), N.dead = {}
               PROVE  gone = N.nodes
    OBVIOUS
  <2> DEFINE all == {NodeSeq(card)[i] : i \in DOMAIN NodeSeq(card)}
  <2>1. all = AllNodes(card)
    <3>1. DOMAIN NodeSeq(card) = 1..Len(NodeSeq(card))
      BY NodesPlain
    <3> QED
      BY <3>1 DEF AllNodes
  <2>2. Flags(card, N) = {f \in {Flag(n) : n \in all} :
                            {n \in all : Flag(n) = f} \subseteq N.nodes \cup N.dead}
    BY Zenon DEF Flags
  <2> HIDE DEF all
  <2>3. \A n \in N.nodes : Flag(n) \in Flags(card, N)
    BY <2>1, <2>2
  <2> QED
    BY <2>3
<1> HIDE DEF gone
<1>4. N.nodes = AllNodes(card) /\ N.dead = {} /\ ~N.twice => ~tw
  BY <1>3
<1> HIDE DEF tw
<1>5. M \in NodeRecs /\ M.nodes = N.nodes \ gone /\ M.major = FALSE /\ M.twice = tw
  BY <1>2 DEF NodeRecs
<1> QED
  BY <1>1, <1>3, <1>4, <1>5

LEMMA MinorsDiffer ==
  ASSUME NEW m \in NodeNames, NEW n \in NodeNames, m # n
  PROVE  Minor(m) # Minor(n)
<1>1. /\ m = <<m[1], m[2]>> /\ n = <<n[1], n[2]>> /\ m[2] \in 0..15 /\ n[2] \in 0..15
      /\ m[1] \in {"ctrl", "user", "xvc", "bypass"} => m[2] = 0
      /\ n[1] \in {"ctrl", "user", "xvc", "bypass"} => n[2] = 0
      /\ m[1] \in {"h2c", "c2h", "bypass_h2c", "bypass_c2h"} => m[2] \in 0..3
      /\ n[1] \in {"h2c", "c2h", "bypass_h2c", "bypass_c2h"} => n[2] \in 0..3
  BY DEF NodeNames
<1>2. /\ m[1] \in {"ctrl", "user", "xvc", "bypass", "events", "h2c", "c2h", "bypass_h2c",
                   "bypass_c2h"}
      /\ n[1] \in {"ctrl", "user", "xvc", "bypass", "events", "h2c", "c2h", "bypass_h2c",
                   "bypass_c2h"}
  BY DEF NodeNames
<1>3. m[1] # n[1] \/ m[2] # n[2]
  BY <1>1
<1> QED
  BY <1>1, <1>2, <1>3 DEF Minor

-----------------------------------------------------------------------------
(* The BARs of a card                                                      *)

LEMMA TwoDifferent ==
  ASSUME NEW x, NEW y, x # y
  PROVE  Cardinality({x, y}) = 2
<1>1. IsFiniteSet({x}) /\ Cardinality({x}) = 1
  BY FS_Singleton
<1>2. Cardinality({x} \cup {y}) = Cardinality({x}) + 1
  BY <1>1, FS_AddElement
<1>3. {x} \cup {y} = {x, y}
  OBVIOUS
<1> QED
  BY <1>1, <1>2, <1>3

LEMMA ThreeDifferent ==
  ASSUME NEW x, NEW y, NEW z, x # y, x # z, y # z
  PROVE  Cardinality({x, y, z}) = 3
<1>1. IsFiniteSet({x}) /\ IsFiniteSet({x} \cup {y})
  BY FS_Singleton, FS_AddElement
<1>2. {x} \cup {y} = {x, y} /\ {x, y} \cup {z} = {x, y, z} /\ z \notin {x, y}
  OBVIOUS
<1>3. Cardinality({x, y} \cup {z}) = Cardinality({x, y}) + 1
  BY <1>1, <1>2, FS_AddElement
<1>4. Cardinality({x, y}) = 2
  BY TwoDifferent
<1>5. Cardinality({x, y, z}) = Cardinality({x, y}) + 1
  BY <1>2, <1>3
<1> QED
  BY <1>4, <1>5

LEMMA LeastIs ==
  ASSUME NEW S \in SUBSET Nat, NEW x \in S, \A y \in S : x <= y
  PROVE  Min(S) = x
<1>1. Min(S) \in S /\ \A y \in S : Min(S) <= y
  BY DEF Min
<1>2. Min(S) \in Nat /\ x \in Nat /\ Min(S) <= x /\ x <= Min(S)
  BY <1>1
<1> QED
  BY <1>2

LEMMA GreatestIs ==
  ASSUME NEW S \in SUBSET Nat, NEW x \in S, \A y \in S : x >= y
  PROVE  Max(S) = x
<1>1. Max(S) \in S /\ \A y \in S : Max(S) >= y
  BY DEF Max
<1>2. Max(S) \in Nat /\ x \in Nat /\ Max(S) <= x /\ x <= Max(S)
  BY <1>1
<1> QED
  BY <1>2

\* Below the configuration there is nothing but the user's BAR, above it nothing
\* but the bypass.
LEMMA BarsAround ==
  ASSUME load \in Loads, HasConfig
  PROVE  /\ Present \subseteq Nat /\ ConfigBar \in Present /\ load.bars[ConfigBar + 1] = "config"
         /\ \A b \in Present : b < ConfigBar => load.bars[b + 1] = "user"
         /\ \A b \in Present : b > ConfigBar => load.bars[b + 1] = "bypass"
         /\ \A a, b \in Present : load.bars[a + 1] = load.bars[b + 1] => a = b
<1> DEFINE s == load.bars
           n == Len(s)
<1>1. /\ s \in Seq({"none", "user", "config", "bypass"})
      /\ \A i, j \in DOMAIN s : i < j => "none" \in {s[i], s[j]} \/ <<s[i], s[j]>> \in BarOrder
  BY DeviceAssumption
<1>2. n \in Nat /\ DOMAIN s = 1..n
  BY <1>1
<1>3. Present = {b \in 0..(n - 1) : s[b + 1] # "none"}
  BY DEF Present
<1>4. ConfigBar \in Present /\ s[ConfigBar + 1] = "config"
  BY DEF ConfigBar, HasConfig
<1> HIDE DEF s, n
<1>5. \A b \in Present : b \in Nat /\ b + 1 \in DOMAIN s /\ s[b + 1] # "none"
  BY <1>2, <1>3
<1>6. \A a, b \in Present : a < b => <<s[a + 1], s[b + 1]>> \in BarOrder
  <2> SUFFICES ASSUME NEW a \in Present, NEW b \in Present, a < b
               PROVE  <<s[a + 1], s[b + 1]>> \in BarOrder
    OBVIOUS
  <2>1. a + 1 < b + 1
    BY <1>5
  <2> QED
    BY <2>1, <1>1, <1>5
<1>7. \A b \in Present : b < ConfigBar => s[b + 1] = "user"
  BY <1>4, <1>6 DEF BarOrder
<1>8. \A b \in Present : b > ConfigBar => s[b + 1] = "bypass"
  <2> SUFFICES ASSUME NEW b \in Present, b > ConfigBar
               PROVE  s[b + 1] = "bypass"
    OBVIOUS
  <2>1. ConfigBar < b
    BY <1>4, <1>5
  <2>2. <<s[ConfigBar + 1], s[b + 1]>> \in BarOrder
    BY <2>1, <1>4, <1>6
  <2> QED
    BY <2>2, <1>4 DEF BarOrder
<1>9. \A a, b \in Present : s[a + 1] = s[b + 1] => a = b
  <2> SUFFICES ASSUME NEW a \in Present, NEW b \in Present, s[a + 1] = s[b + 1], a # b
               PROVE  FALSE
    OBVIOUS
  <2>1. a < b \/ b < a
    BY <1>5
  <2>2. \A x \in {"none", "user", "config", "bypass"} : <<x, x>> \notin BarOrder
    BY DEF BarOrder
  <2>3. s[a + 1] \in {"none", "user", "config", "bypass"}
    BY <1>1, <1>5
  <2>4. <<s[a + 1], s[a + 1]>> \in BarOrder
    BY <2>1, <1>6
  <2> QED
    BY <2>2, <2>3, <2>4
<1> QED
  BY <1>4, <1>5, <1>7, <1>8, <1>9 DEF s

\* identify_bars finds what the card has.
LEMMA BarsIdentified ==
  ASSUME load \in Loads, HasConfig, NEW card \in CardRecs
  PROVE  /\ Identify(card) \in CardRecs
         /\ Identify(card).config \in Present /\ Present \subseteq Nat
         /\ \A kind \in {"user", "config", "bypass"} : \A i \in 1..Len(load.bars) :
              load.bars[i] = kind => Identify(card)[kind] = i - 1
<1> DEFINE s == load.bars
           c == ConfigBar
           P == Present
           n == Cardinality(P)
           both == n \in {3, 4} /\ ConfigPos \in {1, 2}
           u == IF both \/ (n = 2 /\ ConfigPos = 1) THEN Min(P) ELSE card.user
           y == IF both \/ (n = 2 /\ ConfigPos = 0) THEN Max(P) ELSE card.bypass
           I == Identify(card)
<1>1. /\ P \subseteq Nat /\ c \in P /\ s[c + 1] = "config"
      /\ \A b \in P : b < c => s[b + 1] = "user"
      /\ \A b \in P : b > c => s[b + 1] = "bypass"
      /\ \A a, b \in P : s[a + 1] = s[b + 1] => a = b
  BY BarsAround
<1>2. I = [card EXCEPT !.config = c, !.user = u, !.bypass = y]
  BY Zenon DEF Identify
<1>3. ConfigPos = Cardinality({b \in P : b < c})
  BY DEF ConfigPos
<1>4. \A i \in 1..Len(s) : s[i] # "none" => i - 1 \in P /\ s[(i - 1) + 1] = s[i]
  <2>1. s \in Seq({"none", "user", "config", "bypass"})
    BY DeviceAssumption
  <2> QED
    BY <2>1 DEF Present
<1>5. card.user \in Int /\ card.bypass \in Int
  BY DEF CardRecs
<1> HIDE DEF s, c, P
<1>6. /\ u \in Int /\ y \in Int
      /\ \A b \in P : s[b + 1] = "user" => u = b
      /\ \A b \in P : s[b + 1] = "bypass" => y = b
  <2>1. CASE (\A b \in P : b >= c) /\ (\A b \in P : b <= c)
    <3>1. P = {c}
      <4>1. \A b \in P : b \in Nat /\ b <= c /\ c <= b /\ c \in Nat
        BY <2>1, <1>1
      <4>2. \A b \in P : b = c
        BY <4>1
      <4> QED
        BY <4>2, <1>1
    <3>2. n = 1
      BY <3>1, FS_Singleton
    <3>3. u = card.user /\ y = card.bypass
      BY <3>2
    <3> QED
      BY <3>1, <3>3, <1>1, <1>5
  <2>2. CASE (\E b \in P : b < c) /\ (\A b \in P : b <= c)
    <3>1. PICK a \in P : a < c
      BY <2>2
    <3>2. P = {a, c}
      <4>1. \A b \in P : b = a \/ b = c
        <5> SUFFICES ASSUME NEW b \in P, b # c
                     PROVE  b = a
          OBVIOUS
        <5>1. b \in Nat /\ c \in Nat /\ b < c
          BY <2>2, <1>1
        <5> QED
          BY <5>1, <3>1, <1>1
      <4> QED
        BY <4>1, <3>1, <1>1
    <3>3. n = 2
      BY <3>1, <3>2, <1>1, TwoDifferent
    <3>4. {b \in P : b < c} = {a}
      BY <3>1, <3>2, <1>1
    <3>5. ConfigPos = 1
      BY <3>4, <1>3, FS_Singleton
    <3>6. Min(P) = a
      BY <3>1, <3>2, <1>1, LeastIs
    <3>7. u = a /\ y = card.bypass
      BY <3>3, <3>5, <3>6
    <3> QED
      BY <3>1, <3>2, <3>7, <1>1, <1>5
  <2>3. CASE (\A b \in P : b >= c) /\ (\E b \in P : b > c)
    <3>1. PICK a \in P : a > c
      BY <2>3
    <3>2. P = {c, a}
      <4>1. \A b \in P : b = a \/ b = c
        <5> SUFFICES ASSUME NEW b \in P, b # c
                     PROVE  b = a
          OBVIOUS
        <5>1. b \in Nat /\ c \in Nat /\ b > c
          BY <2>3, <1>1
        <5> QED
          BY <5>1, <3>1, <1>1
      <4> QED
        BY <4>1, <3>1, <1>1
    <3>3. n = 2
      BY <3>1, <3>2, <1>1, TwoDifferent
    <3>4. {b \in P : b < c} = {}
      BY <3>1, <3>2, <1>1
    <3>5. ConfigPos = 0
      BY <3>4, <1>3, FS_EmptySet
    <3>6. Max(P) = a
      BY <3>1, <3>2, <1>1, GreatestIs
    <3>7. u = card.user /\ y = a
      BY <3>3, <3>5, <3>6
    <3> QED
      BY <3>1, <3>2, <3>7, <1>1, <1>5
  <2>4. CASE (\E b \in P : b < c) /\ (\E b \in P : b > c)
    <3>1. PICK a \in P : a < c
      BY <2>4
    <3>2. PICK z \in P : z > c
      BY <2>4
    <3>3. P = {a, c, z}
      <4>1. \A b \in P : b = a \/ b = c \/ b = z
        BY <3>1, <3>2, <1>1
      <4> QED
        BY <4>1, <3>1, <3>2, <1>1
    <3>4. a \in Nat /\ c \in Nat /\ z \in Nat /\ a # c /\ a # z /\ c # z
      BY <3>1, <3>2, <1>1
    <3>5. n = 3
      BY <3>3, <3>4, ThreeDifferent
    <3>6. {b \in P : b < c} = {a}
      BY <3>1, <3>2, <3>3, <3>4
    <3>7. ConfigPos = 1
      BY <3>6, <1>3, FS_Singleton
    <3>8. Min(P) = a
      <4>1. \A b \in P : a <= b
        BY <3>1, <3>2, <3>3, <3>4
      <4> QED
        BY <4>1, <1>1, LeastIs
    <3>9. Max(P) = z
      <4>1. \A b \in P : z >= b
        BY <3>1, <3>2, <3>3, <3>4
      <4> QED
        BY <4>1, <1>1, GreatestIs
    <3>10. u = a /\ y = z
      BY <3>5, <3>7, <3>8, <3>9
    <3> QED
      BY <3>1, <3>2, <3>3, <3>4, <3>10, <1>1
  <2>5. \A b \in P : b < c \/ b = c \/ b > c
    BY <1>1
  <2> QED
    BY <2>1, <2>2, <2>3, <2>4, <2>5, <1>1
<1> HIDE DEF u, y, I
<1>7. /\ I \in CardRecs /\ I.config = c /\ I.user = u /\ I.bypass = y
  <2>1. c \in Int
    BY <1>1
  <2> QED
    <3>1. u \in Int /\ y \in Int
      BY <1>6
    <3> QED
      BY <1>2, <2>1, <3>1 DEF CardRecs
<1>8. \A b \in P : s[b + 1] = "config" => c = b
  BY <1>1
<1>9. \A kind \in {"user", "config", "bypass"} : \A i \in 1..Len(s) :
        s[i] = kind => I[kind] = i - 1
  <2> SUFFICES ASSUME NEW kind \in {"user", "config", "bypass"}, NEW i \in 1..Len(s), s[i] = kind
               PROVE  I[kind] = i - 1
    OBVIOUS
  <2>1. i - 1 \in P /\ s[(i - 1) + 1] = kind
    BY <1>4
  <2>2. CASE kind = "user"
    BY <2>1, <2>2, <1>6, <1>7
  <2>3. CASE kind = "config"
    BY <2>1, <2>3, <1>8, <1>7
  <2>4. CASE kind = "bypass"
    BY <2>1, <2>4, <1>6, <1>7
  <2> QED
    BY <2>2, <2>3, <2>4
<1> QED
  BY <1>1, <1>7, <1>9 DEF s, c, P, I

-----------------------------------------------------------------------------
(* What a step does to the record of its card                              *)

\* A step of probing fails.
LEMMA KeptByListFailure ==
  ASSUME NEW D \in DevRecs, CardInv(D), D.pc = "list", NEW E,
         E = [[D EXCEPT !.fault = "threads"] EXCEPT !.pc = "undo_free"]
  PROVE  E \in DevRecs /\ CardInv(E)
<1> USE DEF DevRecs, CardInv
<1>0. Handlers(E) = Handlers(D)
  BY DEF Handlers, Channels, UserHandlers
<1>1. E \in DevRecs
  BY ZenonT(40) DEF Stages, Faults
<1>2. StageInv(E)
  BY <1>0 DEF StageInv, Early, InUse, Ends1
<1>3. HeldInv(E)
  BY <1>0 DEF HeldInv, HasRegion, Mapped, HasEng, HasVec
<1>4. PowerInv(E)
  BY <1>0 DEF PowerInv, Early, Powered, Unpowered, Falling, InUse, Ends1, StageInv
<1>5. IrqInv(E)
  BY <1>0 DEF IrqInv, Early, InUse, Ends1, Ends2, StageInv, Orderly
<1>6. MaskInv(E)
  BY <1>0 DEF MaskInv, Early, InUse, Live, StageInv, Orderly
<1>7. NodeInv(E)
  BY <1>0 DEF NodeInv, Early, Ends1, Ends2, InUse, StageInv, NoNodes
<1>8. BarInv(E)
  BY <1>0 DEF BarInv, Mapped
<1>9. UseInv(E)
  BY <1>0 DEF UseInv, Orderly, StageInv, Early, InUse, Ends1
<1> QED
  BY <1>1, <1>2, <1>3, <1>4, <1>5, <1>6, <1>7, <1>8, <1>9

LEMMA KeptByEnableFailure ==
  ASSUME NEW D \in DevRecs, CardInv(D), D.pc = "enable", NEW E,
         E = [[D EXCEPT !.fault = "enable", !.inUse = FALSE] EXCEPT !.pc = "undo_list"]
  PROVE  E \in DevRecs /\ CardInv(E)
<1> USE DEF DevRecs, CardInv
<1>0. Handlers(E) = Handlers(D)
  BY DEF Handlers, Channels, UserHandlers
<1>1. E \in DevRecs
  BY ZenonT(40) DEF Stages, Faults
<1>2. StageInv(E)
  BY <1>0 DEF StageInv, Early, InUse, Ends1
<1>3. HeldInv(E)
  BY <1>0 DEF HeldInv, HasRegion, Mapped, HasEng, HasVec
<1>4. PowerInv(E)
  BY <1>0 DEF PowerInv, Early, Powered, Unpowered, Falling, InUse, Ends1, StageInv
<1>5. IrqInv(E)
  BY <1>0 DEF IrqInv, Early, InUse, Ends1, Ends2, StageInv, Orderly
<1>6. MaskInv(E)
  BY <1>0 DEF MaskInv, Early, InUse, Live, StageInv, Orderly
<1>7. NodeInv(E)
  BY <1>0 DEF NodeInv, Early, Ends1, Ends2, InUse, StageInv, NoNodes
<1>8. BarInv(E)
  BY <1>0 DEF BarInv, Mapped
<1>9. UseInv(E)
  BY <1>0 DEF UseInv, Orderly, StageInv, Early, InUse, Ends1
<1> QED
  BY <1>1, <1>2, <1>3, <1>4, <1>5, <1>6, <1>7, <1>8, <1>9

LEMMA KeptByRegionFailure ==
  ASSUME NEW D \in DevRecs, CardInv(D), D.pc = "regions", NEW E,
         E = [[D EXCEPT !.fault = "regions", !.inUse = TRUE] EXCEPT !.pc = "undo_device"]
  PROVE  E \in DevRecs /\ CardInv(E)
<1> USE DEF DevRecs, CardInv
<1>0. Handlers(E) = Handlers(D)
  BY DEF Handlers, Channels, UserHandlers
<1>1. E \in DevRecs
  BY ZenonT(40) DEF Stages, Faults
<1>2. StageInv(E)
  BY <1>0 DEF StageInv, Early, InUse, Ends1
<1>3. HeldInv(E)
  BY <1>0 DEF HeldInv, HasRegion, Mapped, HasEng, HasVec
<1>4. PowerInv(E)
  BY <1>0 DEF PowerInv, Early, Powered, Unpowered, Falling, InUse, Ends1, StageInv
<1>5. IrqInv(E)
  BY <1>0 DEF IrqInv, Early, InUse, Ends1, Ends2, StageInv, Orderly
<1>6. MaskInv(E)
  BY <1>0 DEF MaskInv, Early, InUse, Live, StageInv, Orderly
<1>7. NodeInv(E)
  BY <1>0 DEF NodeInv, Early, Ends1, Ends2, InUse, StageInv, NoNodes
<1>8. BarInv(E)
  BY <1>0 DEF BarInv, Mapped
<1>9. UseInv(E)
  BY <1>0 DEF UseInv, Orderly, StageInv, Early, InUse, Ends1
<1> QED
  BY <1>1, <1>2, <1>3, <1>4, <1>5, <1>6, <1>7, <1>8, <1>9

LEMMA KeptByMaskFailure ==
  ASSUME NEW D \in DevRecs, CardInv(D), D.pc = "mask", NEW E,
         E = [[D EXCEPT !.fault = "mask", !.inUse = FALSE] EXCEPT !.pc = "undo_bars"]
  PROVE  E \in DevRecs /\ CardInv(E)
<1> USE DEF DevRecs, CardInv
<1>0. Handlers(E) = Handlers(D)
  BY DEF Handlers, Channels, UserHandlers
<1>1. E \in DevRecs
  BY ZenonT(40) DEF Stages, Faults
<1>2. StageInv(E)
  BY <1>0 DEF StageInv, Early, InUse, Ends1
<1>3. HeldInv(E)
  BY <1>0 DEF HeldInv, HasRegion, Mapped, HasEng, HasVec
<1>4. PowerInv(E)
  BY <1>0 DEF PowerInv, Early, Powered, Unpowered, Falling, InUse, Ends1, StageInv
<1>5. IrqInv(E)
  BY <1>0 DEF IrqInv, Early, InUse, Ends1, Ends2, StageInv, Orderly
<1>6. MaskInv(E)
  BY <1>0 DEF MaskInv, Early, InUse, Live, StageInv, Orderly
<1>7. NodeInv(E)
  BY <1>0 DEF NodeInv, Early, Ends1, Ends2, InUse, StageInv, NoNodes
<1>8. BarInv(E)
  BY <1>0 DEF BarInv, Mapped
<1>9. UseInv(E)
  BY <1>0 DEF UseInv, Orderly, StageInv, Early, InUse, Ends1
<1> QED
  BY <1>1, <1>2, <1>3, <1>4, <1>5, <1>6, <1>7, <1>8, <1>9

LEMMA KeptByVectorFailure ==
  ASSUME NEW D \in DevRecs, CardInv(D), D.pc = "vectors", NEW E,
         E = [[D EXCEPT !.fault = "vectors", !.inUse = FALSE] EXCEPT !.pc = "undo_engines"]
  PROVE  E \in DevRecs /\ CardInv(E)
<1> USE DEF DevRecs, CardInv
<1>0. Handlers(E) = Handlers(D)
  BY DEF Handlers, Channels, UserHandlers
<1>1. E \in DevRecs
  BY ZenonT(40) DEF Stages, Faults
<1>2. StageInv(E)
  BY <1>0 DEF StageInv, Early, InUse, Ends1
<1>3. HeldInv(E)
  BY <1>0 DEF HeldInv, HasRegion, Mapped, HasEng, HasVec
<1>4. PowerInv(E)
  BY <1>0 DEF PowerInv, Early, Powered, Unpowered, Falling, InUse, Ends1, StageInv
<1>5. IrqInv(E)
  BY <1>0 DEF IrqInv, Early, InUse, Ends1, Ends2, StageInv, Orderly
<1>6. MaskInv(E)
  BY <1>0 DEF MaskInv, Early, InUse, Live, StageInv, Orderly
<1>7. NodeInv(E)
  BY <1>0 DEF NodeInv, Early, Ends1, Ends2, InUse, StageInv, NoNodes
<1>8. BarInv(E)
  BY <1>0 DEF BarInv, Mapped
<1>9. UseInv(E)
  BY <1>0 DEF UseInv, Orderly, StageInv, Early, InUse, Ends1
<1> QED
  BY <1>1, <1>2, <1>3, <1>4, <1>5, <1>6, <1>7, <1>8, <1>9

LEMMA KeptByBarFailure ==
  ASSUME NEW D \in DevRecs, CardInv(D), D.pc = "bars", NEW E,
         E = [[D EXCEPT !.fault = "bars"] EXCEPT !.pc = "undo_regions"]
  PROVE  E \in DevRecs /\ CardInv(E)
<1> USE DEF DevRecs, CardInv
<1>0. Handlers(E) = Handlers(D)
  BY DEF Handlers, Channels, UserHandlers
<1>1. E \in DevRecs
  BY ZenonT(40) DEF Stages, Faults
<1>2. StageInv(E)
  BY <1>0 DEF StageInv, Early, InUse, Ends1
<1>3. HeldInv(E)
  BY <1>0 DEF HeldInv, HasRegion, Mapped, HasEng, HasVec
<1>4. PowerInv(E)
  BY <1>0 DEF PowerInv, Early, Powered, Unpowered, Falling, InUse, Ends1, StageInv
<1>5. IrqInv(E)
  BY <1>0 DEF IrqInv, Early, InUse, Ends1, Ends2, StageInv, Orderly
<1>6. MaskInv(E)
  BY <1>0 DEF MaskInv, Early, InUse, Live, StageInv, Orderly
<1>7. NodeInv(E)
  BY <1>0 DEF NodeInv, Early, Ends1, Ends2, InUse, StageInv, NoNodes
<1>8. BarInv(E)
  BY <1>0 DEF BarInv, Mapped
<1>9. UseInv(E)
  BY <1>0 DEF UseInv, Orderly, StageInv, Early, InUse, Ends1
<1> QED
  BY <1>1, <1>2, <1>3, <1>4, <1>5, <1>6, <1>7, <1>8, <1>9

\* The steps of probing
LEMMA KeptByListAdd ==
  ASSUME NEW D \in DevRecs, CardInv(D), D.pc = "list", NEW n \in Nat, NEW E,
         E = [[D EXCEPT !.idx = n] EXCEPT !.pc = "enable"]
  PROVE  E \in DevRecs /\ CardInv(E)
<1> USE DEF DevRecs, CardInv
<1>0. Handlers(E) = Handlers(D)
  BY DEF Handlers, Channels, UserHandlers
<1>1. E \in DevRecs
  BY ZenonT(40) DEF Stages
<1>2. StageInv(E)
  BY <1>0 DEF StageInv, Early, InUse, Ends1
<1>3. HeldInv(E)
  BY <1>0 DEF HeldInv, HasRegion, Mapped, HasEng, HasVec
<1>4. PowerInv(E)
  BY <1>0 DEF PowerInv, Early, Powered, Unpowered, Falling, InUse, Ends1, StageInv
<1>5. IrqInv(E)
  BY <1>0 DEF IrqInv, Early, InUse, Ends1, Ends2, StageInv, Orderly
<1>6. MaskInv(E)
  BY <1>0 DEF MaskInv, Early, InUse, Live, StageInv, Orderly
<1>7. NodeInv(E)
  BY <1>0 DEF NodeInv, Early, Ends1, Ends2, InUse, StageInv, NoNodes
<1>8. BarInv(E)
  BY <1>0 DEF BarInv, Mapped
<1>9. UseInv(E)
  BY <1>0 DEF UseInv, Orderly, StageInv, Early, InUse, Ends1
<1> QED
  BY <1>1, <1>2, <1>3, <1>4, <1>5, <1>6, <1>7, <1>8, <1>9

LEMMA KeptByEnable ==
  ASSUME NEW D \in DevRecs, CardInv(D), D.pc = "enable", NEW n, n = D.enabled + 1, NEW E,
         E = [[D EXCEPT !.enabled = n] EXCEPT !.pc = "regions"]
  PROVE  E \in DevRecs /\ CardInv(E)
<1> USE DEF DevRecs, CardInv
<1>a. n = 1 /\ n \in -1..1
  BY DEF PowerInv
<1>0. Handlers(E) = Handlers(D)
  BY DEF Handlers, Channels, UserHandlers
<1>1. E \in DevRecs
  BY <1>a, ZenonT(40) DEF Stages
<1>2. StageInv(E)
  BY <1>0 DEF StageInv, Early, InUse, Ends1
<1>3. HeldInv(E)
  BY <1>0 DEF HeldInv, HasRegion, Mapped, HasEng, HasVec
<1>4. PowerInv(E)
  BY <1>0 DEF PowerInv, Early, Powered, Unpowered, Falling, InUse, Ends1, StageInv
<1>5. IrqInv(E)
  BY <1>0 DEF IrqInv, Early, InUse, Ends1, Ends2, StageInv, Orderly
<1>6. MaskInv(E)
  BY <1>0 DEF MaskInv, Early, InUse, Live, StageInv, Orderly
<1>7. NodeInv(E)
  BY <1>0 DEF NodeInv, Early, Ends1, Ends2, InUse, StageInv, NoNodes
<1>8. BarInv(E)
  BY <1>0 DEF BarInv, Mapped
<1>9. UseInv(E)
  BY <1>0 DEF UseInv, Orderly, StageInv, Early, InUse, Ends1
<1> QED
  BY <1>1, <1>2, <1>3, <1>4, <1>5, <1>6, <1>7, <1>8, <1>9

LEMMA KeptByRegions ==
  ASSUME NEW D \in DevRecs, CardInv(D), D.pc = "regions", NEW E,
         E = [[D EXCEPT !.regions = TRUE] EXCEPT !.pc = "bars"]
  PROVE  E \in DevRecs /\ CardInv(E)
<1> USE DEF DevRecs, CardInv
<1>0. Handlers(E) = Handlers(D)
  BY DEF Handlers, Channels, UserHandlers
<1>1. E \in DevRecs
  BY ZenonT(40) DEF Stages
<1>2. StageInv(E)
  BY <1>0 DEF StageInv, Early, InUse, Ends1
<1>3. HeldInv(E)
  BY <1>0 DEF HeldInv, HasRegion, Mapped, HasEng, HasVec
<1>4. PowerInv(E)
  BY <1>0 DEF PowerInv, Early, Powered, Unpowered, Falling, InUse, Ends1, StageInv
<1>5. IrqInv(E)
  BY <1>0 DEF IrqInv, Early, InUse, Ends1, Ends2, StageInv, Orderly
<1>6. MaskInv(E)
  BY <1>0 DEF MaskInv, Early, InUse, Live, StageInv, Orderly
<1>7. NodeInv(E)
  BY <1>0 DEF NodeInv, Early, Ends1, Ends2, InUse, StageInv, NoNodes
<1>8. BarInv(E)
  BY <1>0 DEF BarInv, Mapped
<1>9. UseInv(E)
  BY <1>0 DEF UseInv, Orderly, StageInv, Early, InUse, Ends1
<1> QED
  BY <1>1, <1>2, <1>3, <1>4, <1>5, <1>6, <1>7, <1>8, <1>9

LEMMA KeptByBars ==
  ASSUME NEW D \in DevRecs, CardInv(D), D.pc = "bars", NEW I \in CardRecs,
         NEW B \in SUBSET Nat, I.config \in B,
         \A kind \in {"user", "config", "bypass"} : \A i \in 1..Len(load.bars) :
           load.bars[i] = kind => I[kind] = i - 1, NEW E,
         E = [[D EXCEPT !.bars = B, !.card = I] EXCEPT !.pc = "mask"]
  PROVE  E \in DevRecs /\ CardInv(E)
<1> USE DEF DevRecs, CardInv
<1>1. E \in DevRecs
  BY ZenonT(40) DEF Stages
<1>2. StageInv(E)
  BY DEF StageInv, Early, InUse, Ends1
<1>3. HeldInv(E)
  BY DEF HeldInv, HasRegion, Mapped, HasEng, HasVec
<1>4. PowerInv(E)
  BY DEF PowerInv, Early, Powered, Unpowered, Falling, InUse, Ends1, StageInv
<1>5. IrqInv(E)
  BY DEF IrqInv, Early, InUse, Ends1, Ends2, StageInv, Orderly
<1>6. MaskInv(E)
  BY DEF MaskInv, Early, InUse, Live, StageInv, Orderly
<1>7. NodeInv(E)
  BY DEF NodeInv, Early, Ends1, Ends2, InUse, StageInv, NoNodes
<1>8. BarInv(E)
  BY DEF BarInv, Mapped
<1>9. UseInv(E)
  BY DEF UseInv, Orderly, StageInv, Early, InUse, Ends1
<1> QED
  BY <1>1, <1>2, <1>3, <1>4, <1>5, <1>6, <1>7, <1>8, <1>9

LEMMA KeptByMask ==
  ASSUME NEW D \in DevRecs, CardInv(D), D.pc = "mask", NEW I \in CardRecs,
         \A kind \in {"user", "config", "bypass"} : I[kind] = D.card[kind], NEW E,
         E = [[D EXCEPT !.chOn = FALSE, !.userOn = FALSE, !.card = I] EXCEPT !.pc = "engines"]
  PROVE  E \in DevRecs /\ CardInv(E)
<1> USE DEF DevRecs, CardInv
<1>1. E \in DevRecs
  BY ZenonT(40) DEF Stages
<1>2. StageInv(E)
  BY DEF StageInv, Early, InUse, Ends1
<1>3. HeldInv(E)
  BY DEF HeldInv, HasRegion, Mapped, HasEng, HasVec
<1>4. PowerInv(E)
  BY DEF PowerInv, Early, Powered, Unpowered, Falling, InUse, Ends1, StageInv
<1>5. IrqInv(E)
  BY DEF IrqInv, Early, InUse, Ends1, Ends2, StageInv, Orderly
<1>6. MaskInv(E)
  BY DEF MaskInv, Early, InUse, Live, StageInv, Orderly
<1>7. NodeInv(E)
  BY DEF NodeInv, Early, Ends1, Ends2, InUse, StageInv, NoNodes
<1>8. BarInv(E)
  BY DEF BarInv, Mapped
<1>9. UseInv(E)
  BY DEF UseInv, Orderly, StageInv, Early, InUse, Ends1
<1> QED
  BY <1>1, <1>2, <1>3, <1>4, <1>5, <1>6, <1>7, <1>8, <1>9

LEMMA KeptByChannelsEnd ==
  ASSUME NEW D \in DevRecs, CardInv(D), D.pc = "engines", NEW pcN \in {"engines", "vectors"}, NEW E,
         E = [[D EXCEPT !.dir = "c2h"] EXCEPT !.pc = pcN]
  PROVE  E \in DevRecs /\ CardInv(E)
<1> USE DEF DevRecs, CardInv
<1>0. Handlers(E) = Handlers(D)
  BY DEF Handlers, Channels, UserHandlers
<1>1. E \in DevRecs
  BY ZenonT(40) DEF Stages
<1>2. StageInv(E)
  BY <1>0 DEF StageInv, Early, InUse, Ends1
<1>3. HeldInv(E)
  BY <1>0 DEF HeldInv, HasRegion, Mapped, HasEng, HasVec
<1>4. PowerInv(E)
  BY <1>0 DEF PowerInv, Early, Powered, Unpowered, Falling, InUse, Ends1, StageInv
<1>5. IrqInv(E)
  BY <1>0 DEF IrqInv, Early, InUse, Ends1, Ends2, StageInv, Orderly
<1>6. MaskInv(E)
  BY <1>0 DEF MaskInv, Early, InUse, Live, StageInv, Orderly
<1>7. NodeInv(E)
  BY <1>0 DEF NodeInv, Early, Ends1, Ends2, InUse, StageInv, NoNodes
<1>8. BarInv(E)
  BY <1>0 DEF BarInv, Mapped
<1>9. UseInv(E)
  BY <1>0 DEF UseInv, Orderly, StageInv, Early, InUse, Ends1
<1> QED
  BY <1>1, <1>2, <1>3, <1>4, <1>5, <1>6, <1>7, <1>8, <1>9

LEMMA KeptByVectors ==
  ASSUME NEW D \in DevRecs, CardInv(D), D.pc = "vectors", NEW v \in BOOLEAN, NEW E,
         E = [[D EXCEPT !.vectors = v] EXCEPT !.pc = "irqs"]
  PROVE  E \in DevRecs /\ CardInv(E)
<1> USE DEF DevRecs, CardInv
<1>0. Handlers(E) = Handlers(D)
  BY DEF Handlers, Channels, UserHandlers
<1>1. E \in DevRecs
  BY ZenonT(40) DEF Stages
<1>2. StageInv(E)
  BY <1>0 DEF StageInv, Early, InUse, Ends1
<1>3. HeldInv(E)
  BY <1>0 DEF HeldInv, HasRegion, Mapped, HasEng, HasVec
<1>4. PowerInv(E)
  BY <1>0 DEF PowerInv, Early, Powered, Unpowered, Falling, InUse, Ends1, StageInv
<1>5. IrqInv(E)
  BY <1>0 DEF IrqInv, Early, InUse, Ends1, Ends2, StageInv, Orderly
<1>6. MaskInv(E)
  BY <1>0 DEF MaskInv, Early, InUse, Live, StageInv, Orderly
<1>7. NodeInv(E)
  BY <1>0 DEF NodeInv, Early, Ends1, Ends2, InUse, StageInv, NoNodes
<1>8. BarInv(E)
  BY <1>0 DEF BarInv, Mapped
<1>9. UseInv(E)
  BY <1>0 DEF UseInv, Orderly, StageInv, Early, InUse, Ends1
<1> QED
  BY <1>1, <1>2, <1>3, <1>4, <1>5, <1>6, <1>7, <1>8, <1>9

LEMMA KeptByIrqFailure ==
  ASSUME NEW D \in DevRecs, CardInv(D), D.pc = "irqs", NEW got \in SUBSET Ids, NEW E,
         E = [[D EXCEPT !.fault = "irqs", !.irqs = got, !.lines = got] EXCEPT !.pc = "undo_vectors"]
  PROVE  E \in DevRecs /\ CardInv(E)
<1> USE DEF DevRecs, CardInv
<1>0. Handlers(E) = Handlers(D)
  BY DEF Handlers, Channels, UserHandlers
<1>1. E \in DevRecs
  BY ZenonT(40) DEF Stages, Faults
<1>2. StageInv(E)
  BY <1>0 DEF StageInv, Early, InUse, Ends1
<1>3. HeldInv(E)
  BY <1>0 DEF HeldInv, HasRegion, Mapped, HasEng, HasVec
<1>4. PowerInv(E)
  BY <1>0 DEF PowerInv, Early, Powered, Unpowered, Falling, InUse, Ends1, StageInv
<1>5. IrqInv(E)
  BY <1>0 DEF IrqInv, Early, InUse, Ends1, Ends2, StageInv, Orderly
<1>6. MaskInv(E)
  BY <1>0 DEF MaskInv, Early, InUse, Live, StageInv, Orderly
<1>7. NodeInv(E)
  BY <1>0 DEF NodeInv, Early, Ends1, Ends2, InUse, StageInv, NoNodes
<1>8. BarInv(E)
  BY <1>0 DEF BarInv, Mapped
<1>9. UseInv(E)
  BY <1>0 DEF UseInv, Orderly, StageInv, Early, InUse, Ends1
<1> QED
  BY <1>1, <1>2, <1>3, <1>4, <1>5, <1>6, <1>7, <1>8, <1>9

\* The steps of removal
LEMMA KeptByUnmap ==
  ASSUME NEW D \in DevRecs, CardInv(D),
         (D.pc = "undo_engines" /\ D.eng = {}) \/ D.pc = "undo_bars", NEW E,
         E = [[D EXCEPT !.bars = {}] EXCEPT !.pc = "undo_regions"]
  PROVE  E \in DevRecs /\ CardInv(E)
<1> USE DEF DevRecs, CardInv
<1>0. Handlers(E) = Handlers(D)
  BY DEF Handlers, Channels, UserHandlers
<1>1. E \in DevRecs
  BY ZenonT(40) DEF Stages
<1>2. StageInv(E)
  BY <1>0 DEF StageInv, Early, InUse, Ends1
<1>3. HeldInv(E)
  BY <1>0 DEF HeldInv, HasRegion, Mapped, HasEng, HasVec
<1>4. PowerInv(E)
  BY <1>0 DEF PowerInv, Early, Powered, Unpowered, Falling, InUse, Ends1, StageInv
<1>5. IrqInv(E)
  BY <1>0 DEF IrqInv, Early, InUse, Ends1, Ends2, StageInv, Orderly
<1>6. MaskInv(E)
  BY <1>0 DEF MaskInv, Early, InUse, Live, StageInv, Orderly
<1>7. NodeInv(E)
  BY <1>0 DEF NodeInv, Early, Ends1, Ends2, InUse, StageInv, NoNodes
<1>8. BarInv(E)
  BY <1>0 DEF BarInv, Mapped
<1>9. UseInv(E)
  BY <1>0 DEF UseInv, Orderly, StageInv, Early, InUse, Ends1
<1> QED
  BY <1>1, <1>2, <1>3, <1>4, <1>5, <1>6, <1>7, <1>8, <1>9

LEMMA KeptByRelease ==
  ASSUME NEW D \in DevRecs, CardInv(D), D.pc = "undo_regions", NEW E,
         E = [[D EXCEPT !.regions = FALSE] EXCEPT !.pc = "undo_device"]
  PROVE  E \in DevRecs /\ CardInv(E)
<1> USE DEF DevRecs, CardInv
<1>0. Handlers(E) = Handlers(D)
  BY DEF Handlers, Channels, UserHandlers
<1>1. E \in DevRecs
  BY ZenonT(40) DEF Stages
<1>2. StageInv(E)
  BY <1>0 DEF StageInv, Early, InUse, Ends1
<1>3. HeldInv(E)
  BY <1>0 DEF HeldInv, HasRegion, Mapped, HasEng, HasVec
<1>4. PowerInv(E)
  BY <1>0 DEF PowerInv, Early, Powered, Unpowered, Falling, InUse, Ends1, StageInv
<1>5. IrqInv(E)
  BY <1>0 DEF IrqInv, Early, InUse, Ends1, Ends2, StageInv, Orderly
<1>6. MaskInv(E)
  BY <1>0 DEF MaskInv, Early, InUse, Live, StageInv, Orderly
<1>7. NodeInv(E)
  BY <1>0 DEF NodeInv, Early, Ends1, Ends2, InUse, StageInv, NoNodes
<1>8. BarInv(E)
  BY <1>0 DEF BarInv, Mapped
<1>9. UseInv(E)
  BY <1>0 DEF UseInv, Orderly, StageInv, Early, InUse, Ends1
<1> QED
  BY <1>1, <1>2, <1>3, <1>4, <1>5, <1>6, <1>7, <1>8, <1>9

LEMMA KeptByDisable ==
  ASSUME NEW D \in DevRecs, CardInv(D), D.pc = "undo_device",
         NEW n, n = IF D.inUse THEN D.enabled ELSE D.enabled - 1, NEW E,
         E = [[D EXCEPT !.enabled = n] EXCEPT !.pc = "undo_list"]
  PROVE  E \in DevRecs /\ CardInv(E)
<1> USE DEF DevRecs, CardInv
<1>a. n \in -1..1
  BY DEF PowerInv, Falling
<1>0. Handlers(E) = Handlers(D)
  BY DEF Handlers, Channels, UserHandlers
<1>1. E \in DevRecs
  BY <1>a, ZenonT(40) DEF Stages
<1>2. StageInv(E)
  BY <1>0 DEF StageInv, Early, InUse, Ends1
<1>3. HeldInv(E)
  BY <1>0 DEF HeldInv, HasRegion, Mapped, HasEng, HasVec
<1>4. PowerInv(E)
  BY <1>0 DEF PowerInv, Early, Powered, Unpowered, Falling, InUse, Ends1, StageInv
<1>5. IrqInv(E)
  BY <1>0 DEF IrqInv, Early, InUse, Ends1, Ends2, StageInv, Orderly
<1>6. MaskInv(E)
  BY <1>0 DEF MaskInv, Early, InUse, Live, StageInv, Orderly
<1>7. NodeInv(E)
  BY <1>0 DEF NodeInv, Early, Ends1, Ends2, InUse, StageInv, NoNodes
<1>8. BarInv(E)
  BY <1>0 DEF BarInv, Mapped
<1>9. UseInv(E)
  BY <1>0 DEF UseInv, Orderly, StageInv, Early, InUse, Ends1
<1> QED
  BY <1>1, <1>2, <1>3, <1>4, <1>5, <1>6, <1>7, <1>8, <1>9

LEMMA KeptByListRemove ==
  ASSUME NEW D \in DevRecs, CardInv(D), D.pc = "undo_list", NEW E,
         E = [D EXCEPT !.pc = "undo_free"]
  PROVE  E \in DevRecs /\ CardInv(E)
<1> USE DEF DevRecs, CardInv
<1>0. Handlers(E) = Handlers(D)
  BY DEF Handlers, Channels, UserHandlers
<1>1. E \in DevRecs
  BY DEF Stages
<1>2. StageInv(E)
  BY <1>0 DEF StageInv, Early, InUse, Ends1
<1>3. HeldInv(E)
  BY <1>0 DEF HeldInv, HasRegion, Mapped, HasEng, HasVec
<1>4. PowerInv(E)
  BY <1>0 DEF PowerInv, Early, Powered, Unpowered, Falling, InUse, Ends1, StageInv
<1>5. IrqInv(E)
  BY <1>0 DEF IrqInv, Early, InUse, Ends1, Ends2, StageInv, Orderly
<1>6. MaskInv(E)
  BY <1>0 DEF MaskInv, Early, InUse, Live, StageInv, Orderly
<1>7. NodeInv(E)
  BY <1>0 DEF NodeInv, Early, Ends1, Ends2, InUse, StageInv, NoNodes
<1>8. BarInv(E)
  BY <1>0 DEF BarInv, Mapped
<1>9. UseInv(E)
  BY <1>0 DEF UseInv, Orderly, StageInv, Early, InUse, Ends1
<1> QED
  BY <1>1, <1>2, <1>3, <1>4, <1>5, <1>6, <1>7, <1>8, <1>9

LEMMA KeptByFree ==
  ASSUME NEW D \in DevRecs, CardInv(D), D.pc = "undo_free", NEW E,
         E = [[D EXCEPT !.xdev = "freed"] EXCEPT !.pc = "absent"]
  PROVE  E \in DevRecs /\ CardInv(E)
<1> USE DEF DevRecs, CardInv
<1>0. Handlers(E) = Handlers(D)
  BY DEF Handlers, Channels, UserHandlers
<1>1. E \in DevRecs
  BY ZenonT(40) DEF Stages
<1>2. StageInv(E)
  BY <1>0 DEF StageInv, Early, InUse, Ends1
<1>3. HeldInv(E)
  BY <1>0 DEF HeldInv, HasRegion, Mapped, HasEng, HasVec
<1>4. PowerInv(E)
  BY <1>0 DEF PowerInv, Early, Powered, Unpowered, Falling, InUse, Ends1, StageInv
<1>5. IrqInv(E)
  BY <1>0 DEF IrqInv, Early, InUse, Ends1, Ends2, StageInv, Orderly
<1>6. MaskInv(E)
  BY <1>0 DEF MaskInv, Early, InUse, Live, StageInv, Orderly
<1>7. NodeInv(E)
  BY <1>0 DEF NodeInv, Early, Ends1, Ends2, InUse, StageInv, NoNodes
<1>8. BarInv(E)
  BY <1>0 DEF BarInv, Mapped
<1>9. UseInv(E)
  BY <1>0 DEF UseInv, Orderly, StageInv, Early, InUse, Ends1
<1> QED
  BY <1>1, <1>2, <1>3, <1>4, <1>5, <1>6, <1>7, <1>8, <1>9

LEMMA KeptByVectorsOff ==
  ASSUME NEW D \in DevRecs, CardInv(D), D.pc = "undo_vectors", NEW m \in SUBSET Misuses,
         Orderly(D) /\ D.fault # "irqs" => m = D.misuse, NEW E,
         E = [[D EXCEPT !.vectors = FALSE, !.misuse = m] EXCEPT !.pc = "undo_engines"]
  PROVE  E \in DevRecs /\ CardInv(E)
<1> USE DEF DevRecs, CardInv
<1>0. Handlers(E) = Handlers(D)
  BY DEF Handlers, Channels, UserHandlers
<1>1. E \in DevRecs
  BY ZenonT(40) DEF Stages
<1>2. StageInv(E)
  BY <1>0 DEF StageInv, Early, InUse, Ends1
<1>3. HeldInv(E)
  BY <1>0 DEF HeldInv, HasRegion, Mapped, HasEng, HasVec
<1>4. PowerInv(E)
  BY <1>0 DEF PowerInv, Early, Powered, Unpowered, Falling, InUse, Ends1, StageInv
<1>5. IrqInv(E)
  BY <1>0 DEF IrqInv, Early, InUse, Ends1, Ends2, StageInv, Orderly
<1>6. MaskInv(E)
  BY <1>0 DEF MaskInv, Early, InUse, Live, StageInv, Orderly
<1>7. NodeInv(E)
  BY <1>0 DEF NodeInv, Early, Ends1, Ends2, InUse, StageInv, NoNodes
<1>8. BarInv(E)
  BY <1>0 DEF BarInv, Mapped
<1>9. UseInv(E)
  BY <1>0 DEF UseInv, Orderly, StageInv, Early, InUse, Ends1
<1> QED
  BY <1>1, <1>2, <1>3, <1>4, <1>5, <1>6, <1>7, <1>8, <1>9

\* A new card
LEMMA TypedNew ==
  ASSUME NEW g \in 0..MaxProbes
  PROVE  [[NewDev EXCEPT !.gen = g, !.xdev = "live"] EXCEPT !.pc = "list"] \in DevRecs
<1>1. NoCard \in CardRecs
  BY DEF NoCard, CardRecs
<1>2. NoNodes \in NodeRecs
  BY DEF NoNodes, NodeRecs
<1>3. 0 \in 0..MaxResets /\ 0 \in 0..(MaxResets + 1) /\ 0 \in -1..1
  BY DeviceAssumption
<1>4. "list" \in Stages /\ "none" \in Faults
  BY DEF Stages, Faults
<1> QED
  BY <1>1, <1>2, <1>3, <1>4, ZenonT(40) DEF NewDev, DevRecs

LEMMA KeptByProbeStart ==
  ASSUME NEW g \in 0..MaxProbes, g > 0, NEW E,
         E = [[NewDev EXCEPT !.gen = g, !.xdev = "live"] EXCEPT !.pc = "list"]
  PROVE  E \in DevRecs /\ CardInv(E)
<1>1. E \in DevRecs
  BY TypedNew, Zenon
<1> USE DEF DevRecs, CardInv, NewDev
<1>2. StageInv(E)
  BY DEF StageInv, Early, InUse, Ends1
<1>3. HeldInv(E)
  BY DEF HeldInv, HasRegion, Mapped, HasEng, HasVec
<1>4. PowerInv(E)
  BY DEF PowerInv, Early, Powered, Unpowered, Falling, InUse, Ends1, StageInv
<1>5. IrqInv(E)
  BY DEF IrqInv, Early, InUse, Ends1, Ends2, StageInv, Orderly
<1>6. MaskInv(E)
  BY DEF MaskInv, Early, InUse, Live, StageInv, Orderly
<1>7. NodeInv(E)
  BY DEF NodeInv, Early, Ends1, Ends2, InUse, NoNodes
<1>8. BarInv(E)
  BY DEF BarInv, Mapped
<1>9. UseInv(E)
  BY DEF UseInv, Orderly, StageInv, Early, InUse, Ends1
<1> QED
  BY <1>1, <1>2, <1>3, <1>4, <1>5, <1>6, <1>7, <1>8, <1>9

\* An engine, the handlers, the user interrupts
LEMMA KeptByEngine ==
  ASSUME NEW D \in DevRecs, CardInv(D), D.pc = "engines", NEW I \in CardRecs,
         \A kind \in {"user", "config", "bypass"} : I[kind] = D.card[kind],
         NEW G \in SUBSET Ids, \A e \in G : e[1] \in {"h2c", "c2h"} /\ e[2] < I[e[1]], NEW E,
         E = [[D EXCEPT !.card = I, !.eng = G] EXCEPT !.pc = "engines"]
  PROVE  E \in DevRecs /\ CardInv(E)
<1> USE DEF DevRecs, CardInv
<1>1. E \in DevRecs
  BY ZenonT(40) DEF Stages
<1>2. StageInv(E)
  BY DEF StageInv, Early, InUse, Ends1
<1>3. HeldInv(E)
  BY DEF HeldInv, HasRegion, Mapped, HasEng, HasVec
<1>4. PowerInv(E)
  BY DEF PowerInv, Early, Powered, Unpowered, Falling, InUse, Ends1, StageInv
<1>5. IrqInv(E)
  BY DEF IrqInv, Early, InUse, Ends1, Ends2, StageInv, Orderly
<1>6. MaskInv(E)
  BY DEF MaskInv, Early, InUse, Live, StageInv, Orderly
<1>7. NodeInv(E)
  BY DEF NodeInv, Early, Ends1, Ends2, InUse, StageInv, NoNodes
<1>8. BarInv(E)
  BY DEF BarInv, Mapped
<1>9. UseInv(E)
  BY DEF UseInv, Orderly, StageInv, Early, InUse, Ends1
<1> QED
  BY <1>1, <1>2, <1>3, <1>4, <1>5, <1>6, <1>7, <1>8, <1>9

LEMMA TypedByIrqs ==
  ASSUME NEW D \in DevRecs, NEW c \in BOOLEAN, NEW H \in SUBSET Ids
  PROVE  [[[D EXCEPT !.irqs = H, !.lines = H] EXCEPT !.chOn = c, !.offline = FALSE]
            EXCEPT !.pc = "users"] \in DevRecs
BY ZenonT(40) DEF DevRecs, Stages

LEMMA KeptByIrqs ==
  ASSUME NEW D \in DevRecs, CardInv(D), D.pc = "irqs", NEW c \in BOOLEAN, c <=> ~load.poll,
         NEW H \in SUBSET Ids, H = Handlers(D), NEW E,
         E = [[[D EXCEPT !.irqs = H, !.lines = H] EXCEPT !.chOn = c, !.offline = FALSE]
                EXCEPT !.pc = "users"]
  PROVE  E \in DevRecs /\ CardInv(E)
<1>1. E \in DevRecs
  BY TypedByIrqs, Zenon
<1> USE DEF DevRecs, CardInv
<1>0. Handlers(E) = Handlers(D)
  BY DEF Handlers, Channels, UserHandlers
<1>2. StageInv(E)
  BY <1>0 DEF StageInv, Early, InUse, Ends1
<1>3. HeldInv(E)
  BY <1>0 DEF HeldInv, HasRegion, Mapped, HasEng, HasVec
<1>4. PowerInv(E)
  BY <1>0 DEF PowerInv, Early, Powered, Unpowered, Falling, InUse, Ends1, StageInv
<1>5. IrqInv(E)
  BY <1>0 DEF IrqInv, Early, InUse, Ends1, Ends2, StageInv, Orderly
<1>6. MaskInv(E)
  BY <1>0 DEF MaskInv, Early, InUse, Live, StageInv, Orderly
<1>7. NodeInv(E)
  BY <1>0 DEF NodeInv, Early, Ends1, Ends2, InUse, StageInv, NoNodes
<1>8. BarInv(E)
  BY <1>0 DEF BarInv, Mapped
<1>9. UseInv(E)
  BY <1>0 DEF UseInv, Orderly, StageInv, Early, InUse, Ends1
<1> QED
  BY <1>1, <1>2, <1>3, <1>4, <1>5, <1>6, <1>7, <1>8, <1>9

LEMMA KeptByUsers ==
  ASSUME NEW D \in DevRecs, CardInv(D), D.pc = "users",
         NEW u \in BOOLEAN, D.card.users > 0 => u, NEW E,
         E = [[D EXCEPT !.userOn = u] EXCEPT !.pc = "nodes"]
  PROVE  E \in DevRecs /\ CardInv(E)
<1> USE DEF DevRecs, CardInv
<1>0. Handlers(E) = Handlers(D)
  BY DEF Handlers, Channels, UserHandlers
<1>1. E \in DevRecs
  BY ZenonT(40) DEF Stages
<1>2. StageInv(E)
  BY <1>0 DEF StageInv, Early, InUse, Ends1
<1>3. HeldInv(E)
  BY <1>0 DEF HeldInv, HasRegion, Mapped, HasEng, HasVec
<1>4. PowerInv(E)
  BY <1>0 DEF PowerInv, Early, Powered, Unpowered, Falling, InUse, Ends1, StageInv
<1>5. IrqInv(E)
  BY <1>0 DEF IrqInv, Early, InUse, Ends1, Ends2, StageInv, Orderly
<1>6. MaskInv(E)
  BY <1>0 DEF MaskInv, Early, InUse, Live, StageInv, Orderly
<1>7. NodeInv(E)
  <2>1. 0 \in 0..(Len(NodeSeq(D.card)) - 1) /\ FirstNodes(D.card, 0) = {}
    BY NodesPlain DEF FirstNodes
  <2> QED
    <3>1. D.N = NoNodes
      BY DEF NodeInv, Early
    <3>2. E.pc = "nodes" /\ E.N = NoNodes /\ E.card = D.card
      BY <3>1
    <3>3. NoNodes.nodes = {} /\ NoNodes.dead = {} /\ ~NoNodes.twice
      BY DEF NoNodes
    <3>4. \E k \in 0..(Len(NodeSeq(D.card)) - 1) : {} = FirstNodes(D.card, k)
      BY <2>1
    <3> HIDE DEF DevRecs, CardInv
    <3> QED
      BY <3>2, <3>3, <3>4 DEF NodeInv, Early, Ends1, Ends2
<1>8. BarInv(E)
  BY <1>0 DEF BarInv, Mapped
<1>9. UseInv(E)
  BY <1>0 DEF UseInv, Orderly, StageInv, Early, InUse, Ends1
<1> QED
  BY <1>1, <1>2, <1>3, <1>4, <1>5, <1>6, <1>7, <1>8, <1>9

\* The devices
LEMMA KeptByNode ==
  ASSUME NEW D \in DevRecs, CardInv(D), D.pc = "nodes", NEW M \in NodeRecs, M.dead = {}, ~M.twice,
         M.nodes \subseteq AllNodes(D.card), NEW pcN \in {"nodes", "bound"},
         pcN = "nodes" => \E k \in 0..(Len(NodeSeq(D.card)) - 1) : M.nodes = FirstNodes(D.card, k),
         pcN = "bound" => M.nodes = AllNodes(D.card), NEW E,
         E = [[D EXCEPT !.N = M] EXCEPT !.pc = pcN]
  PROVE  E \in DevRecs /\ CardInv(E)
<1> USE DEF DevRecs, CardInv
<1>0. Handlers(E) = Handlers(D)
  BY DEF Handlers, Channels, UserHandlers
<1>1. E \in DevRecs
  BY ZenonT(40) DEF Stages
<1>2. StageInv(E)
  BY <1>0 DEF StageInv, Early, InUse, Ends1
<1>3. HeldInv(E)
  BY <1>0 DEF HeldInv, HasRegion, Mapped, HasEng, HasVec
<1>4. PowerInv(E)
  BY <1>0 DEF PowerInv, Early, Powered, Unpowered, Falling, InUse, Ends1, StageInv
<1>5. IrqInv(E)
  <2>1. CASE pcN = "nodes"
    BY <1>0, <2>1 DEF IrqInv, Early, InUse, Ends1, Ends2, Orderly
  <2>2. CASE pcN = "bound"
    BY <1>0, <2>2 DEF IrqInv, PowerInv, Early, InUse, Ends1, Ends2, Orderly
  <2> QED
    BY <2>1, <2>2
<1>6. MaskInv(E)
  BY <1>0 DEF MaskInv, Early, InUse, Live, StageInv, Orderly
<1>7. NodeInv(E)
  BY <1>0 DEF NodeInv, Early, Ends1, Ends2, InUse, StageInv, NoNodes
<1>8. BarInv(E)
  BY <1>0 DEF BarInv, Mapped
<1>9. UseInv(E)
  BY <1>0 DEF UseInv, Orderly, StageInv, Early, InUse, Ends1
<1> QED
  BY <1>1, <1>2, <1>3, <1>4, <1>5, <1>6, <1>7, <1>8, <1>9

LEMMA TypedByNodeFailure ==
  ASSUME NEW D \in DevRecs, NEW M \in NodeRecs, NEW q \in BOOLEAN
  PROVE  [[D EXCEPT !.fault = "nodes", !.N = M, !.paired = q]
           EXCEPT !.pc = "undo_nodes"] \in DevRecs
BY ZenonT(40) DEF DevRecs, Stages, Faults

LEMMA KeptByNodeFailure ==
  ASSUME NEW D \in DevRecs, CardInv(D), D.pc = "nodes",
         NEW M \in NodeRecs, M.nodes \subseteq D.N.nodes,
         NEW q \in BOOLEAN, q <=> D.paired /\ ~D.offline, NEW E,
         E = [[D EXCEPT !.fault = "nodes", !.N = M, !.paired = q] EXCEPT !.pc = "undo_nodes"]
  PROVE  E \in DevRecs /\ CardInv(E)
<1>1. E \in DevRecs
  BY TypedByNodeFailure, Zenon
<1> USE DEF DevRecs, CardInv
<1>0. Handlers(E) = Handlers(D)
  BY DEF Handlers, Channels, UserHandlers
<1>2. StageInv(E)
  BY <1>0 DEF StageInv, Early, InUse, Ends1
<1>3. HeldInv(E)
  BY <1>0 DEF HeldInv, HasRegion, Mapped, HasEng, HasVec
<1>4. PowerInv(E)
  BY <1>0 DEF PowerInv, Early, Powered, Unpowered, Falling, InUse, Ends1, StageInv
<1>5. IrqInv(E)
  BY <1>0 DEF IrqInv, Early, InUse, Ends1, Ends2, StageInv, Orderly
<1>6. MaskInv(E)
  BY <1>0 DEF MaskInv, Early, InUse, Live, StageInv, Orderly
<1>7. NodeInv(E)
  BY <1>0 DEF NodeInv, Early, Ends1, Ends2, InUse, StageInv, NoNodes
<1>8. BarInv(E)
  BY <1>0 DEF BarInv, Mapped
<1>9. UseInv(E)
  BY <1>0 DEF UseInv, Orderly, StageInv, Early, InUse, Ends1
<1> QED
  BY <1>1, <1>2, <1>3, <1>4, <1>5, <1>6, <1>7, <1>8, <1>9

LEMMA TypedByRemove ==
  ASSUME NEW D \in DevRecs, NEW q \in BOOLEAN
  PROVE  [[D EXCEPT !.paired = q] EXCEPT !.pc = "undo_nodes"] \in DevRecs
BY ZenonT(40) DEF DevRecs, Stages

LEMMA KeptByRemove ==
  ASSUME NEW D \in DevRecs, CardInv(D), D.pc = "bound",
         NEW q \in BOOLEAN, q <=> D.paired /\ ~D.offline /\ ~D.frozen, NEW E,
         E = [[D EXCEPT !.paired = q] EXCEPT !.pc = "undo_nodes"]
  PROVE  E \in DevRecs /\ CardInv(E)
<1>1. E \in DevRecs
  BY TypedByRemove, Zenon
<1> USE DEF DevRecs, CardInv
<1>0. Handlers(E) = Handlers(D)
  BY DEF Handlers, Channels, UserHandlers
<1>2. StageInv(E)
  BY <1>0 DEF StageInv, Early, InUse, Ends1
<1>3. HeldInv(E)
  BY <1>0 DEF HeldInv, HasRegion, Mapped, HasEng, HasVec
<1>4. PowerInv(E)
  BY <1>0 DEF PowerInv, Early, Powered, Unpowered, Falling, InUse, Ends1, StageInv
<1>5. IrqInv(E)
  BY <1>0 DEF IrqInv, Early, InUse, Ends1, Ends2, StageInv, Orderly
<1>6. MaskInv(E)
  BY <1>0 DEF MaskInv, Early, InUse, Live, StageInv, Orderly
<1>7. NodeInv(E)
  BY <1>0 DEF NodeInv, Early, Ends1, Ends2, InUse, StageInv, NoNodes
<1>8. BarInv(E)
  BY <1>0 DEF BarInv, Mapped
<1>9. UseInv(E)
  BY <1>0 DEF UseInv, Orderly, StageInv, Early, InUse, Ends1
<1> QED
  BY <1>1, <1>2, <1>3, <1>4, <1>5, <1>6, <1>7, <1>8, <1>9

LEMMA KeptByDestroy ==
  ASSUME NEW D \in DevRecs, CardInv(D), D.pc = "undo_nodes",
         NEW M \in NodeRecs, M.nodes \subseteq D.N.nodes, ~M.major,
         D.N.nodes = AllNodes(D.card) /\ D.N.dead = {} /\ ~D.N.twice => M.nodes = {} /\ ~M.twice,
         NEW E,
         E = [[D EXCEPT !.N = M] EXCEPT !.pc = "undo_masks"]
  PROVE  E \in DevRecs /\ CardInv(E)
<1> USE DEF DevRecs, CardInv
<1>0. Handlers(E) = Handlers(D)
  BY DEF Handlers, Channels, UserHandlers
<1>1. E \in DevRecs
  BY ZenonT(40) DEF Stages
<1>2. StageInv(E)
  BY <1>0 DEF StageInv, Early, InUse, Ends1
<1>3. HeldInv(E)
  BY <1>0 DEF HeldInv, HasRegion, Mapped, HasEng, HasVec
<1>4. PowerInv(E)
  BY <1>0 DEF PowerInv, Early, Powered, Unpowered, Falling, InUse, Ends1, StageInv
<1>5. IrqInv(E)
  BY <1>0 DEF IrqInv, Early, InUse, Ends1, Ends2, StageInv, Orderly
<1>6. MaskInv(E)
  BY <1>0 DEF MaskInv, Early, InUse, Live, StageInv, Orderly
<1>7. NodeInv(E)
  BY <1>0 DEF NodeInv, Early, Ends1, Ends2, InUse, StageInv, NoNodes
<1>8. BarInv(E)
  BY <1>0 DEF BarInv, Mapped
<1>9. UseInv(E)
  BY <1>0 DEF UseInv, Orderly, StageInv, Early, InUse, Ends1
<1> QED
  BY <1>1, <1>2, <1>3, <1>4, <1>5, <1>6, <1>7, <1>8, <1>9

\* The interrupts
LEMMA KeptByMasking ==
  ASSUME NEW D \in DevRecs, CardInv(D), D.pc = "undo_masks", NEW E,
         E = [[D EXCEPT !.chOn = FALSE, !.userOn = FALSE] EXCEPT !.pc = "undo_irqs"]
  PROVE  E \in DevRecs /\ CardInv(E)
<1> USE DEF DevRecs, CardInv
<1>0. Handlers(E) = Handlers(D)
  BY DEF Handlers, Channels, UserHandlers
<1>1. E \in DevRecs
  BY ZenonT(40) DEF Stages
<1>2. StageInv(E)
  BY <1>0 DEF StageInv, Early, InUse, Ends1
<1>3. HeldInv(E)
  BY <1>0 DEF HeldInv, HasRegion, Mapped, HasEng, HasVec
<1>4. PowerInv(E)
  BY <1>0 DEF PowerInv, Early, Powered, Unpowered, Falling, InUse, Ends1, StageInv
<1>5. IrqInv(E)
  BY <1>0 DEF IrqInv, Early, InUse, Ends1, Ends2, StageInv, Orderly
<1>6. MaskInv(E)
  BY <1>0 DEF MaskInv, Early, InUse, Live, StageInv, Orderly
<1>7. NodeInv(E)
  BY <1>0 DEF NodeInv, Early, Ends1, Ends2, InUse, StageInv, NoNodes
<1>8. BarInv(E)
  BY <1>0 DEF BarInv, Mapped
<1>9. UseInv(E)
  BY <1>0 DEF UseInv, Orderly, StageInv, Early, InUse, Ends1
<1> QED
  BY <1>1, <1>2, <1>3, <1>4, <1>5, <1>6, <1>7, <1>8, <1>9

\* Lines that going online could not get are freed all the same.
TwiceMisuse(D) == D.misuse \cup (IF D.partly THEN {"irq twice"} ELSE {})

LEMMA UseOf ==
  ASSUME NEW D, NEW E, UseInv(D), E.fault = D.fault, E.partly = D.partly,
         Orderly(E) => Orderly(D) /\ E.misuse \subseteq TwiceMisuse(D)
  PROVE  UseInv(E)
<1> SUFFICES ASSUME Orderly(E), E.fault # "irqs"
             PROVE  E.misuse \subseteq
                      {"work"} \cup (IF load.unplug \/ D.fault = "nodes" THEN {"file"} ELSE {})
                               \cup (IF D.partly THEN {"irq twice"} ELSE {})
  BY DEF UseInv
<1>1. D.misuse \subseteq
        {"work"} \cup (IF load.unplug \/ D.fault = "nodes" THEN {"file"} ELSE {})
                 \cup (IF D.partly THEN {"irq twice"} ELSE {})
  BY DEF UseInv
<1> QED
  BY <1>1 DEF TwiceMisuse

LEMMA KeptByTeardown ==
  ASSUME NEW D \in DevRecs, CardInv(D), D.pc = "undo_irqs", NEW R \in SUBSET D.irqs,
         NEW n \in 0..(MaxResets + 1),
         NEW m \in SUBSET Misuses, Orderly(D) => R = {} /\ n = 0 /\ m \subseteq TwiceMisuse(D), NEW E,
         E = [[D EXCEPT !.irqs = R, !.shared = n, !.misuse = m] EXCEPT !.pc = "undo_vectors"]
  PROVE  E \in DevRecs /\ CardInv(E)
<1> USE DEF DevRecs, CardInv
<1>0. Handlers(E) = Handlers(D)
  BY DEF Handlers, Channels, UserHandlers
<1>1. E \in DevRecs
  BY ZenonT(40) DEF Stages
<1>2. StageInv(E)
  BY <1>0 DEF StageInv, Early, InUse, Ends1
<1>3. HeldInv(E)
  BY <1>0 DEF HeldInv, HasRegion, Mapped, HasEng, HasVec
<1>4. PowerInv(E)
  BY <1>0 DEF PowerInv, Early, Powered, Unpowered, Falling, InUse, Ends1, StageInv
<1>5. IrqInv(E)
  BY <1>0 DEF IrqInv, Early, InUse, Ends1, Ends2, StageInv, Orderly
<1>6. MaskInv(E)
  BY <1>0 DEF MaskInv, Early, InUse, Live, StageInv, Orderly
<1>7. NodeInv(E)
  BY <1>0 DEF NodeInv, Early, Ends1, Ends2, InUse, StageInv, NoNodes
<1>8. BarInv(E)
  BY <1>0 DEF BarInv, Mapped
<1>9. UseInv(E)
  BY <1>0 DEF UseInv, Orderly, StageInv, Early, InUse, Ends1, TwiceMisuse
<1> QED
  BY <1>1, <1>2, <1>3, <1>4, <1>5, <1>6, <1>7, <1>8, <1>9

\* An engine goes.
LEMMA KeptByRemoval ==
  ASSUME NEW D \in DevRecs, CardInv(D), D.pc = "undo_engines", NEW G \in SUBSET D.eng, NEW E,
         E = [[D EXCEPT !.eng = G] EXCEPT !.pc = "undo_engines"]
  PROVE  E \in DevRecs /\ CardInv(E)
<1> USE DEF DevRecs, CardInv
<1>0. Handlers(E) = Handlers(D)
  BY DEF Handlers, Channels, UserHandlers
<1>1. E \in DevRecs
  BY ZenonT(40) DEF Stages
<1>2. StageInv(E)
  BY <1>0 DEF StageInv, Early, InUse, Ends1
<1>3. HeldInv(E)
  BY <1>0 DEF HeldInv, HasRegion, Mapped, HasEng, HasVec
<1>4. PowerInv(E)
  BY <1>0 DEF PowerInv, Early, Powered, Unpowered, Falling, InUse, Ends1, StageInv
<1>5. IrqInv(E)
  BY <1>0 DEF IrqInv, Early, InUse, Ends1, Ends2, StageInv, Orderly
<1>6. MaskInv(E)
  BY <1>0 DEF MaskInv, Early, InUse, Live, StageInv, Orderly
<1>7. NodeInv(E)
  BY <1>0 DEF NodeInv, Early, Ends1, Ends2, InUse, StageInv, NoNodes
<1>8. BarInv(E)
  BY <1>0 DEF BarInv, Mapped
<1>9. UseInv(E)
  BY <1>0 DEF UseInv, Orderly, StageInv, Early, InUse, Ends1
<1> QED
  BY <1>1, <1>2, <1>3, <1>4, <1>5, <1>6, <1>7, <1>8, <1>9

\* The card is used.
LEMMA KeptByUse ==
  ASSUME NEW D \in DevRecs, CardInv(D), NEW m \in SUBSET Misuses, NEW w \in SUBSET Ids,
         NEW v \in SUBSET Nat,
         Orderly(D) /\ D.fault # "irqs" => m \subseteq D.misuse \cup {"work"}
           \cup (IF load.unplug \/ D.fault = "nodes" THEN {"file"} ELSE {}), NEW E,
         E = [D EXCEPT !.misuse = m, !.work = w, !.events = v]
  PROVE  E \in DevRecs /\ CardInv(E)
<1> USE DEF DevRecs, CardInv
<1>0. Handlers(E) = Handlers(D)
  BY DEF Handlers, Channels, UserHandlers
<1>1. E \in DevRecs
  BY ZenonT(40) DEF Stages
<1>2. StageInv(E)
  BY <1>0 DEF StageInv, Early, InUse, Ends1
<1>3. HeldInv(E)
  BY <1>0 DEF HeldInv, HasRegion, Mapped, HasEng, HasVec
<1>4. PowerInv(E)
  BY <1>0 DEF PowerInv, Early, Powered, Unpowered, Falling, InUse, Ends1, StageInv
<1>5. IrqInv(E)
  BY <1>0 DEF IrqInv, Early, InUse, Ends1, Ends2, StageInv, Orderly
<1>6. MaskInv(E)
  BY <1>0 DEF MaskInv, Early, InUse, Live, StageInv, Orderly
<1>7. NodeInv(E)
  BY <1>0 DEF NodeInv, Early, Ends1, Ends2, InUse, StageInv, NoNodes
<1>8. BarInv(E)
  BY <1>0 DEF BarInv, Mapped
<1>9. UseInv(E)
  BY <1>0 DEF UseInv, Orderly, StageInv, Early, InUse, Ends1
<1> QED
  BY <1>1, <1>2, <1>3, <1>4, <1>5, <1>6, <1>7, <1>8, <1>9

\* What OfflineDev and OnlineDev give a card
OfflineValues(D, R, n, m, r, q) ==
  /\ R \in {{}, D.irqs} /\ n <= D.shared /\ r > 0
  /\ q <=> D.paired /\ ~D.offline /\ SwitchedInUse(D)
  /\ Orderly(D) /\ ~D.offline /\ SwitchedInUse(D) =>
       R = {} /\ n = 0 /\ m \subseteq TwiceMisuse(D)

OnlineValues(D, R, H, n, m, c, u, q) ==
  /\ R \subseteq H
  /\ q <=> D.paired /\ D.offline /\ SwitchedInUse(D)
  /\ ~load.poll => c
  /\ D.pc \in {"nodes", "bound"} \cup Ends1 => H = Handlers(D) /\ (R \in {{}, H} \/ D.partly)
  /\ D.pc \in {"nodes", "bound"} /\ (load.poll => D.resets = 0) =>
       (R = H \/ D.partly) /\ (D.card.users > 0 => u)
  /\ ~load.poll /\ Orderly(D) /\ D.offline /\ SwitchedInUse(D) => n = 0 /\ m = D.misuse

\* F is what the card D becomes.
OfflineTo(D, F, R, n, m, r, q) ==
  /\ R \in SUBSET Ids /\ n \in 0..(MaxResets + 1) /\ m \in SUBSET Misuses
  /\ r \in 0..MaxResets /\ q \in BOOLEAN
  /\ F = [D EXCEPT !.irqs = R, !.shared = n, !.misuse = m, !.offline = TRUE, !.chOn = FALSE,
                   !.userOn = FALSE, !.resets = r, !.paired = q]
  /\ OfflineValues(D, R, n, m, r, q)

OnlineTo(D, F, R, H, n, m, c, u, q) ==
  /\ R \in SUBSET Ids /\ H \in SUBSET Ids /\ n \in 0..(MaxResets + 1) /\ n <= D.shared + 1
  /\ m \in SUBSET Misuses /\ c \in BOOLEAN /\ u \in BOOLEAN /\ q \in BOOLEAN
  /\ F = [[D EXCEPT !.irqs = R, !.lines = H, !.shared = n, !.misuse = m]
          EXCEPT !.chOn = c, !.userOn = u, !.offline = FALSE, !.paired = q]
  /\ OnlineValues(D, R, H, n, m, c, u, q)

FrozenTo(F, E, frozen, k) == E = [F EXCEPT !.frozen = frozen, !.enabled = k]

\* Offline and online
LEMMA TypedByOffline ==
  ASSUME NEW D \in DevRecs, NEW R \in SUBSET Ids, NEW n \in 0..(MaxResets + 1), NEW m \in
         SUBSET Misuses, NEW r \in 0..MaxResets, NEW q \in BOOLEAN
  PROVE  [D EXCEPT !.irqs = R, !.shared = n, !.misuse = m, !.offline = TRUE, !.chOn = FALSE,
                   !.userOn = FALSE, !.resets = r, !.paired = q] \in DevRecs
BY ZenonT(40) DEF DevRecs, Stages

LEMMA KeptByOffline ==
  ASSUME NEW D \in DevRecs, CardInv(D), D.pc \in {"nodes", "bound"} \cup Ends1 \cup Ends2,
         NEW E, NEW R, NEW n, NEW m, NEW r, NEW q, OfflineTo(D, E, R, n, m, r, q)
  PROVE  E \in DevRecs /\ CardInv(E)
<1> /\ R \in SUBSET Ids /\ n \in 0..(MaxResets + 1) /\ m \in SUBSET Misuses
    /\ r \in 0..MaxResets /\ q \in BOOLEAN /\ OfflineValues(D, R, n, m, r, q)
  BY Zenon DEF OfflineTo
<1> E = [D EXCEPT !.irqs = R, !.shared = n, !.misuse = m, !.offline = TRUE, !.chOn = FALSE,
                  !.userOn = FALSE, !.resets = r, !.paired = q]
  BY Zenon DEF OfflineTo
<1>1. E \in DevRecs
  BY TypedByOffline, Zenon
<1> USE DEF DevRecs, CardInv, OfflineValues
<1>0. Handlers(E) = Handlers(D)
  BY DEF Handlers, Channels, UserHandlers
<1>2. StageInv(E)
  BY <1>0 DEF StageInv, Early, InUse, Ends1, Ends2
<1>3. HeldInv(E)
  BY <1>0 DEF HeldInv, HasRegion, Mapped, HasEng, HasVec
<1>4. PowerInv(E)
  BY <1>0 DEF PowerInv, Early, Powered, Unpowered, Falling, InUse, Ends1, StageInv,
     SwitchedInUse
<1>5. IrqInv(E)
  <2>1. CASE D.pc \in {"nodes", "bound"}
    <3>1. /\ E.pc = D.pc /\ E.irqs = R /\ E.lines = D.lines /\ E.shared = n /\ E.offline = TRUE
          /\ E.resets = r /\ E.paired = q /\ E.frozen = D.frozen
      OBVIOUS
    <3>2. /\ D.irqs \in {{}, D.lines} \/ D.partly
          /\ D.irqs \subseteq D.lines /\ D.lines = Handlers(D)
          /\ D.frozen /\ D.pc = "bound" => D.shared <= MaxResets
      BY <2>1 DEF IrqInv, InUse
    <3>3. /\ R \in {{}, D.lines} \/ D.partly
          /\ R \subseteq D.lines /\ E.partly = D.partly /\ D.shared \in Nat /\ MaxResets \in Nat /\ r # 0
      BY <3>2, DeviceAssumption
    <3>4. Orderly(E) => R = {} /\ n = 0
      BY <3>1, <3>3, <2>1 DEF Orderly, SwitchedInUse
    <3>5. E.frozen /\ E.pc = "bound" => E.shared <= MaxResets
      BY <3>1, <3>2, <3>3
    <3> HIDE DEF DevRecs, CardInv, OfflineValues
    <3> QED
      BY <1>0, <2>1, <3>1, <3>2, <3>3, <3>4, <3>5 DEF IrqInv, Early, InUse, Ends1, Ends2
  <2>2. CASE D.pc \in Ends1
    BY <1>0, <2>2 DEF IrqInv, Early, InUse, Ends1, Ends2, StageInv, Orderly, SwitchedInUse
  <2>3. CASE D.pc \in Ends2
    BY <1>0, <2>3 DEF IrqInv, Early, InUse, Ends1, Ends2, StageInv, Orderly, SwitchedInUse
  <2> QED
    BY <2>1, <2>2, <2>3
<1>6. MaskInv(E)
  BY <1>0 DEF MaskInv, Early, InUse, Live, StageInv, Orderly, SwitchedInUse
<1>7. NodeInv(E)
  BY <1>0 DEF NodeInv, Early, Ends1, Ends2, InUse, StageInv, NoNodes
<1>8. BarInv(E)
  BY <1>0 DEF BarInv, Mapped
<1>9. UseInv(E)
  <2>1. /\ E.fault = D.fault /\ E.partly = D.partly /\ E.misuse = m
        /\ E.resets = r /\ E.paired = q /\ r # 0
    OBVIOUS
  <2>2. Orderly(E) => Orderly(D) /\ m \subseteq TwiceMisuse(D)
    BY <2>1 DEF Orderly
  <2> QED
    BY <2>1, <2>2, UseOf, Zenon
<1> QED
  BY <1>1, <1>2, <1>3, <1>4, <1>5, <1>6, <1>7, <1>8, <1>9

LEMMA TypedByFreeze ==
  ASSUME NEW D \in DevRecs, NEW R \in SUBSET Ids, NEW n \in 0..(MaxResets + 1), NEW m \in
         SUBSET Misuses, NEW r \in 0..MaxResets, NEW q \in BOOLEAN, NEW k \in -1..1
  PROVE  [[D EXCEPT !.irqs = R, !.shared = n, !.misuse = m, !.offline = TRUE, !.chOn = FALSE,
                   !.userOn = FALSE, !.resets = r, !.paired = q]
            EXCEPT !.frozen = TRUE, !.enabled = k] \in DevRecs
BY ZenonT(40) DEF DevRecs, Stages

LEMMA KeptByFreeze ==
  ASSUME NEW D \in DevRecs, CardInv(D), D.pc = "bound", ~D.frozen,
         NEW F, NEW R, NEW n, NEW m, NEW r, NEW q, OfflineTo(D, F, R, n, m, r, q),
         n <= MaxResets, NEW k, k = D.enabled - 1, NEW E, FrozenTo(F, E, TRUE, k)
  PROVE  E \in DevRecs /\ CardInv(E)
<1> /\ R \in SUBSET Ids /\ n \in 0..(MaxResets + 1) /\ m \in SUBSET Misuses
    /\ r \in 0..MaxResets /\ q \in BOOLEAN /\ OfflineValues(D, R, n, m, r, q)
  BY Zenon DEF OfflineTo
<1> E = [[D EXCEPT !.irqs = R, !.shared = n, !.misuse = m, !.offline = TRUE, !.chOn = FALSE,
                   !.userOn = FALSE, !.resets = r, !.paired = q]
         EXCEPT !.frozen = TRUE, !.enabled = k]
  BY Zenon DEF OfflineTo, FrozenTo
<1>a. k \in -1..1
  BY DEF DevRecs, CardInv, PowerInv, Powered
<1>1. E \in DevRecs
  BY <1>a, TypedByFreeze, Zenon
<1> USE DEF DevRecs, CardInv, OfflineValues
<1>0. Handlers(E) = Handlers(D)
  BY DEF Handlers, Channels, UserHandlers
<1>2. StageInv(E)
  BY <1>0 DEF StageInv, Early, InUse, Ends1, Ends2
<1>3. HeldInv(E)
  BY <1>0 DEF HeldInv, HasRegion, Mapped, HasEng, HasVec
<1>4. PowerInv(E)
  BY <1>0 DEF PowerInv, Early, Powered, Unpowered, Falling, InUse, Ends1, StageInv,
     SwitchedInUse
<1>5. IrqInv(E)
  BY <1>0 DEF IrqInv, Early, InUse, Ends1, Ends2, StageInv, Orderly, SwitchedInUse
<1>6. MaskInv(E)
  BY <1>0 DEF MaskInv, Early, InUse, Live, StageInv, Orderly, SwitchedInUse
<1>7. NodeInv(E)
  BY <1>0 DEF NodeInv, Early, Ends1, Ends2, InUse, StageInv, NoNodes
<1>8. BarInv(E)
  BY <1>0 DEF BarInv, Mapped
<1>9. UseInv(E)
  <2>1. /\ E.fault = D.fault /\ E.partly = D.partly /\ E.misuse = m
        /\ E.resets = r /\ E.paired = q /\ r # 0
    OBVIOUS
  <2>2. Orderly(E) => Orderly(D) /\ m \subseteq TwiceMisuse(D)
    BY <2>1 DEF Orderly
  <2> QED
    BY <2>1, <2>2, UseOf, Zenon
<1> QED
  BY <1>1, <1>2, <1>3, <1>4, <1>5, <1>6, <1>7, <1>8, <1>9

LEMMA TypedHandlers ==
  ASSUME NEW D \in DevRecs, NEW R \in SUBSET Ids, NEW H \in SUBSET Ids,
         NEW n \in 0..(MaxResets + 1), NEW m \in SUBSET Misuses
  PROVE  [D EXCEPT !.irqs = R, !.lines = H, !.shared = n, !.misuse = m] \in DevRecs
BY ZenonT(40) DEF DevRecs

LEMMA TypedSwitched ==
  ASSUME NEW D \in DevRecs, NEW c \in BOOLEAN, NEW u \in BOOLEAN, NEW q \in BOOLEAN
  PROVE  [D EXCEPT !.chOn = c, !.userOn = u, !.offline = FALSE, !.paired = q] \in DevRecs
BY ZenonT(40) DEF DevRecs

LEMMA TypedThawed ==
  ASSUME NEW D \in DevRecs, NEW k \in -1..1
  PROVE  [D EXCEPT !.frozen = FALSE, !.enabled = k] \in DevRecs
BY ZenonT(40) DEF DevRecs

LEMMA KeptByOnline ==
  ASSUME NEW D \in DevRecs, CardInv(D), D.pc \in {"nodes", "bound"} \cup Ends1 \cup Ends2,
         NEW E, NEW R, NEW H, NEW n, NEW m, NEW c, NEW u, NEW q,
         OnlineTo(D, E, R, H, n, m, c, u, q), n <= MaxResets
  PROVE  E \in DevRecs /\ CardInv(E)
<1> /\ R \in SUBSET Ids /\ H \in SUBSET Ids /\ n \in 0..(MaxResets + 1)
    /\ m \in SUBSET Misuses /\ c \in BOOLEAN /\ u \in BOOLEAN /\ q \in BOOLEAN
    /\ OnlineValues(D, R, H, n, m, c, u, q)
  BY Zenon DEF OnlineTo
<1> E = [[D EXCEPT !.irqs = R, !.lines = H, !.shared = n, !.misuse = m]
         EXCEPT !.chOn = c, !.userOn = u, !.offline = FALSE, !.paired = q]
  BY Zenon DEF OnlineTo
<1>1. E \in DevRecs
  <2> DEFINE F == [D EXCEPT !.irqs = R, !.lines = H, !.shared = n, !.misuse = m]
             G == [F EXCEPT !.chOn = c, !.userOn = u, !.offline = FALSE, !.paired = q]
  <2>1. F \in DevRecs
    BY TypedHandlers, Zenon
  <2> HIDE DEF F
  <2>2. G \in DevRecs
    BY <2>1, TypedSwitched, Zenon
  <2> QED
    BY <2>2, Zenon DEF F
<1> USE DEF DevRecs, CardInv, OnlineValues
<1>0. Handlers(E) = Handlers(D)
  BY DEF Handlers, Channels, UserHandlers
<1>2. StageInv(E)
  BY <1>0 DEF StageInv, Early, InUse, Ends1, Ends2
<1>3. HeldInv(E)
  BY <1>0 DEF HeldInv, HasRegion, Mapped, HasEng, HasVec
<1>4. PowerInv(E)
  BY <1>0 DEF PowerInv, Early, Powered, Unpowered, Falling, InUse, Ends1, StageInv,
     SwitchedInUse
<1>5. IrqInv(E)
  <2>1. /\ E.pc = D.pc /\ E.irqs = R /\ E.lines = H /\ E.shared = n /\ E.offline = FALSE
        /\ E.resets = D.resets /\ E.paired = q /\ E.frozen = D.frozen /\ E.partly = D.partly
        /\ E.fault = D.fault
    OBVIOUS
  <2>2. Orderly(E) => ~load.poll /\ Orderly(D) /\ D.offline /\ SwitchedInUse(D) /\ n = 0
    BY <2>1 DEF Orderly, StageInv, SwitchedInUse, InUse
  <2>3. D.pc \in {"nodes", "bound"} => H = Handlers(D) /\ (R \in {{}, H} \/ D.partly)
    OBVIOUS
  <2>4. D.pc \in {"nodes", "bound"} /\ (load.poll => D.resets = 0) => R = H \/ D.partly
    OBVIOUS
  <2>5. D.pc \in Ends1 => H = Handlers(D) /\ (R \in {{}, H} \/ D.partly)
    OBVIOUS
  <2>6. R \subseteq H /\ n \in Nat /\ n <= MaxResets
    BY DeviceAssumption
  <2>7. D.pc \notin Early /\ (D.pc \in InUse <=> D.pc \in {"nodes", "bound"})
    BY DEF Early, InUse, Ends1, Ends2
  <2>8. SwitchedInUse(D) => D.pc \notin Ends1 \cup Ends2 \cup {"absent"}
    BY DEF SwitchedInUse, Ends1, Ends2
  <2>9. D.pc \in InUse \cup Ends1 => E.lines = Handlers(E)
    BY <1>0, <2>1, <2>3, <2>5, <2>7
  <2>10. D.pc \in InUse \cup Ends1 => E.irqs \in {{}, E.lines} \/ E.partly
    BY <2>1, <2>3, <2>5, <2>7
  <2> HIDE DEF DevRecs, CardInv, OnlineValues
  <2> QED
    BY <2>1, <2>2, <2>4, <2>6, <2>7, <2>8, <2>9, <2>10 DEF IrqInv
<1>6. MaskInv(E)
  <2>1. /\ E.pc = D.pc /\ E.chOn = c /\ E.userOn = u /\ E.resets = D.resets /\ E.paired = q
        /\ E.card = D.card /\ E.offline = FALSE
    OBVIOUS
  <2>2. ~Orderly(E) \/ D.pc \in {"nodes", "bound"}
    BY <2>1 DEF Orderly, SwitchedInUse
  <2>3. /\ ~load.poll => c
        /\ D.pc \in {"nodes", "bound"} /\ (load.poll => D.resets = 0) /\ D.card.users > 0 => u
        /\ D.pc # "users"
    BY DEF Ends1, Ends2
  <2> HIDE DEF DevRecs, CardInv, OnlineValues
  <2> QED
    BY <2>1, <2>2, <2>3 DEF MaskInv, Live
<1>7. NodeInv(E)
  BY <1>0 DEF NodeInv, Early, Ends1, Ends2, InUse, StageInv, NoNodes
<1>8. BarInv(E)
  BY <1>0 DEF BarInv, Mapped
<1>9. UseInv(E)
  <2>1. /\ E.fault = D.fault /\ E.partly = D.partly /\ E.misuse = m
        /\ E.resets = D.resets /\ E.paired = q
    OBVIOUS
  <2>2. Orderly(E) => Orderly(D) /\ m = D.misuse
    BY <2>1 DEF Orderly, StageInv, SwitchedInUse, InUse
  <2>3. D.misuse \subseteq TwiceMisuse(D)
    BY Zenon DEF TwiceMisuse
  <2>4. Orderly(E) => Orderly(D) /\ E.misuse \subseteq TwiceMisuse(D)
    BY <2>1, <2>2, <2>3, Zenon
  <2>5. UseInv(D)
    BY DEF CardInv
  <2> HIDE DEF DevRecs, CardInv, OnlineValues
  <2> QED
    BY <2>1, <2>4, <2>5, UseOf
<1> QED
  BY <1>1, <1>2, <1>3, <1>4, <1>5, <1>6, <1>7, <1>8, <1>9

\* Not all handlers could be installed.
PartlyTo(F, E, R, H, n) ==
  E = [F EXCEPT !.irqs = R, !.lines = H, !.shared = n, !.partly = TRUE]

LEMMA TypedPartly ==
  ASSUME NEW D \in DevRecs, NEW R \in SUBSET Ids, NEW H \in SUBSET Ids,
         NEW n \in 0..(MaxResets + 1)
  PROVE  [D EXCEPT !.irqs = R, !.lines = H, !.shared = n, !.partly = TRUE] \in DevRecs
BY ZenonT(40) DEF DevRecs

LEMMA KeptByPartly ==
  ASSUME NEW F \in DevRecs, CardInv(F), F.pc \in {"nodes", "bound"} \cup Ends1 \cup Ends2,
         Orderly(F) => F.pc \in {"nodes", "bound"}, ~F.offline,
         NEW R \in SUBSET Ids, NEW H \in SUBSET Ids, R \subseteq H,
         F.pc \in InUse \cup Ends1 => H = Handlers(F),
         NEW n \in 0..(MaxResets + 1), n <= F.shared,
         NEW E, PartlyTo(F, E, R, H, n)
  PROVE  E \in DevRecs /\ CardInv(E)
<1> E = [F EXCEPT !.irqs = R, !.lines = H, !.shared = n, !.partly = TRUE]
  BY Zenon DEF PartlyTo
<1>1. E \in DevRecs
  BY TypedPartly, Zenon
<1>a. n \in Nat /\ F.shared \in Nat /\ MaxResets \in Nat
  BY DeviceAssumption DEF DevRecs
<1> USE DEF DevRecs, CardInv
<1>0. Handlers(E) = Handlers(F)
  BY DEF Handlers, Channels, UserHandlers
<1>2. StageInv(E)
  BY <1>0 DEF StageInv, Early, InUse, Ends1, Ends2
<1>3. HeldInv(E)
  BY <1>0 DEF HeldInv, HasRegion, Mapped, HasEng, HasVec
<1>4. PowerInv(E)
  BY <1>0 DEF PowerInv, Early, Powered, Unpowered, Falling, InUse, Ends1, StageInv
<1>5. IrqInv(E)
  BY <1>0, <1>a DEF IrqInv, Early, InUse, Ends1, Ends2, StageInv, Orderly
<1>6. MaskInv(E)
  BY <1>0 DEF MaskInv, Early, InUse, Live, StageInv, Orderly
<1>7. NodeInv(E)
  BY <1>0 DEF NodeInv, Early, Ends1, Ends2, InUse, StageInv, NoNodes
<1>8. BarInv(E)
  BY <1>0 DEF BarInv, Mapped
<1>9. UseInv(E)
  BY <1>0 DEF UseInv, Orderly
<1> QED
  BY <1>1, <1>2, <1>3, <1>4, <1>5, <1>6, <1>7, <1>8, <1>9

LEMMA KeptByUnfreeze ==
  ASSUME NEW D \in DevRecs, CardInv(D), D.pc = "bound", D.frozen,
         NEW F, NEW R, NEW H, NEW n, NEW m, NEW c, NEW u, NEW q,
         OnlineTo(D, F, R, H, n, m, c, u, q), NEW k, k = D.enabled + 1, NEW E,
         FrozenTo(F, E, FALSE, k)
  PROVE  E \in DevRecs /\ CardInv(E)
<1>u. /\ E.fault = D.fault /\ E.partly = D.partly
      /\ Orderly(E) => Orderly(D) /\ E.misuse \subseteq TwiceMisuse(D)
      => UseInv(E)
  BY UseOf DEF CardInv
<1> /\ R \in SUBSET Ids /\ H \in SUBSET Ids /\ n \in 0..(MaxResets + 1)
    /\ m \in SUBSET Misuses /\ c \in BOOLEAN /\ u \in BOOLEAN /\ q \in BOOLEAN
    /\ OnlineValues(D, R, H, n, m, c, u, q)
  BY Zenon DEF OnlineTo
<1> E = [[[D EXCEPT !.irqs = R, !.lines = H, !.shared = n, !.misuse = m]
          EXCEPT !.chOn = c, !.userOn = u, !.offline = FALSE, !.paired = q]
         EXCEPT !.frozen = FALSE, !.enabled = k]
  BY Zenon DEF OnlineTo, FrozenTo
<1>a. k \in -1..1
  BY DEF DevRecs, CardInv, PowerInv, Powered
<1>1. E \in DevRecs
  <2> DEFINE T == [D EXCEPT !.irqs = R, !.lines = H, !.shared = n, !.misuse = m]
             G == [T EXCEPT !.chOn = c, !.userOn = u, !.offline = FALSE, !.paired = q]
  <2>1. T \in DevRecs
    BY TypedHandlers, Zenon
  <2> HIDE DEF T
  <2>2. G \in DevRecs
    BY <2>1, TypedSwitched, Zenon
  <2> HIDE DEF G
  <2>3. [G EXCEPT !.frozen = FALSE, !.enabled = k] \in DevRecs
    BY <2>2, <1>a, TypedThawed, Zenon
  <2> QED
    BY <2>3, Zenon DEF T, G
<1> USE DEF DevRecs, CardInv, OnlineValues
<1>0. Handlers(E) = Handlers(D)
  BY DEF Handlers, Channels, UserHandlers
<1>2. StageInv(E)
  BY <1>0 DEF StageInv, Early, InUse, Ends1, Ends2
<1>3. HeldInv(E)
  BY <1>0 DEF HeldInv, HasRegion, Mapped, HasEng, HasVec
<1>4. PowerInv(E)
  BY <1>0 DEF PowerInv, Early, Powered, Unpowered, Falling, InUse, Ends1, StageInv,
     SwitchedInUse
<1>5. IrqInv(E)
  BY <1>0 DEF IrqInv, Early, InUse, Ends1, Ends2, StageInv, Orderly, SwitchedInUse
<1>6. MaskInv(E)
  BY <1>0 DEF MaskInv, Early, InUse, Live, StageInv, Orderly, SwitchedInUse
<1>7. NodeInv(E)
  BY <1>0 DEF NodeInv, Early, Ends1, Ends2, InUse, StageInv, NoNodes
<1>8. BarInv(E)
  BY <1>0 DEF BarInv, Mapped
<1>9. UseInv(E)
  <2>1. /\ E.fault = D.fault /\ E.partly = D.partly /\ E.misuse = m
        /\ E.resets = D.resets /\ E.paired = q
    OBVIOUS
  <2>2. Orderly(E) => Orderly(D) /\ m = D.misuse
    BY <2>1 DEF Orderly, StageInv, SwitchedInUse, InUse
  <2>3. D.misuse \subseteq TwiceMisuse(D)
    BY Zenon DEF TwiceMisuse
  <2>4. Orderly(E) => Orderly(D) /\ E.misuse \subseteq TwiceMisuse(D)
    BY <2>1, <2>2, <2>3, Zenon
  <2> HIDE DEF DevRecs, CardInv, OnlineValues
  <2> QED
    BY <1>u, <2>1, <2>4
<1> QED
  BY <1>1, <1>2, <1>3, <1>4, <1>5, <1>6, <1>7, <1>8, <1>9

-----------------------------------------------------------------------------
(* What a step of one card does to the rest                                *)

HostInv == LifeTypes /\ Cards /\ ListInv /\ ThreadInv /\ ModInv /\ FileInv

\* Threads are lost in a load where their start fails, and stay so.
LostNow == threads.lost => load.poll /\ Fails("threads")

LEMMA LostKept ==
  ASSUME HostInv, load' = load, threads'.lost = threads.lost
  PROVE  LostNow'
BY DEF HostInv, ThreadInv, LostNow, Fails


\* What is left as it is when one card changes
CardTurns(d, E) ==
  /\ d \in Devs /\ E \in DevRecs /\ CardInv(E)
  /\ dev' = [dev EXCEPT ![d] = E]
  /\ UNCHANGED <<load, given>>

\* The card keeps its number, engines and place in the list, and what the files, the module
\* and the other cards know of it.
Steady(D, E) ==
  /\ E.idx = D.idx /\ E.eng = D.eng /\ E.gen = D.gen
  /\ E.pc \in Unlisted <=> D.pc \in Unlisted
  /\ D.pc = "absent" => E.pc = "absent"
  /\ E.pc \in Ends1 \cup Ends2 /\ E.fault = "none" =>
       \/ D.pc \in Ends1 \cup Ends2 /\ D.fault = "none"
       \/ load.unplug \/ mod.st = "exiting"
  /\ E.pc \in Early \cup {"users"} => D.pc \in Early \cup {"users"}
  /\ D.pc \in {"nodes", "bound"} \/ D.fault = "nodes" =>
       \/ E.pc \in {"nodes", "bound"} \/ E.fault = "nodes"
       \/ load.unplug \/ mod.st = "exiting"

LEMMA CardPrimed ==
  ASSUME NEW x \in Devs, CardInv(dev'[x]), load' = load
  PROVE  CardInv(dev[x])'
<1>0. CardInv(dev'[x])
  OBVIOUS
<1>1. StageInv(dev[x])'
  BY <1>0 DEF CardInv, StageInv
<1>2. HeldInv(dev[x])'
  BY <1>0 DEF CardInv, HeldInv
<1>3. PowerInv(dev[x])'
  BY <1>0 DEF CardInv, PowerInv
<1>4. IrqInv(dev[x])'
  BY <1>0 DEF CardInv, IrqInv, Orderly, Handlers, Channels, UserHandlers
<1>5. MaskInv(dev[x])'
  BY <1>0 DEF CardInv, MaskInv, Orderly
<1>6. NodeInv(dev[x])'
  BY <1>0 DEF CardInv, NodeInv
<1>7. BarInv(dev[x])'
  BY <1>0 DEF CardInv, BarInv
<1>8. UseInv(dev[x])'
  BY <1>0 DEF CardInv, UseInv, Orderly
<1> QED
  BY <1>1, <1>2, <1>3, <1>4, <1>5, <1>6, <1>7, <1>8 DEF CardInv

LEMMA CardTurned ==
  ASSUME LifeTypes, Cards, NEW d, NEW E, CardTurns(d, E)
  PROVE  /\ dev' \in [Devs -> DevRecs] /\ Cards'
         /\ load' \in Loads /\ given' \in StubSituations
         /\ d \in Devs /\ dev'[d] = E /\ \A x \in Devs : x # d => dev'[x] = dev[x]
<1>1. /\ dev \in [Devs -> DevRecs] /\ d \in Devs /\ E \in DevRecs
      /\ dev' = [dev EXCEPT ![d] = E]
  BY DEF LifeTypes, CardTurns
<1>2. dev' \in [Devs -> DevRecs] /\ dev'[d] = E /\ \A x \in Devs : x # d => dev'[x] = dev[x]
  BY <1>1
<1>3. ASSUME NEW x \in Devs
      PROVE  CardInv(dev[x])'
  <2>1. CardInv(dev'[x])
    <3>1. CASE x = d
      BY <3>1, <1>2 DEF CardTurns
    <3>2. CASE x # d
      BY <3>2, <1>2 DEF Cards
    <3> QED
      BY <3>1, <3>2
  <2> QED
    BY <2>1, CardPrimed DEF CardTurns
<1> QED
  BY <1>1, <1>2, <1>3 DEF Cards, LifeTypes, CardTurns

\* Of the rest, what depends on the cards
LEMMA ListKept ==
  ASSUME HostInv, NEW d, NEW E, CardTurns(d, E), Steady(dev[d], E), UNCHANGED list
  PROVE  ListInv'
<1>1. /\ d \in Devs /\ dev'[d] = E /\ \A x \in Devs : x # d => dev'[x] = dev[x]
      /\ list \in Seq(Devs)
  BY CardTurned DEF HostInv, LifeTypes
<1>2. \A x \in Devs : /\ dev'[x].pc \in Unlisted <=> dev[x].pc \in Unlisted
                      /\ dev'[x].idx = dev[x].idx
  BY <1>1 DEF Steady
<1>3. \A i \in 1..Len(list) : list[i] \in Devs
  BY <1>1
<1> QED
  BY <1>2, <1>3 DEF HostInv, ListInv

LEMMA ThreadsKept ==
  ASSUME HostInv, NEW d, NEW E, CardTurns(d, E), E.eng = dev[d].eng, threads'.cnt = threads.cnt,
         threads'.work = threads.work, UNCHANGED list,
         threads'.lost => threads.lost \/ (load.poll /\ Fails("threads"))
  PROVE  ThreadInv'
<1>1. /\ d \in Devs /\ dev'[d] = E /\ \A x \in Devs : x # d => dev'[x] = dev[x]
      /\ load' = load
  BY CardTurned DEF HostInv, CardTurns
<1>2. \A x \in Devs : dev'[x].eng = dev[x].eng
  BY <1>1
<1>3. \A i \in 1..threads.cnt : \A x \in threads.work[i] : x[1] \in Devs
  BY DEF HostInv, LifeTypes
<1> QED
  BY <1>1, <1>2, <1>3 DEF HostInv, ThreadInv, Fails

LEMMA ModuleKept ==
  ASSUME HostInv, NEW d, NEW E, CardTurns(d, E), Steady(dev[d], E), UNCHANGED mod
  PROVE  ModInv'
<1>1. /\ d \in Devs /\ dev'[d] = E /\ \A x \in Devs : x # d => dev'[x] = dev[x]
      /\ load' = load
  BY CardTurned DEF HostInv, CardTurns
<1> QED
  BY <1>1 DEF HostInv, ModInv, Steady

LEMMA FilesKept ==
  ASSUME HostInv, NEW d, NEW E, CardTurns(d, E), Steady(dev[d], E), UNCHANGED <<mod, files>>
  PROVE  FileInv'
<1>1. /\ d \in Devs /\ dev'[d] = E /\ \A x \in Devs : x # d => dev'[x] = dev[x]
      /\ load' = load /\ mod' = mod /\ files' = files
  BY CardTurned DEF HostInv, CardTurns
<1> SUFFICES ASSUME NEW p \in Procs, files[p].st # "none"
             PROVE  LET f == files[p] IN
                      /\ mod.st = "live" /\ f.d \in Devs /\ f.node \in NodeNames
                      /\ f.gen <= dev'[f.d].gen
                      /\ f.gen = dev'[f.d].gen => dev'[f.d].pc \notin Early \cup {"users"}
                      /\ ~load.unplug =>
                           /\ f.gen = dev'[f.d].gen
                           /\ dev'[f.d].pc \in {"nodes", "bound"} \/ dev'[f.d].fault = "nodes"
  BY <1>1 DEF FileInv
<1>2. /\ mod.st = "live" /\ files[p].d \in Devs /\ files[p].node \in NodeNames
      /\ files[p].gen <= dev[files[p].d].gen
      /\ files[p].gen = dev[files[p].d].gen => dev[files[p].d].pc \notin Early \cup {"users"}
      /\ ~load.unplug =>
           /\ files[p].gen = dev[files[p].d].gen
           /\ dev[files[p].d].pc \in {"nodes", "bound"} \/ dev[files[p].d].fault = "nodes"
  BY DEF HostInv, FileInv
<1>3. CASE files[p].d # d
  BY <1>1, <1>2, <1>3
<1>4. CASE files[p].d = d
  BY <1>1, <1>2, <1>4 DEF Steady
<1> QED
  BY <1>3, <1>4

LEMMA TypesKept ==
  ASSUME HostInv, NEW d, NEW E, CardTurns(d, E), UNCHANGED <<list, threads, mod, files>>
  PROVE  LifeTypes'
<1>1. dev' \in [Devs -> DevRecs] /\ load' \in Loads /\ given' \in StubSituations
  BY CardTurned DEF HostInv
<1> QED
  BY <1>1 DEF HostInv, LifeTypes

LEMMA SteadyStep ==
  ASSUME HostInv, NEW d, NEW E, CardTurns(d, E), Steady(dev[d], E),
         UNCHANGED <<list, threads, mod, files>>
  PROVE  HostInv'
<1>1. Cards'
  BY CardTurned DEF HostInv
<1>2. LifeTypes'
  BY TypesKept
<1>3. ListInv'
  BY ListKept
<1>4. ThreadInv'
  BY ThreadsKept DEF Steady
<1>5. ModInv'
  BY ModuleKept
<1>6. FileInv'
  BY FilesKept
<1> QED
  BY <1>1, <1>2, <1>3, <1>4, <1>5, <1>6 DEF HostInv

-----------------------------------------------------------------------------
(* The steps that are steady                                               *)

LEMMA HostCard ==
  ASSUME HostInv, NEW d \in Devs
  PROVE  dev[d] \in DevRecs /\ CardInv(dev[d]) /\ load \in Loads
BY DEF HostInv, LifeTypes, Cards

\* The load is what was assumed of it.
LEMMA LoadFacts ==
  ASSUME load \in Loads
  PROVE  /\ load.irq \in {"msix", "msi", "legacy"}
         /\ load.poll \in BOOLEAN /\ load.unplug \in BOOLEAN
         /\ load.h2c \in 0..4 /\ load.c2h \in 0..4 /\ load.users \in 0..16
         /\ load.cpus \in Nat \ {0}
BY DeviceAssumption

\* Handlers are for lines.
LEMMA HandlersAreIds ==
  ASSUME load \in Loads, NEW D \in DevRecs
  PROVE  /\ Handlers(D) \subseteq Ids /\ Len(Channels(D)) \in Nat /\ Channels(D) \in Seq(Ids)
         /\ \A i \in 1..Len(Channels(D)) : Channels(D)[i] \in Ids
<1>1. D.card.h2c \in Nat /\ D.card.c2h \in Nat /\ D.card.users \in Nat
  BY DEF DevRecs, CardRecs
<1>2. ASSUME NEW type \in {"h2c", "c2h"}, NEW n \in Nat
      PROVE  Several(type, n) \in Seq(Ids)
  <2>1. \A i \in 1..n : i - 1 \in Nat
    OBVIOUS
  <2> QED
    BY <2>1 DEF Several, Ids
<1>3. Channels(D) \in Seq(Ids)
  <2>1. Several("h2c", D.card.h2c) \in Seq(Ids) /\ Several("c2h", D.card.c2h) \in Seq(Ids)
    BY <1>1, <1>2
  <2> QED
    BY <2>1 DEF Channels
<1>4. ToSet(Channels(D)) \subseteq Ids
  BY <1>3 DEF ToSet
<1>5. \A u \in 0..(D.card.users - 1) : u \in Nat
  BY <1>1
<1> QED
  BY <1>3, <1>4, <1>5 DEF Handlers, UserHandlers, Ids

\* Handlers that were installed before a failure are some of them.
LEMMA PartlyAreHandlers ==
  ASSUME load \in Loads, NEW D \in DevRecs, NEW got \in InstalledPartly(D)
  PROVE  got \subseteq Handlers(D)
<1>1. PICK k \in 0..(IF load.irq = "msix" THEN Len(Channels(D)) ELSE 0) :
        got = {Channels(D)[i] : i \in 1..k}
  BY DEF InstalledPartly
<1>2. Len(Channels(D)) \in Nat
  BY HandlersAreIds
<1>3. CASE load.irq = "msix"
  <2>1. ToSet(Channels(D)) \subseteq Handlers(D)
    BY <1>3 DEF Handlers
  <2>2. 1..k \subseteq DOMAIN Channels(D)
    <3>1. Channels(D) \in Seq(Ids)
      BY HandlersAreIds
    <3> QED
      BY <1>1, <1>2, <1>3, <3>1
  <2> QED
    BY <1>1, <2>1, <2>2 DEF ToSet
<1>4. CASE load.irq # "msix"
  BY <1>1, <1>4
<1> QED
  BY <1>3, <1>4

\* The registers are there as long as the card is mapped.
LEMMA UsedIsSafe ==
  ASSUME NEW D, CardInv(D), D.pc \in Mapped
  PROVE  Used(D) = D
BY DEF CardInv, HeldInv, Used

\* Probing fails.
LEMMA EnableFailureKeeps ==
  ASSUME HostInv, NEW d \in Devs, ProbeFails(d, "enable", "undo_list"), UNCHANGED <<load, given>>
  PROVE  HostInv'
<1>1. /\ dev[d] \in DevRecs /\ CardInv(dev[d]) /\ load \in Loads
      /\ dev[d].pc = "enable"
  BY HostCard DEF ProbeFails, At
<1> DEFINE E == [[dev[d] EXCEPT !.fault = "enable", !.inUse = FALSE] EXCEPT !.pc = "undo_list"]
<1>2. dev' = [dev EXCEPT ![d] = E] /\ UNCHANGED <<list, threads, mod, files>>
  BY DEF ProbeFails, Advance
<1>3. E \in DevRecs /\ CardInv(E)
  BY <1>1, KeptByEnableFailure
<1>4. Steady(dev[d], E)
  BY <1>1 DEF Steady, DevRecs, CardInv, StageInv, Unlisted, Early, InUse, Ends1, Ends2
<1> HIDE DEF E
<1> QED
  BY <1>2, <1>3, <1>4, SteadyStep DEF CardTurns

LEMMA RegionFailureKeeps ==
  ASSUME HostInv, NEW d \in Devs, ProbeFails(d, "regions", "undo_device"), UNCHANGED <<load, given>>
  PROVE  HostInv'
<1>1. /\ dev[d] \in DevRecs /\ CardInv(dev[d]) /\ load \in Loads
      /\ dev[d].pc = "regions"
  BY HostCard DEF ProbeFails, At
<1> DEFINE E == [[dev[d] EXCEPT !.fault = "regions", !.inUse = TRUE] EXCEPT !.pc = "undo_device"]
<1>2. dev' = [dev EXCEPT ![d] = E] /\ UNCHANGED <<list, threads, mod, files>>
  BY DEF ProbeFails, Advance
<1>3. E \in DevRecs /\ CardInv(E)
  BY <1>1, KeptByRegionFailure
<1>4. Steady(dev[d], E)
  BY <1>1 DEF Steady, DevRecs, CardInv, StageInv, Unlisted, Early, InUse, Ends1, Ends2
<1> HIDE DEF E
<1> QED
  BY <1>2, <1>3, <1>4, SteadyStep DEF CardTurns

LEMMA MaskFailureKeeps ==
  ASSUME HostInv, NEW d \in Devs, ProbeFails(d, "mask", "undo_bars"), UNCHANGED <<load, given>>
  PROVE  HostInv'
<1>1. /\ dev[d] \in DevRecs /\ CardInv(dev[d]) /\ load \in Loads
      /\ dev[d].pc = "mask"
  BY HostCard DEF ProbeFails, At
<1> DEFINE E == [[dev[d] EXCEPT !.fault = "mask", !.inUse = FALSE] EXCEPT !.pc = "undo_bars"]
<1>2. dev' = [dev EXCEPT ![d] = E] /\ UNCHANGED <<list, threads, mod, files>>
  BY DEF ProbeFails, Advance
<1>3. E \in DevRecs /\ CardInv(E)
  BY <1>1, KeptByMaskFailure
<1>4. Steady(dev[d], E)
  BY <1>1 DEF Steady, DevRecs, CardInv, StageInv, Unlisted, Early, InUse, Ends1, Ends2
<1> HIDE DEF E
<1> QED
  BY <1>2, <1>3, <1>4, SteadyStep DEF CardTurns

LEMMA VectorFailureKeeps ==
  ASSUME HostInv, NEW d \in Devs, ProbeFails(d, "vectors", "undo_engines"),
         UNCHANGED <<load, given>>
  PROVE  HostInv'
<1>1. /\ dev[d] \in DevRecs /\ CardInv(dev[d]) /\ load \in Loads
      /\ dev[d].pc = "vectors"
  BY HostCard DEF ProbeFails, At
<1> DEFINE E == [[dev[d] EXCEPT !.fault = "vectors", !.inUse = FALSE] EXCEPT !.pc = "undo_engines"]
<1>2. dev' = [dev EXCEPT ![d] = E] /\ UNCHANGED <<list, threads, mod, files>>
  BY DEF ProbeFails, Advance
<1>3. E \in DevRecs /\ CardInv(E)
  BY <1>1, KeptByVectorFailure
<1>4. Steady(dev[d], E)
  BY <1>1 DEF Steady, DevRecs, CardInv, StageInv, Unlisted, Early, InUse, Ends1, Ends2
<1> HIDE DEF E
<1> QED
  BY <1>2, <1>3, <1>4, SteadyStep DEF CardTurns

\* Probing goes on.
LEMMA EnableDeviceKeeps ==
  ASSUME HostInv, NEW d \in Devs, EnableDevice(d), UNCHANGED <<load, given>>
  PROVE  HostInv'
<1>1. /\ dev[d] \in DevRecs /\ CardInv(dev[d]) /\ load \in Loads
      /\ dev[d].pc = "enable"
  BY HostCard DEF EnableDevice, At
<1> DEFINE E == [[dev[d] EXCEPT !.enabled = dev[d].enabled + 1] EXCEPT !.pc = "regions"]
<1>2. dev' = [dev EXCEPT ![d] = E] /\ UNCHANGED <<list, threads, mod, files>>
  BY DEF EnableDevice, Advance
<1>3. E \in DevRecs /\ CardInv(E)
  BY <1>1, KeptByEnable
<1>4. Steady(dev[d], E)
  BY <1>1 DEF Steady, DevRecs, CardInv, StageInv, Unlisted, Early, InUse, Ends1, Ends2
<1> HIDE DEF E
<1> QED
  BY <1>2, <1>3, <1>4, SteadyStep DEF CardTurns

LEMMA RequestRegionsKeeps ==
  ASSUME HostInv, NEW d \in Devs, RequestRegions(d), UNCHANGED <<load, given>>
  PROVE  HostInv'
<1>1. /\ dev[d] \in DevRecs /\ CardInv(dev[d]) /\ load \in Loads
      /\ dev[d].pc = "regions"
  BY HostCard DEF RequestRegions, At
<1> DEFINE E == [[dev[d] EXCEPT !.regions = TRUE] EXCEPT !.pc = "bars"]
<1>2. dev' = [dev EXCEPT ![d] = E] /\ UNCHANGED <<list, threads, mod, files>>
  BY DEF RequestRegions, Advance
<1>3. E \in DevRecs /\ CardInv(E)
  BY <1>1, KeptByRegions
<1>4. Steady(dev[d], E)
  BY <1>1 DEF Steady, DevRecs, CardInv, StageInv, Unlisted, Early, InUse, Ends1, Ends2
<1> HIDE DEF E
<1> QED
  BY <1>2, <1>3, <1>4, SteadyStep DEF CardTurns

LEMMA MapBarsKeeps ==
  ASSUME HostInv, NEW d \in Devs, MapBars(d), UNCHANGED <<load, given>>
  PROVE  HostInv'
<1>1. /\ dev[d] \in DevRecs /\ CardInv(dev[d]) /\ load \in Loads
      /\ dev[d].pc = "bars" /\ HasConfig
  BY HostCard DEF MapBars, At
<1> DEFINE E == [[dev[d] EXCEPT !.bars = Present, !.card = Identify(dev[d].card)]
               EXCEPT !.pc = "mask"]
<1>a. /\ Identify(dev[d].card) \in CardRecs /\ Present \in SUBSET Nat
      /\ Identify(dev[d].card).config \in Present
      /\ \A kind \in {"user", "config", "bypass"} : \A i \in 1..Len(load.bars) :
           load.bars[i] = kind => Identify(dev[d].card)[kind] = i - 1
  <2>1. dev[d].card \in CardRecs
    BY <1>1 DEF DevRecs
  <2> QED
    BY <1>1, <2>1, BarsIdentified
<1>2. dev' = [dev EXCEPT ![d] = E] /\ UNCHANGED <<list, threads, mod, files>>
  BY DEF MapBars, Advance
<1>3. E \in DevRecs /\ CardInv(E)
  BY <1>1, <1>a, KeptByBars
<1>4. Steady(dev[d], E)
  BY <1>1 DEF Steady, DevRecs, CardInv, StageInv, Unlisted, Early, InUse, Ends1, Ends2
<1> HIDE DEF E
<1> QED
  BY <1>2, <1>3, <1>4, SteadyStep DEF CardTurns

LEMMA MapBarsFailsKeeps ==
  ASSUME HostInv, NEW d \in Devs, MapBarsFails(d), UNCHANGED <<load, given>>
  PROVE  HostInv'
<1>1. /\ dev[d] \in DevRecs /\ CardInv(dev[d]) /\ load \in Loads
      /\ dev[d].pc = "bars"
  BY HostCard DEF MapBarsFails, At
<1> DEFINE E == [[dev[d] EXCEPT !.fault = "bars"] EXCEPT !.pc = "undo_regions"]
<1>2. dev' = [dev EXCEPT ![d] = E] /\ UNCHANGED <<list, threads, mod, files>>
  BY DEF MapBarsFails, Advance
<1>3. E \in DevRecs /\ CardInv(E)
  BY <1>1, KeptByBarFailure
<1>4. Steady(dev[d], E)
  BY <1>1 DEF Steady, DevRecs, CardInv, StageInv, Unlisted, Early, InUse, Ends1, Ends2
<1> HIDE DEF E
<1> QED
  BY <1>2, <1>3, <1>4, SteadyStep DEF CardTurns

LEMMA SetDmaMaskKeeps ==
  ASSUME HostInv, NEW d \in Devs, SetDmaMask(d), UNCHANGED <<load, given>>
  PROVE  HostInv'
<1>1. /\ dev[d] \in DevRecs /\ CardInv(dev[d]) /\ load \in Loads
      /\ dev[d].pc = "mask"
  BY HostCard DEF SetDmaMask, At
<1> DEFINE E == [[dev[d] EXCEPT !.chOn = FALSE, !.userOn = FALSE,
                        !.card = [dev[d].card EXCEPT !.users = load.users]]
               EXCEPT !.pc = "engines"]
<1>a. /\ [dev[d].card EXCEPT !.users = load.users] \in CardRecs
      /\ \A kind \in {"user", "config", "bypass"} :
           [dev[d].card EXCEPT !.users = load.users][kind] = dev[d].card[kind]
  BY <1>1, LoadFacts DEF DevRecs, CardRecs
<1>2. dev' = [dev EXCEPT ![d] = E] /\ UNCHANGED <<list, threads, mod, files>>
  BY DEF SetDmaMask, Advance
<1>3. E \in DevRecs /\ CardInv(E)
  BY <1>1, <1>a, KeptByMask
<1>4. Steady(dev[d], E)
  BY <1>1 DEF Steady, DevRecs, CardInv, StageInv, Unlisted, Early, InUse, Ends1, Ends2
<1> HIDE DEF E
<1> QED
  BY <1>2, <1>3, <1>4, SteadyStep DEF CardTurns

LEMMA ProbeEngineEndsKeeps ==
  ASSUME HostInv, NEW d \in Devs, ProbeEngineEnds(d), UNCHANGED <<load, given>>
  PROVE  HostInv'
<1>1. /\ dev[d] \in DevRecs /\ CardInv(dev[d]) /\ load \in Loads
      /\ dev[d].pc = "engines"
  BY HostCard DEF ProbeEngineEnds, At
<1> DEFINE E == [[dev[d] EXCEPT !.dir = "c2h"]
               EXCEPT !.pc = IF dev[d].dir = "h2c" THEN "engines" ELSE "vectors"]
<1>2. dev' = [dev EXCEPT ![d] = E] /\ UNCHANGED <<list, threads, mod, files>>
  BY DEF ProbeEngineEnds, Advance
<1>3. E \in DevRecs /\ CardInv(E)
  BY <1>1, KeptByChannelsEnd
<1>4. Steady(dev[d], E)
  BY <1>1 DEF Steady, DevRecs, CardInv, StageInv, Unlisted, Early, InUse, Ends1, Ends2
<1> HIDE DEF E
<1> QED
  BY <1>2, <1>3, <1>4, SteadyStep DEF CardTurns

LEMMA EnableVectorsKeeps ==
  ASSUME HostInv, NEW d \in Devs, EnableVectors(d), UNCHANGED <<load, given>>
  PROVE  HostInv'
<1>1. /\ dev[d] \in DevRecs /\ CardInv(dev[d]) /\ load \in Loads
      /\ dev[d].pc = "vectors"
  BY HostCard DEF EnableVectors, At
<1> DEFINE E == [[dev[d] EXCEPT !.vectors = load.irq # "legacy"] EXCEPT !.pc = "irqs"]
<1>2. dev' = [dev EXCEPT ![d] = E] /\ UNCHANGED <<list, threads, mod, files>>
  BY DEF EnableVectors, Advance
<1>3. E \in DevRecs /\ CardInv(E)
  BY <1>1, KeptByVectors
<1>4. Steady(dev[d], E)
  BY <1>1 DEF Steady, DevRecs, CardInv, StageInv, Unlisted, Early, InUse, Ends1, Ends2
<1> HIDE DEF E
<1> QED
  BY <1>2, <1>3, <1>4, SteadyStep DEF CardTurns

LEMMA IrqSetupKeeps ==
  ASSUME HostInv, NEW d \in Devs, IrqSetup(d), UNCHANGED <<load, given>>
  PROVE  HostInv'
<1>1. /\ dev[d] \in DevRecs /\ CardInv(dev[d]) /\ load \in Loads
      /\ dev[d].pc = "irqs"
  BY HostCard DEF IrqSetup, At
<1> DEFINE E == [[[dev[d] EXCEPT !.irqs = Handlers(dev[d]), !.lines = Handlers(dev[d])]
                EXCEPT !.chOn = ~load.poll, !.offline = FALSE] EXCEPT !.pc = "users"]
<1>a. Handlers(dev[d]) \in SUBSET Ids /\ (~load.poll) \in BOOLEAN
  BY <1>1, HandlersAreIds
<1>b. dev[d].irqs = {} /\ (~load.poll <=> ~load.poll)
  BY <1>1 DEF CardInv, IrqInv, Early
<1>2. dev' = [dev EXCEPT ![d] = E] /\ UNCHANGED <<list, threads, mod, files>>
  BY <1>b DEF IrqSetup, Advance, IrqsInstalled
<1>3. E \in DevRecs /\ CardInv(E)
  BY <1>1, <1>a, <1>b, KeptByIrqs, Zenon
<1>4. Steady(dev[d], E)
  BY <1>1 DEF Steady, DevRecs, CardInv, StageInv, Unlisted, Early, InUse, Ends1, Ends2
<1> HIDE DEF E
<1> QED
  BY <1>2, <1>3, <1>4, SteadyStep DEF CardTurns

LEMMA IrqSetupFailsKeeps ==
  ASSUME HostInv, NEW d \in Devs, IrqSetupFails(d), UNCHANGED <<load, given>>
  PROVE  HostInv'
<1>1. /\ dev[d] \in DevRecs /\ CardInv(dev[d]) /\ load \in Loads
      /\ dev[d].pc = "irqs"
  BY HostCard DEF IrqSetupFails, At
<1> PICK got \in InstalledPartly(dev[d]) :
       Advance(d, "undo_vectors", [dev[d] EXCEPT !.fault = "irqs", !.irqs = got, !.lines = got])
  BY DEF IrqSetupFails
<1> DEFINE E == [[dev[d] EXCEPT !.fault = "irqs", !.irqs = got, !.lines = got]
               EXCEPT !.pc = "undo_vectors"]
<1>a. got \in SUBSET Ids
  BY <1>1, PartlyAreHandlers, HandlersAreIds
<1>2. dev' = [dev EXCEPT ![d] = E] /\ UNCHANGED <<list, threads, mod, files>>
  BY DEF IrqSetupFails, Advance
<1>3. E \in DevRecs /\ CardInv(E)
  BY <1>1, <1>a, KeptByIrqFailure
<1>4. Steady(dev[d], E)
  BY <1>1 DEF Steady, DevRecs, CardInv, StageInv, Unlisted, Early, InUse, Ends1, Ends2
<1> HIDE DEF E
<1> QED
  BY <1>2, <1>3, <1>4, SteadyStep DEF CardTurns

LEMMA UserEnableKeeps ==
  ASSUME HostInv, NEW d \in Devs, UserEnable(d), UNCHANGED <<load, given>>
  PROVE  HostInv'
<1>1. /\ dev[d] \in DevRecs /\ CardInv(dev[d]) /\ load \in Loads
      /\ dev[d].pc = "users"
  BY HostCard DEF UserEnable, At
<1> DEFINE E == [[dev[d] EXCEPT !.userOn = dev[d].card.users > 0] EXCEPT !.pc = "nodes"]
<1>a. (dev[d].card.users > 0) \in BOOLEAN
  OBVIOUS
<1>2. dev' = [dev EXCEPT ![d] = E] /\ UNCHANGED <<list, threads, mod, files>>
  BY DEF UserEnable, Advance
<1>3. E \in DevRecs /\ CardInv(E)
  BY <1>1, <1>a, KeptByUsers
<1>4. Steady(dev[d], E)
  BY <1>1 DEF Steady, DevRecs, CardInv, StageInv, Unlisted, Early, InUse, Ends1, Ends2
<1> HIDE DEF E
<1> QED
  BY <1>2, <1>3, <1>4, SteadyStep DEF CardTurns

\* The devices
LEMMA CreateNodeKeeps ==
  ASSUME HostInv, NEW d \in Devs, CreateNode(d), UNCHANGED <<load, given>>
  PROVE  HostInv'
<1>1. /\ dev[d] \in DevRecs /\ CardInv(dev[d]) /\ load \in Loads
      /\ dev[d].pc = "nodes"
  BY HostCard DEF CreateNode, At
<1> DEFINE M == CreateXcdev(dev[d].card, dev[d].N)
           pcN == IF AllCreated(dev[d].card, M) THEN "bound" ELSE "nodes"
<1> DEFINE E == [[dev[d] EXCEPT !.N = M] EXCEPT !.pc = pcN]
<1>a. PICK k \in 0..(Len(NodeSeq(dev[d].card)) - 1) :
             dev[d].N.nodes = FirstNodes(dev[d].card, k)
  BY <1>1 DEF CardInv, NodeInv
<1>b. dev[d].card \in CardRecs /\ dev[d].N \in NodeRecs /\ dev[d].N.dead = {} /\ ~dev[d].N.twice
  BY <1>1 DEF DevRecs, CardInv, NodeInv
<1>c. /\ M \in NodeRecs /\ M.nodes = FirstNodes(dev[d].card, k + 1)
      /\ M.dead = {} /\ ~M.twice
      /\ AllCreated(dev[d].card, M) => M.nodes = AllNodes(dev[d].card)
      /\ ~AllCreated(dev[d].card, M) => k + 1 \in 0..(Len(NodeSeq(dev[d].card)) - 1)
  BY <1>a, <1>b, NodeCreated
<1>d. /\ M \in NodeRecs /\ M.dead = {} /\ ~M.twice
      /\ M.nodes \subseteq AllNodes(dev[d].card) /\ pcN \in {"nodes", "bound"}
      /\ pcN = "nodes" => \E j \in 0..(Len(NodeSeq(dev[d].card)) - 1) :
                             M.nodes = FirstNodes(dev[d].card, j)
      /\ pcN = "bound" => M.nodes = AllNodes(dev[d].card)
  <2>1. k + 1 \in 0..Len(NodeSeq(dev[d].card))
    BY <1>b, NodesPlain
  <2>2. M.nodes \subseteq AllNodes(dev[d].card)
    BY <1>b, <1>c, <2>1, NodesCounted
  <2> HIDE DEF M
  <2> QED
    BY <1>c, <2>2
<1> HIDE DEF M
<1>2. dev' = [dev EXCEPT ![d] = E] /\ UNCHANGED <<list, threads, mod, files>>
  BY DEF CreateNode, Advance, M
<1>3. E \in DevRecs /\ CardInv(E)
  BY <1>1, <1>d, KeptByNode
<1>4. Steady(dev[d], E)
  BY <1>1 DEF Steady, DevRecs, CardInv, StageInv, Unlisted, Early, InUse, Ends1, Ends2
<1> HIDE DEF E
<1> QED
  BY <1>2, <1>3, <1>4, SteadyStep DEF CardTurns

LEMMA CreateNodeFailsKeeps ==
  ASSUME HostInv, NEW d \in Devs, CreateNodeFails(d), UNCHANGED <<load, given>>
  PROVE  HostInv'
<1>1. /\ dev[d] \in DevRecs /\ CardInv(dev[d]) /\ load \in Loads
      /\ dev[d].pc = "nodes"
  BY HostCard DEF CreateNodeFails, At
<1> DEFINE M == DestroyInterfaces(dev[d].card, dev[d].N)
<1> DEFINE E == [[dev[d] EXCEPT !.fault = "nodes", !.N = M,
                        !.paired = dev[d].paired /\ ~dev[d].offline] EXCEPT !.pc = "undo_nodes"]
<1>a. /\ M \in NodeRecs /\ M.nodes \subseteq dev[d].N.nodes
      /\ (dev[d].paired /\ ~dev[d].offline) \in BOOLEAN
  <2>1. dev[d].card \in CardRecs /\ dev[d].N \in NodeRecs
        /\ dev[d].N.nodes \subseteq AllNodes(dev[d].card)
    BY <1>1 DEF DevRecs, CardInv, NodeInv
  <2> QED
    BY <2>1, NodesDestroyed
<1> HIDE DEF M
<1>2. dev' = [dev EXCEPT ![d] = E] /\ UNCHANGED <<list, threads, mod, files>>
  BY DEF CreateNodeFails, Advance, M
<1>3. E \in DevRecs /\ CardInv(E)
  BY <1>1, <1>a, KeptByNodeFailure
<1>4. Steady(dev[d], E)
  BY <1>1 DEF Steady, DevRecs, CardInv, StageInv, Unlisted, Early, InUse, Ends1, Ends2
<1> HIDE DEF E
<1> QED
  BY <1>2, <1>3, <1>4, SteadyStep DEF CardTurns

\* Removal
LEMMA RemoveOneKeeps ==
  ASSUME HostInv, NEW d \in Devs, RemoveOne(d), UNCHANGED <<load, given>>
  PROVE  HostInv'
<1>1. /\ dev[d] \in DevRecs /\ CardInv(dev[d]) /\ load \in Loads
      /\ dev[d].pc = "bound" /\ (mod.st = "exiting" \/ load.unplug)
  BY HostCard DEF RemoveOne, At
<1> DEFINE E == [[dev[d] EXCEPT !.paired = dev[d].paired /\ ~dev[d].offline /\ ~dev[d].frozen]
               EXCEPT !.pc = "undo_nodes"]
<1>a. (dev[d].paired /\ ~dev[d].offline /\ ~dev[d].frozen) \in BOOLEAN
  OBVIOUS
<1>2. dev' = [dev EXCEPT ![d] = E] /\ UNCHANGED <<list, threads, mod, files>>
  BY DEF RemoveOne, Advance
<1>3. E \in DevRecs /\ CardInv(E)
  BY <1>1, <1>a, KeptByRemove
<1>4. Steady(dev[d], E)
  BY <1>1 DEF Steady, DevRecs, CardInv, StageInv, Unlisted, Early, InUse, Ends1, Ends2
<1> HIDE DEF E
<1> QED
  BY <1>2, <1>3, <1>4, SteadyStep DEF CardTurns

LEMMA DestroyNodesKeeps ==
  ASSUME HostInv, NEW d \in Devs, DestroyNodes(d), UNCHANGED <<load, given>>
  PROVE  HostInv'
<1>1. /\ dev[d] \in DevRecs /\ CardInv(dev[d]) /\ load \in Loads
      /\ dev[d].pc = "undo_nodes"
  BY HostCard DEF DestroyNodes, At
<1> DEFINE M == DestroyInterfaces(dev[d].card, dev[d].N)
<1> DEFINE E == [[dev[d] EXCEPT !.N = M] EXCEPT !.pc = "undo_masks"]
<1>a. /\ M \in NodeRecs /\ M.nodes \subseteq dev[d].N.nodes /\ ~M.major
      /\ dev[d].N.nodes = AllNodes(dev[d].card) /\ dev[d].N.dead = {} /\ ~dev[d].N.twice =>
           M.nodes = {} /\ ~M.twice
  <2>1. dev[d].card \in CardRecs /\ dev[d].N \in NodeRecs
        /\ dev[d].N.nodes \subseteq AllNodes(dev[d].card)
    BY <1>1 DEF DevRecs, CardInv, NodeInv
  <2> QED
    BY <2>1, NodesDestroyed
<1> HIDE DEF M
<1>2. dev' = [dev EXCEPT ![d] = E] /\ UNCHANGED <<list, threads, mod, files>>
  BY DEF DestroyNodes, Advance, M
<1>3. E \in DevRecs /\ CardInv(E)
  BY <1>1, <1>a, KeptByDestroy
<1>4. Steady(dev[d], E)
  BY <1>1 DEF Steady, DevRecs, CardInv, StageInv, Unlisted, Early, InUse, Ends1, Ends2
<1> HIDE DEF E
<1> QED
  BY <1>2, <1>3, <1>4, SteadyStep DEF CardTurns

LEMMA MaskInterruptsKeeps ==
  ASSUME HostInv, NEW d \in Devs, MaskInterrupts(d), UNCHANGED <<load, given>>
  PROVE  HostInv'
<1>1. /\ dev[d] \in DevRecs /\ CardInv(dev[d]) /\ load \in Loads
      /\ dev[d].pc = "undo_masks"
  BY HostCard DEF MaskInterrupts, At
<1> DEFINE E == [[dev[d] EXCEPT !.chOn = FALSE, !.userOn = FALSE] EXCEPT !.pc = "undo_irqs"]
<1>a. Used(dev[d]) = dev[d]
  BY <1>1, UsedIsSafe DEF Mapped
<1>2. dev' = [dev EXCEPT ![d] = E] /\ UNCHANGED <<list, threads, mod, files>>
  BY <1>a DEF MaskInterrupts, Advance
<1>3. E \in DevRecs /\ CardInv(E)
  BY <1>1, KeptByMasking
<1>4. Steady(dev[d], E)
  BY <1>1 DEF Steady, DevRecs, CardInv, StageInv, Unlisted, Early, InUse, Ends1, Ends2
<1> HIDE DEF E
<1> QED
  BY <1>2, <1>3, <1>4, SteadyStep DEF CardTurns

LEMMA DisableVectorsKeeps ==
  ASSUME HostInv, NEW d \in Devs, DisableVectors(d), UNCHANGED <<load, given>>
  PROVE  HostInv'
<1>1. /\ dev[d] \in DevRecs /\ CardInv(dev[d]) /\ load \in Loads
      /\ dev[d].pc = "undo_vectors"
  BY HostCard DEF DisableVectors, At
<1> DEFINE m == IF dev[d].vectors /\ dev[d].irqs # {} THEN dev[d].misuse \cup {"vectors"}
                ELSE dev[d].misuse
<1> DEFINE E == [[dev[d] EXCEPT !.vectors = FALSE, !.misuse = m] EXCEPT !.pc = "undo_engines"]
<1>a. m \in SUBSET Misuses /\ (Orderly(dev[d]) /\ dev[d].fault # "irqs" => m = dev[d].misuse)
  BY <1>1, ZenonT(40) DEF DevRecs, Misuses, CardInv, IrqInv, Ends2
<1> HIDE DEF m
<1>2. dev' = [dev EXCEPT ![d] = E] /\ UNCHANGED <<list, threads, mod, files>>
  BY DEF DisableVectors, Advance, m
<1>3. E \in DevRecs /\ CardInv(E)
  BY <1>1, <1>a, KeptByVectorsOff
<1>4. Steady(dev[d], E)
  BY <1>1 DEF Steady, DevRecs, CardInv, StageInv, Unlisted, Early, InUse, Ends1, Ends2
<1> HIDE DEF E
<1> QED
  BY <1>2, <1>3, <1>4, SteadyStep DEF CardTurns

LEMMA UnmapBarsKeeps ==
  ASSUME HostInv, NEW d \in Devs, UnmapBars(d), UNCHANGED <<load, given>>
  PROVE  HostInv'
<1>1. /\ dev[d] \in DevRecs /\ CardInv(dev[d]) /\ load \in Loads
      /\ (dev[d].pc = "undo_engines" /\ dev[d].eng = {}) \/ dev[d].pc = "undo_bars"
  BY HostCard DEF UnmapBars, At
<1> DEFINE E == [[dev[d] EXCEPT !.bars = {}] EXCEPT !.pc = "undo_regions"]
<1>2. dev' = [dev EXCEPT ![d] = E] /\ UNCHANGED <<list, threads, mod, files>>
  BY DEF UnmapBars, Advance
<1>3. E \in DevRecs /\ CardInv(E)
  BY <1>1, KeptByUnmap
<1>4. Steady(dev[d], E)
  BY <1>1 DEF Steady, DevRecs, CardInv, StageInv, Unlisted, Early, InUse, Ends1, Ends2
<1> HIDE DEF E
<1> QED
  BY <1>2, <1>3, <1>4, SteadyStep DEF CardTurns

LEMMA ReleaseRegionsKeeps ==
  ASSUME HostInv, NEW d \in Devs, ReleaseRegions(d), UNCHANGED <<load, given>>
  PROVE  HostInv'
<1>1. /\ dev[d] \in DevRecs /\ CardInv(dev[d]) /\ load \in Loads
      /\ dev[d].pc = "undo_regions"
  BY HostCard DEF ReleaseRegions, At
<1> DEFINE E == [[dev[d] EXCEPT !.regions = FALSE] EXCEPT !.pc = "undo_device"]
<1>2. dev' = [dev EXCEPT ![d] = E] /\ UNCHANGED <<list, threads, mod, files>>
  BY DEF ReleaseRegions, Advance
<1>3. E \in DevRecs /\ CardInv(E)
  BY <1>1, KeptByRelease
<1>4. Steady(dev[d], E)
  BY <1>1 DEF Steady, DevRecs, CardInv, StageInv, Unlisted, Early, InUse, Ends1, Ends2
<1> HIDE DEF E
<1> QED
  BY <1>2, <1>3, <1>4, SteadyStep DEF CardTurns

LEMMA DisableDeviceKeeps ==
  ASSUME HostInv, NEW d \in Devs, DisableDevice(d), UNCHANGED <<load, given>>
  PROVE  HostInv'
<1>1. /\ dev[d] \in DevRecs /\ CardInv(dev[d]) /\ load \in Loads
      /\ dev[d].pc = "undo_device"
  BY HostCard DEF DisableDevice, At
<1> DEFINE E == [[dev[d] EXCEPT !.enabled =
                             IF dev[d].inUse THEN dev[d].enabled ELSE dev[d].enabled - 1]
               EXCEPT !.pc = "undo_list"]
<1>2. dev' = [dev EXCEPT ![d] = E] /\ UNCHANGED <<list, threads, mod, files>>
  BY DEF DisableDevice, Advance
<1>3. E \in DevRecs /\ CardInv(E)
  BY <1>1, KeptByDisable
<1>4. Steady(dev[d], E)
  BY <1>1 DEF Steady, DevRecs, CardInv, StageInv, Unlisted, Early, InUse, Ends1, Ends2
<1> HIDE DEF E
<1> QED
  BY <1>2, <1>3, <1>4, SteadyStep DEF CardTurns

LEMMA FreeDevKeeps ==
  ASSUME HostInv, NEW d \in Devs, FreeDev(d), UNCHANGED <<load, given>>
  PROVE  HostInv'
<1>1. /\ dev[d] \in DevRecs /\ CardInv(dev[d]) /\ load \in Loads
      /\ dev[d].pc = "undo_free"
  BY HostCard DEF FreeDev, At
<1> DEFINE E == [[dev[d] EXCEPT !.xdev = "freed"] EXCEPT !.pc = "absent"]
<1>2. dev' = [dev EXCEPT ![d] = E] /\ UNCHANGED <<list, threads, mod, files>>
  BY DEF FreeDev, Advance
<1>3. E \in DevRecs /\ CardInv(E)
  BY <1>1, KeptByFree
<1>4. Steady(dev[d], E)
  BY <1>1 DEF Steady, DevRecs, CardInv, StageInv, Unlisted, Early, InUse, Ends1, Ends2
<1> HIDE DEF E
<1> QED
  BY <1>2, <1>3, <1>4, SteadyStep DEF CardTurns

-----------------------------------------------------------------------------
(* Offline and online                                                      *)

\* What a card has after its registers were used, its handlers freed or installed
UsedMisuse(D) == IF D.card.config \in D.bars THEN D.misuse ELSE D.misuse \cup {"bar"}

FreedIrqs(D) == IF D.shared > 0 THEN D.irqs ELSE D.irqs \ D.lines

FreedShared(D) == IF D.shared > 0 THEN D.shared - 1 ELSE D.shared

FreedMisuse(D) == IF D.shared > 0 \/ D.lines \subseteq D.irqs THEN UsedMisuse(D)
                  ELSE UsedMisuse(D) \cup {"irq twice"}

InstalledIrqs(D)  == IF D.irqs = {} THEN Handlers(D) ELSE D.irqs
InstalledLines(D) == IF D.irqs = {} THEN Handlers(D) ELSE D.lines

InstalledShared(D) == IF D.irqs # {} /\ load.irq = "legacy" THEN D.shared + 1 ELSE D.shared

LEMMA HandlersUnchanged ==
  ASSUME NEW D \in DevRecs, NEW m, NEW n
  PROVE  /\ [D EXCEPT !.irqs = D.irqs, !.lines = D.lines, !.shared = n, !.misuse = m]
              = [[D EXCEPT !.misuse = m] EXCEPT !.shared = n]
         /\ [D EXCEPT !.irqs = D.irqs, !.lines = D.lines, !.shared = D.shared, !.misuse = m]
              = [D EXCEPT !.misuse = m]
<1>1. ASSUME NEW k
      PROVE  [D EXCEPT !.irqs = D.irqs, !.lines = D.lines, !.shared = k, !.misuse = m]
               = [[D EXCEPT !.misuse = m] EXCEPT !.shared = k]
  <2> DEFINE A == [D EXCEPT !.irqs = D.irqs, !.lines = D.lines, !.shared = k, !.misuse = m]
             B == [[D EXCEPT !.misuse = m] EXCEPT !.shared = k]
  <2>1. /\ DOMAIN A = DOMAIN D /\ DOMAIN B = DOMAIN D
        /\ A = [x \in DOMAIN D |-> A[x]] /\ B = [x \in DOMAIN D |-> B[x]]
    BY ZenonT(40) DEF DevRecs
  <2>2. ASSUME NEW x \in DOMAIN D
        PROVE  A[x] = B[x]
    BY ZenonT(40) DEF DevRecs
  <2> HIDE DEF A, B
  <2>3. A = B
    BY <2>1, <2>2
  <2> QED
    BY <2>3 DEF A, B
<1>2. [[D EXCEPT !.misuse = m] EXCEPT !.shared = D.shared] = [D EXCEPT !.misuse = m]
  BY ZenonT(40) DEF DevRecs
<1> QED
  BY <1>1, <1>2

LEMMA UsedIs ==
  ASSUME NEW D \in DevRecs
  PROVE  Used(D) = [D EXCEPT !.misuse = UsedMisuse(D)] /\ UsedMisuse(D) \in SUBSET Misuses
BY ZenonT(40) DEF Used, UsedMisuse, DevRecs, Misuses

LEMMA FreedIs ==
  ASSUME NEW D \in DevRecs
  PROVE  IrqsFreed(Used(D)) = [D EXCEPT !.irqs = FreedIrqs(D), !.shared = FreedShared(D),
                                        !.misuse = FreedMisuse(D)]
<1> DEFINE um == UsedMisuse(D)
           U == [D EXCEPT !.misuse = um]
<1>1. Used(D) = U
  BY UsedIs
<1> HIDE DEF um
<1>2. U.shared = D.shared /\ U.irqs = D.irqs /\ U.lines = D.lines /\ U.misuse = um
  BY DEF DevRecs
<1>3. CASE D.shared > 0
  <2>1. IrqsFreed(U) = [U EXCEPT !.shared = D.shared - 1]
    BY <1>2, <1>3 DEF IrqsFreed
  <2>2. FreedIrqs(D) = D.irqs /\ FreedShared(D) = D.shared - 1 /\ FreedMisuse(D) = um
    BY <1>3 DEF FreedIrqs, FreedShared, FreedMisuse, um
  <2> QED
    BY <1>1, <2>1, <2>2, ZenonT(40) DEF DevRecs
<1>4. CASE ~(D.shared > 0)
  <2> DEFINE m == IF D.lines \subseteq D.irqs THEN um ELSE um \cup {"irq twice"}
  <2>1. IrqsFreed(U) = [U EXCEPT !.irqs = D.irqs \ D.lines, !.misuse = m]
    BY <1>2, <1>4 DEF IrqsFreed
  <2>2. FreedIrqs(D) = D.irqs \ D.lines /\ FreedShared(D) = D.shared /\ FreedMisuse(D) = m
    BY <1>4 DEF FreedIrqs, FreedShared, FreedMisuse, um
  <2> HIDE DEF m
  <2> QED
    BY <1>1, <2>1, <2>2, ZenonT(40) DEF DevRecs
<1> QED
  BY <1>3, <1>4

LEMMA InstalledIs ==
  ASSUME NEW D \in DevRecs
  PROVE  IrqsInstalled(Used(D)) =
           [D EXCEPT !.irqs = InstalledIrqs(D), !.lines = InstalledLines(D),
                     !.shared = InstalledShared(D), !.misuse = UsedMisuse(D)]
<1> DEFINE um == UsedMisuse(D)
           U == [D EXCEPT !.misuse = um]
<1>1. Used(D) = U
  BY UsedIs
<1> HIDE DEF um
<1>2. U.shared = D.shared /\ U.irqs = D.irqs /\ U.lines = D.lines /\ U.card = D.card
  BY DEF DevRecs
<1>3. Handlers(U) = Handlers(D)
  BY <1>2 DEF Handlers, Channels, UserHandlers
<1> DEFINE H == Handlers(D)
<1>4. CASE D.irqs = {}
  <2>1. IrqsInstalled(U) = [U EXCEPT !.irqs = H, !.lines = H]
    BY <1>2, <1>3, <1>4 DEF IrqsInstalled
  <2>2. InstalledIrqs(D) = H /\ InstalledLines(D) = H /\ InstalledShared(D) = D.shared
    BY <1>4 DEF InstalledIrqs, InstalledLines, InstalledShared
  <2> HIDE DEF H
  <2> QED
    BY <1>1, <2>1, <2>2, ZenonT(40) DEF um, DevRecs
<1>5. CASE D.irqs # {}
  <2>1. InstalledIrqs(D) = D.irqs /\ InstalledLines(D) = D.lines
    BY <1>5 DEF InstalledIrqs, InstalledLines
  <2>2. CASE load.irq = "legacy"
    <3>1. IrqsInstalled(U) = [U EXCEPT !.shared = D.shared + 1]
      BY <1>2, <1>5, <2>2 DEF IrqsInstalled
    <3>2. InstalledShared(D) = D.shared + 1
      BY <1>5, <2>2 DEF InstalledShared
    <3>3. IrqsInstalled(U) = [D EXCEPT !.irqs = D.irqs, !.lines = D.lines,
                                       !.shared = D.shared + 1, !.misuse = um]
      BY <3>1, HandlersUnchanged, Zenon
    <3> QED
      BY <1>1, <2>1, <3>2, <3>3, Zenon DEF um
  <2>3. CASE load.irq # "legacy"
    <3>1. IrqsInstalled(U) = U
      BY <1>2, <1>5, <2>3 DEF IrqsInstalled
    <3>2. InstalledShared(D) = D.shared
      BY <1>5, <2>3 DEF InstalledShared
    <3>3. IrqsInstalled(U) = [D EXCEPT !.irqs = D.irqs, !.lines = D.lines,
                                       !.shared = D.shared, !.misuse = um]
      BY <3>1, HandlersUnchanged, Zenon
    <3> QED
      BY <1>1, <2>1, <3>2, <3>3, Zenon DEF um
  <2> QED
    BY <2>2, <2>3
<1> QED
  BY <1>4, <1>5

\* Who may switch a card has it before him.
LEMMA SwitchedWhere ==
  ASSUME HostInv, NEW d \in Devs, MaySwitch(d)
  PROVE  dev[d].pc \in {"nodes", "bound"} \cup Ends1 \cup Ends2
<1>1. CASE At(d, "bound")
  BY <1>1 DEF At
<1>2. CASE ~At(d, "bound")
  <2>1. PICK p \in Procs : /\ files[p].st = "open" /\ files[p].d = d
                           /\ files[p].gen = dev[d].gen /\ d \in ToSet(list)
    BY <1>2 DEF MaySwitch
  <2>2. dev[d].pc \notin Early \cup {"users"}
    BY <2>1 DEF HostInv, FileInv
  <2>3. \E i \in 1..Len(list) : list[i] = d
    BY <2>1 DEF ToSet, HostInv, LifeTypes
  <2>4. dev[d].pc \notin Unlisted /\ dev[d].pc \in Stages
    BY <2>3 DEF HostInv, ListInv, LifeTypes, DevRecs
  <2> QED
    BY <2>2, <2>4 DEF Stages, Early, Unlisted, Ends1, Ends2
<1> QED
  BY <1>1, <1>2

LEMMA OfflineGives ==
  ASSUME NEW D \in DevRecs, CardInv(D), D.resets < MaxResets,
         D.pc \in {"nodes", "bound"} \cup Ends1 \cup Ends2
  PROVE  OfflineTo(D, OfflineDev(D), FreedIrqs(D), FreedShared(D), FreedMisuse(D),
                   D.resets + 1, D.paired /\ ~D.offline /\ SwitchedInUse(D))
<1> DEFINE R == FreedIrqs(D)
           n == FreedShared(D)
           m == FreedMisuse(D)
           q == D.paired /\ ~D.offline /\ SwitchedInUse(D)
           F == [D EXCEPT !.irqs = R, !.shared = n, !.misuse = m]
<1>1. /\ D.irqs \in SUBSET Ids /\ D.lines \in SUBSET Ids /\ D.shared \in 0..(MaxResets + 1)
      /\ D.resets \in 0..MaxResets /\ D.irqs \subseteq D.lines /\ MaxResets \in Nat
      /\ D.shared \in Nat
  BY DeviceAssumption DEF DevRecs, CardInv, IrqInv
<1>2. UsedMisuse(D) \in SUBSET Misuses
  BY UsedIs
<1>3. /\ R \in SUBSET Ids /\ n \in 0..(MaxResets + 1) /\ R \in {{}, D.irqs} /\ n <= D.shared
      /\ D.resets + 1 \in 0..MaxResets /\ D.resets + 1 > 0
  BY <1>1 DEF FreedIrqs, FreedShared
<1>4. m \in SUBSET Misuses
  BY <1>2 DEF FreedMisuse, Misuses
<1>5. q \in BOOLEAN
  OBVIOUS
<1>6. Orderly(D) /\ ~D.offline /\ SwitchedInUse(D) =>
        R = {} /\ n = 0 /\ m \subseteq TwiceMisuse(D)
  <2> SUFFICES ASSUME Orderly(D), ~D.offline, SwitchedInUse(D)
               PROVE  R = {} /\ n = 0 /\ m \subseteq TwiceMisuse(D)
    OBVIOUS
  <2>1. D.shared = 0 /\ (D.irqs = D.lines \/ D.partly) /\ D.card.config \in D.bars
    BY DEF SwitchedInUse, Orderly, CardInv, IrqInv, HeldInv, InUse, Mapped
  <2>2. R = {} /\ n = 0
    BY <2>1, <1>1 DEF FreedIrqs, FreedShared
  <2>3. D.lines \subseteq D.irqs \/ D.partly
    BY <2>1
  <2>4. m \subseteq TwiceMisuse(D)
    BY <2>1, <2>3 DEF FreedMisuse, UsedMisuse, TwiceMisuse
  <2> QED
    BY <2>2, <2>4
<1>7. IrqsFreed(Used(D)) = F
  BY FreedIs
<1> HIDE DEF R, n, m, q
<1>8. F.resets = D.resets /\ F.paired = D.paired
  BY DEF DevRecs
<1>9. OfflineDev(D) = [F EXCEPT !.offline = TRUE, !.chOn = FALSE, !.userOn = FALSE,
                                !.resets = D.resets + 1, !.paired = q]
  BY <1>7, <1>8, Zenon DEF OfflineDev, q
<1>10. OfflineDev(D) = [D EXCEPT !.irqs = R, !.shared = n, !.misuse = m, !.offline = TRUE,
                                 !.chOn = FALSE, !.userOn = FALSE, !.resets = D.resets + 1,
                                 !.paired = q]
  BY <1>9 DEF DevRecs
<1>11. q <=> D.paired /\ ~D.offline /\ SwitchedInUse(D)
  BY DEF q
<1>12. OfflineValues(D, R, n, m, D.resets + 1, q)
  BY <1>3, <1>6, <1>11 DEF OfflineValues
<1>13. OfflineTo(D, OfflineDev(D), R, n, m, D.resets + 1, q)
  BY <1>3, <1>4, <1>5, <1>10, <1>12, Zenon DEF OfflineTo
<1> QED
  BY <1>13, Zenon DEF R, n, m, q

LEMMA OnlineGives ==
  ASSUME NEW D \in DevRecs, CardInv(D), load \in Loads,
         D.pc \in {"nodes", "bound"} \cup Ends1 \cup Ends2, D.shared <= MaxResets
  PROVE  \E R, H, n, m, c, u, q :
           OnlineTo(D, OnlineDev(D), R, H, n, m, c, u, q) /\ n >= D.shared
<1> DEFINE q == D.paired /\ D.offline /\ SwitchedInUse(D)
           um == UsedMisuse(D)
<1>1. /\ D.irqs \in SUBSET Ids /\ D.lines \in SUBSET Ids /\ D.shared \in Nat
      /\ D.irqs \subseteq D.lines /\ MaxResets \in Nat
      /\ D.chOn \in BOOLEAN /\ D.userOn \in BOOLEAN
  BY DeviceAssumption DEF DevRecs, CardInv, IrqInv
<1>2. um \in SUBSET Misuses /\ q \in BOOLEAN /\ load.poll \in BOOLEAN
  BY UsedIs, LoadFacts
<1>3. D.pc \in {"nodes", "bound"} \cup Ends1 =>
        D.lines = Handlers(D) /\ (D.irqs \in {{}, D.lines} \/ D.partly)
  BY DEF CardInv, IrqInv, InUse
<1>u. D.pc \in {"nodes", "bound"} /\ D.resets = 0 =>
        (D.irqs = D.lines \/ D.partly) /\ (D.card.users > 0 => D.userOn)
  <2> SUFFICES ASSUME D.pc \in {"nodes", "bound"}, D.resets = 0
               PROVE  (D.irqs = D.lines \/ D.partly) /\ (D.card.users > 0 => D.userOn)
    OBVIOUS
  <2>1. ~D.offline
    BY DEF CardInv, StageInv, InUse
  <2> QED
    BY <2>1 DEF CardInv, IrqInv, MaskInv, InUse
<1>4. Orderly(D) /\ D.offline /\ SwitchedInUse(D) =>
        D.shared = 0 /\ D.irqs = {} /\ um = D.misuse
  BY DEF SwitchedInUse, Orderly, CardInv, IrqInv, HeldInv, InUse, Mapped, UsedMisuse
<1>q. q <=> D.paired /\ D.offline /\ SwitchedInUse(D)
  OBVIOUS
<1>5. CASE load.poll
  <2>1. Used(D) = [D EXCEPT !.misuse = um]
    BY UsedIs
  <2> HIDE DEF um
  <2>2. Used(D).paired = D.paired
    BY <2>1 DEF DevRecs
  <2>3. OnlineDev(D) = [Used(D) EXCEPT !.offline = FALSE, !.paired = q]
    BY <1>5, <2>2 DEF OnlineDev
  <2> HIDE DEF q
  <2>4. OnlineDev(D) = [[D EXCEPT !.irqs = D.irqs, !.lines = D.lines, !.shared = D.shared,
                                  !.misuse = um]
                        EXCEPT !.chOn = D.chOn, !.userOn = D.userOn, !.offline = FALSE,
                               !.paired = q]
    <3> DEFINE B == [D EXCEPT !.misuse = um]
    <3>1. OnlineDev(D) = [B EXCEPT !.offline = FALSE, !.paired = q]
      BY <2>1, <2>3
    <3>2. B.chOn = D.chOn /\ B.userOn = D.userOn
      BY DEF DevRecs
    <3>3. [B EXCEPT !.offline = FALSE, !.paired = q] =
            [B EXCEPT !.chOn = D.chOn, !.userOn = D.userOn, !.offline = FALSE, !.paired = q]
      <4> HIDE DEF um
      <4>1. \A x \in DOMAIN B : x \in {"chOn"} => B[x] = D.chOn
        BY <3>2
      <4> QED
        BY <3>2, ZenonT(40) DEF DevRecs
    <3> QED
      BY <3>1, <3>3, HandlersUnchanged, Zenon
  <2>5. OnlineValues(D, D.irqs, D.lines, D.shared, um, D.chOn, D.userOn, q)
    BY <1>1, <1>3, <1>5, <1>q, <1>u DEF OnlineValues
  <2>6. D.shared \in 0..(MaxResets + 1) /\ D.shared <= D.shared + 1
    BY <1>1
  <2>7. OnlineTo(D, OnlineDev(D), D.irqs, D.lines, D.shared, um, D.chOn, D.userOn, q)
    BY <1>1, <1>2, <2>4, <2>5, <2>6, Zenon DEF OnlineTo
  <2> QED
    BY <1>1, <2>7
<1>6. CASE ~load.poll
  <2> DEFINE R == InstalledIrqs(D)
             H == InstalledLines(D)
             n == InstalledShared(D)
             F == [D EXCEPT !.irqs = R, !.lines = H, !.shared = n, !.misuse = um]
             u == D.card.users > 0
  <2>1. /\ R \in SUBSET Ids /\ H \in SUBSET Ids /\ n \in 0..(MaxResets + 1)
        /\ n <= D.shared + 1 /\ n >= D.shared /\ R \subseteq H
    BY <1>1, HandlersAreIds DEF InstalledIrqs, InstalledLines, InstalledShared
  <2>2. /\ D.pc \in {"nodes", "bound"} \cup Ends1 =>
             H = Handlers(D) /\ (R \in {{}, H} \/ D.partly)
        /\ D.pc \in {"nodes", "bound"} => R = H \/ D.partly
    BY <1>3 DEF InstalledIrqs, InstalledLines
  <2>3. Orderly(D) /\ D.offline /\ SwitchedInUse(D) => n = 0 /\ um = D.misuse
    BY <1>4 DEF InstalledShared
  <2>4. IrqsInstalled(Used(D)) = F
    BY InstalledIs
  <2>5. u \in BOOLEAN /\ (D.card.users > 0 => u) /\ TRUE \in BOOLEAN
    OBVIOUS
  <2> HIDE DEF R, H, n, um
  <2>6. F.paired = D.paired
    BY DEF DevRecs
  <2>7. OnlineDev(D) = [[F EXCEPT !.chOn = TRUE, !.userOn = u]
                        EXCEPT !.offline = FALSE, !.paired = q]
    BY <1>6, <2>4, <2>6 DEF OnlineDev
  <2> HIDE DEF q, u
  <2>8. OnlineDev(D) = [F EXCEPT !.chOn = TRUE, !.userOn = u, !.offline = FALSE, !.paired = q]
    BY <2>7 DEF DevRecs
  <2>9. OnlineValues(D, R, H, n, um, TRUE, u, q)
    BY <2>1, <2>2, <2>3, <2>5, <1>q DEF OnlineValues
  <2>10. OnlineTo(D, OnlineDev(D), R, H, n, um, TRUE, u, q)
    BY <1>2, <2>1, <2>5, <2>8, <2>9, Zenon DEF OnlineTo
  <2> QED
    BY <2>1, <2>10
<1> QED
  BY <1>5, <1>6

LEMMA IrqTeardownKeeps ==
  ASSUME HostInv, NEW d \in Devs, IrqTeardown(d), UNCHANGED <<load, given>>
  PROVE  HostInv'
<1>1. /\ dev[d] \in DevRecs /\ CardInv(dev[d]) /\ load \in Loads
      /\ dev[d].pc = "undo_irqs"
  BY HostCard DEF IrqTeardown, At
<1> DEFINE R == FreedIrqs(dev[d])
           n == FreedShared(dev[d])
           m == FreedMisuse(dev[d])
<1> DEFINE E == [[dev[d] EXCEPT !.irqs = R, !.shared = n, !.misuse = m]
                 EXCEPT !.pc = "undo_vectors"]
<1>a. /\ dev[d].irqs \subseteq dev[d].lines /\ dev[d].shared \in 0..(MaxResets + 1)
      /\ MaxResets \in Nat /\ UsedMisuse(dev[d]) \in SUBSET Misuses
  BY <1>1, UsedIs, DeviceAssumption DEF DevRecs, CardInv, IrqInv
<1>b. Orderly(dev[d]) =>
        /\ dev[d].shared = 0 /\ (dev[d].irqs = dev[d].lines \/ dev[d].partly)
        /\ dev[d].card.config \in dev[d].bars
  BY <1>1 DEF CardInv, IrqInv, HeldInv, Mapped, Ends1
<1>c. /\ R \in SUBSET dev[d].irqs /\ n \in 0..(MaxResets + 1) /\ m \in SUBSET Misuses
      /\ Orderly(dev[d]) => R = {} /\ n = 0 /\ m \subseteq TwiceMisuse(dev[d])
  <2>1. Orderly(dev[d]) => R = {} /\ n = 0
    BY <1>a, <1>b DEF FreedIrqs, FreedShared
  <2>4. Orderly(dev[d]) => m \subseteq TwiceMisuse(dev[d])
    <3>1. dev[d].irqs = dev[d].lines => dev[d].lines \subseteq dev[d].irqs
      OBVIOUS
    <3> QED
      BY <1>b, <3>1 DEF FreedMisuse, UsedMisuse, TwiceMisuse
  <2>2. /\ R \in SUBSET dev[d].irqs /\ n \in 0..(MaxResets + 1)
    BY <1>a DEF FreedIrqs, FreedShared
  <2>3. m \in SUBSET Misuses
    BY <1>a DEF FreedMisuse, Misuses
  <2> QED
    BY <2>1, <2>2, <2>3, <2>4
<1>d. IrqsFreed(Used(dev[d])) = [dev[d] EXCEPT !.irqs = R, !.shared = n, !.misuse = m]
  BY <1>1, FreedIs
<1> HIDE DEF R, n, m
<1>2. dev' = [dev EXCEPT ![d] = E] /\ UNCHANGED <<list, threads, mod, files>>
  BY <1>d DEF IrqTeardown, Advance
<1>3. E \in DevRecs /\ CardInv(E)
  BY <1>1, <1>c, KeptByTeardown
<1>4. Steady(dev[d], E)
  BY <1>1 DEF Steady, DevRecs, CardInv, StageInv, Unlisted, Early, InUse, Ends1, Ends2
<1> HIDE DEF E
<1> QED
  BY <1>2, <1>3, <1>4, SteadyStep DEF CardTurns

LEMMA OfflineKeeps ==
  ASSUME HostInv, NEW d \in Devs, Offline(d), UNCHANGED <<load, given>>
  PROVE  HostInv'
<1> DEFINE E == OfflineDev(dev[d])
<1>1. /\ dev[d] \in DevRecs /\ CardInv(dev[d]) /\ dev[d].resets < MaxResets
      /\ dev[d].pc \in {"nodes", "bound"} \cup Ends1 \cup Ends2
  BY HostCard, SwitchedWhere DEF Offline
<1>2. dev' = [dev EXCEPT ![d] = E] /\ UNCHANGED <<list, threads, mod, files>>
  BY DEF Offline, SetDev
<1>3. E \in DevRecs /\ CardInv(E)
  BY <1>1, OfflineGives, KeptByOffline
<1>4. /\ E.pc = dev[d].pc /\ E.idx = dev[d].idx /\ E.eng = dev[d].eng /\ E.gen = dev[d].gen
      /\ E.fault = dev[d].fault
  BY <1>1, OfflineGives, ZenonT(40) DEF OfflineTo, DevRecs
<1>5. Steady(dev[d], E)
  BY <1>4 DEF Steady
<1> HIDE DEF E
<1> QED
  BY <1>2, <1>3, <1>5, SteadyStep DEF CardTurns

LEMMA ErrorDetectedKeeps ==
  ASSUME HostInv, NEW d \in Devs, ErrorDetected(d), UNCHANGED <<load, given>>
  PROVE  HostInv'
<1> DEFINE F == OfflineDev(dev[d])
           E == [F EXCEPT !.frozen = TRUE, !.enabled = dev[d].enabled - 1]
           n == FreedShared(dev[d])
<1>1. /\ dev[d] \in DevRecs /\ CardInv(dev[d]) /\ dev[d].resets < MaxResets
      /\ dev[d].pc = "bound" /\ ~dev[d].frozen
      /\ dev[d].pc \in {"nodes", "bound"} \cup Ends1 \cup Ends2
  BY HostCard DEF ErrorDetected, At
<1>2. /\ F.pc = dev[d].pc /\ F.idx = dev[d].idx /\ F.eng = dev[d].eng /\ F.gen = dev[d].gen
      /\ F.fault = dev[d].fault /\ F.enabled = dev[d].enabled
  BY <1>1, OfflineGives, ZenonT(40) DEF OfflineTo, DevRecs
<1>3. F \in DevRecs
  BY <1>1, OfflineGives, KeptByOffline
<1>4. dev' = [dev EXCEPT ![d] = E] /\ UNCHANGED <<list, threads, mod, files>>
  BY <1>2 DEF ErrorDetected, SetDev
<1>5. n <= MaxResets
  BY <1>1, DeviceAssumption DEF FreedShared, DevRecs
<1>6. E \in DevRecs /\ CardInv(E)
  <2>1. FrozenTo(F, E, TRUE, dev[d].enabled - 1)
    BY Zenon DEF FrozenTo
  <2>2. OfflineTo(dev[d], F, FreedIrqs(dev[d]), n, FreedMisuse(dev[d]), dev[d].resets + 1,
                  dev[d].paired /\ ~dev[d].offline /\ SwitchedInUse(dev[d]))
    BY <1>1, OfflineGives
  <2> HIDE DEF E, F, n
  <2> QED
    BY <1>1, <1>5, <2>1, <2>2, KeptByFreeze
<1> HIDE DEF F
<1>7. /\ E.pc = dev[d].pc /\ E.idx = dev[d].idx /\ E.eng = dev[d].eng /\ E.gen = dev[d].gen
      /\ E.fault = dev[d].fault
  BY <1>2, <1>3 DEF DevRecs
<1>8. Steady(dev[d], E)
  BY <1>7 DEF Steady
<1> HIDE DEF E
<1> QED
  BY <1>4, <1>6, <1>8, SteadyStep DEF CardTurns

\* Nothing that the others know of a card changes.
Alike(D, E) ==
  /\ E.pc = D.pc /\ E.idx = D.idx /\ E.eng = D.eng /\ E.gen = D.gen /\ E.fault = D.fault

LEMMA AlikeIsSteady ==
  ASSUME NEW D, NEW E, Alike(D, E)
  PROVE  Steady(D, E)
BY DEF Alike, Steady

\* What a card that goes online has got, all of it or a part
LEMMA BackOnlineIs ==
  ASSUME NEW D \in DevRecs, CardInv(D), load \in Loads,
         D.pc \in {"nodes", "bound"} \cup Ends1 \cup Ends2, NEW B \in BackOnline(D)
  PROVE  \/ B = OnlineDev(D)
         \/ \E R \in SUBSET Ids, H \in SUBSET Ids :
              /\ R \subseteq H /\ PartlyTo(OnlineDev(D), B, R, H, D.shared)
              /\ D.pc \in InUse \cup Ends1 => H = Handlers(D)
<1>1. CASE B = OnlineDev(D)
  BY <1>1
<1>2. CASE B # OnlineDev(D)
  <2>1. PICK got \in (IF D.irqs = {} THEN InstalledPartly(D) ELSE {{}}) :
          B = OnlinePartly(D, got)
    BY <1>2 DEF BackOnline
  <2>2. got \subseteq Handlers(D) /\ Handlers(D) \subseteq Ids
    BY <2>1, PartlyAreHandlers, HandlersAreIds
  <2> DEFINE R == D.irqs \cup got
             H == D.lines \cup got
  <2>3. R \in SUBSET Ids /\ H \in SUBSET Ids /\ R \subseteq H
    BY <2>2 DEF DevRecs, CardInv, IrqInv
  <2>4. D.pc \in InUse \cup Ends1 => H = Handlers(D)
    BY <2>2 DEF CardInv, IrqInv
  <2>5. PartlyTo(OnlineDev(D), B, R, H, D.shared)
    BY <2>1, Zenon DEF PartlyTo, OnlinePartly
  <2> QED
    BY <2>3, <2>4, <2>5
<1> QED
  BY <1>1, <1>2

\* A card that goes online is the one that it was.
SameCard(D, F) ==
  /\ F.pc = D.pc /\ F.idx = D.idx /\ F.eng = D.eng /\ F.gen = D.gen
  /\ F.fault = D.fault /\ F.enabled = D.enabled /\ F.frozen = D.frozen /\ F.card = D.card
  /\ ~F.offline /\ F.shared >= D.shared
  /\ F.paired => D.paired /\ SwitchedInUse(D)

LEMMA OnlineIsSame ==
  ASSUME NEW D \in DevRecs, CardInv(D), load \in Loads,
         D.pc \in {"nodes", "bound"} \cup Ends1 \cup Ends2, D.shared <= MaxResets
  PROVE  SameCard(D, OnlineDev(D)) /\ OnlineDev(D) \in DevRecs
<1> DEFINE F == OnlineDev(D)
<1>1. PICK R, H, n, m, c, u, q : OnlineTo(D, F, R, H, n, m, c, u, q) /\ n >= D.shared
  BY OnlineGives
<1> HIDE DEF F
<1>2. /\ R \in SUBSET Ids /\ H \in SUBSET Ids /\ n \in 0..(MaxResets + 1)
      /\ m \in SUBSET Misuses /\ c \in BOOLEAN /\ u \in BOOLEAN /\ q \in BOOLEAN
  BY <1>1, Zenon DEF OnlineTo
<1>3. F \in DevRecs
  <2> DEFINE T == [D EXCEPT !.irqs = R, !.lines = H, !.shared = n, !.misuse = m]
             G == [T EXCEPT !.chOn = c, !.userOn = u, !.offline = FALSE, !.paired = q]
  <2>1. T \in DevRecs
    BY <1>2, TypedHandlers, Zenon
  <2> HIDE DEF T
  <2>2. G \in DevRecs
    BY <1>2, <2>1, TypedSwitched, Zenon
  <2> QED
    BY <1>1, <2>2, Zenon DEF OnlineTo, T
<1>4. SameCard(D, F)
  BY <1>1 DEF OnlineTo, OnlineValues, DevRecs, SameCard
<1> QED
  BY <1>3, <1>4 DEF F

LEMMA OnlineKeeps ==
  ASSUME HostInv, NEW d \in Devs, Online(d), UNCHANGED <<load, given>>
  PROVE  HostInv'
<1> DEFINE D == dev[d]
           F == OnlineDev(D)
<1>1. /\ D \in DevRecs /\ CardInv(D) /\ load \in Loads
      /\ D.pc \in {"nodes", "bound"} \cup Ends1 \cup Ends2
      /\ D.shared < MaxResets /\ D.shared \in Nat /\ MaxResets \in Nat
  BY HostCard, SwitchedWhere, DeviceAssumption DEF Online, DevRecs
<1>2. PICK E \in BackOnline(D) : SetDev(d, E)
  BY DEF Online
<1>3. dev' = [dev EXCEPT ![d] = E] /\ UNCHANGED <<list, threads, mod, files>>
  BY <1>2 DEF SetDev
<1>4. PICK R, H, n, m, c, u, q : OnlineTo(D, F, R, H, n, m, c, u, q)
  BY <1>1, OnlineGives
<1>5. SameCard(D, F)
  BY <1>1, OnlineIsSame
<1> HIDE DEF D, F
<1>6. n <= MaxResets
  BY <1>1, <1>4 DEF OnlineTo
<1>7. F \in DevRecs /\ CardInv(F)
  BY <1>1, <1>4, <1>6, KeptByOnline
<1>8. E \in DevRecs /\ CardInv(E) /\ Alike(D, E)
  <2>1. CASE E = F
    BY <1>5, <1>7, <2>1 DEF SameCard, Alike
  <2>2. CASE E # F
    <3>1. PICK S \in SUBSET Ids, L \in SUBSET Ids :
            /\ S \subseteq L /\ PartlyTo(F, E, S, L, D.shared)
            /\ D.pc \in InUse \cup Ends1 => L = Handlers(D)
      BY <1>1, <1>2, <2>2, BackOnlineIs DEF F
    <3>2. Handlers(F) = Handlers(D) /\ F.pc = D.pc /\ ~F.offline /\ D.shared <= F.shared
      BY <1>5, <1>7 DEF SameCard, Handlers, Channels, UserHandlers, DevRecs
    <3>3. Orderly(F) => F.pc \in {"nodes", "bound"}
      BY <1>5, <3>2 DEF SameCard, Orderly, SwitchedInUse
    <3>4. D.shared \in 0..(MaxResets + 1)
      BY <1>1
    <3>5. E \in DevRecs /\ CardInv(E)
      BY <1>1, <1>7, <3>1, <3>2, <3>3, <3>4, KeptByPartly
    <3>6. Alike(D, E)
      BY <1>5, <1>7, <3>1 DEF SameCard, PartlyTo, Alike, DevRecs
    <3> QED
      BY <3>5, <3>6
  <2> QED
    BY <2>1, <2>2
<1>9. Steady(D, E)
  BY <1>8, AlikeIsSteady
<1> QED
  BY <1>3, <1>8, <1>9, SteadyStep DEF CardTurns, D

LEMMA SlotResetKeeps ==
  ASSUME HostInv, NEW d \in Devs, SlotReset(d), UNCHANGED <<load, given>>
  PROVE  HostInv'
<1> DEFINE D == dev[d]
           F == OnlineDev(D)
           k == D.enabled + 1
           G == [F EXCEPT !.frozen = FALSE, !.enabled = k]
<1>1. /\ D \in DevRecs /\ CardInv(D) /\ load \in Loads
      /\ D.pc = "bound" /\ D.frozen
      /\ D.pc \in {"nodes", "bound"} \cup Ends1 \cup Ends2
  BY HostCard DEF SlotReset, At
<1>2. D.shared <= MaxResets /\ D.shared \in 0..(MaxResets + 1)
  BY <1>1 DEF CardInv, IrqInv, DevRecs
<1>3. PICK R, H, n, m, c, u, q : OnlineTo(D, F, R, H, n, m, c, u, q)
  BY <1>1, <1>2, OnlineGives
<1>4. PICK B \in BackOnline(D) :
        /\ dev' = [dev EXCEPT ![d] = [B EXCEPT !.frozen = FALSE, !.enabled = B.enabled + 1]]
        /\ UNCHANGED <<list, threads, mod, files>>
  BY DEF SlotReset, SetDev
<1>5. SameCard(D, F) /\ F \in DevRecs
  BY <1>1, <1>2, OnlineIsSame
<1>6. \/ B = F
      \/ \E S \in SUBSET Ids, L \in SUBSET Ids :
           /\ S \subseteq L /\ PartlyTo(F, B, S, L, D.shared)
           /\ D.pc \in InUse \cup Ends1 => L = Handlers(D)
  BY <1>1, BackOnlineIs
<1> HIDE DEF D, F
<1>7. G \in DevRecs /\ CardInv(G)
  <2>1. FrozenTo(F, G, FALSE, D.enabled + 1)
    BY Zenon DEF FrozenTo
  <2> HIDE DEF G
  <2> QED
    BY <1>1, <1>3, <2>1, KeptByUnfreeze
<1>8. /\ G.pc = D.pc /\ G.idx = D.idx /\ G.eng = D.eng /\ G.gen = D.gen
      /\ G.fault = D.fault /\ G.card = D.card /\ ~G.offline /\ D.shared <= G.shared
  BY <1>5 DEF SameCard, DevRecs
<1> DEFINE E == [B EXCEPT !.frozen = FALSE, !.enabled = B.enabled + 1]
<1>9. E \in DevRecs /\ CardInv(E) /\ Alike(D, E)
  <2>1. CASE B = F
    <3>1. E = G
      BY <1>5, <2>1 DEF SameCard
    <3> QED
      BY <1>7, <1>8, <3>1 DEF Alike
  <2>2. CASE B # F
    <3>1. PICK S \in SUBSET Ids, L \in SUBSET Ids :
            /\ S \subseteq L /\ PartlyTo(F, B, S, L, D.shared)
            /\ D.pc \in InUse \cup Ends1 => L = Handlers(D)
      BY <1>6, <2>2
    <3>2. B.enabled + 1 = k
      BY <1>5, <3>1 DEF SameCard, PartlyTo, DevRecs
    <3>3. E = [[F EXCEPT !.irqs = S, !.lines = L, !.shared = D.shared, !.partly = TRUE]
               EXCEPT !.frozen = FALSE, !.enabled = k]
      BY <3>1, <3>2 DEF PartlyTo
    <3> HIDE DEF k
    <3>4. E = [G EXCEPT !.irqs = S, !.lines = L, !.shared = D.shared, !.partly = TRUE]
      <4> HIDE DEF E
      <4> QED
        BY <1>5, <3>3, ZenonT(40) DEF DevRecs
    <3> HIDE DEF E, G
    <3>5. PartlyTo(G, E, S, L, D.shared)
      BY <3>4, Zenon DEF PartlyTo
    <3>6. Handlers(G) = Handlers(D)
      BY <1>8 DEF Handlers, Channels, UserHandlers
    <3>7. E \in DevRecs /\ CardInv(E)
      BY <1>1, <1>2, <1>7, <1>8, <3>1, <3>5, <3>6, KeptByPartly
    <3>8. Alike(D, E)
      BY <1>7, <1>8, <3>4 DEF Alike, DevRecs
    <3> QED
      BY <3>7, <3>8
  <2> QED
    BY <2>1, <2>2
<1>10. Steady(D, E)
  BY <1>9, AlikeIsSteady
<1> HIDE DEF E
<1> QED
  BY <1>4, <1>9, <1>10, SteadyStep DEF CardTurns, D, E

-----------------------------------------------------------------------------
(* Those who use a card                                                    *)

TouchedMisuse(D, who) == IF D.xdev = "live" THEN D.misuse ELSE D.misuse \cup {who}

LEMMA UseIs ==
  ASSUME NEW D \in DevRecs, NEW m, NEW x
  PROVE  /\ [[D EXCEPT !.misuse = m] EXCEPT !.work = x]
              = [D EXCEPT !.misuse = m, !.work = x, !.events = D.events]
         /\ [[D EXCEPT !.misuse = m] EXCEPT !.events = x]
              = [D EXCEPT !.misuse = m, !.work = D.work, !.events = x]
         /\ [D EXCEPT !.misuse = m]
              = [D EXCEPT !.misuse = m, !.work = D.work, !.events = D.events]
BY ZenonT(40) DEF DevRecs

LEMMA TouchedIs ==
  ASSUME NEW D \in DevRecs, NEW who \in Misuses
  PROVE  /\ Touched(D, who) = [D EXCEPT !.misuse = TouchedMisuse(D, who)]
         /\ TouchedMisuse(D, who) \in SUBSET Misuses
<1>1. D.misuse \in SUBSET Misuses
  BY DEF DevRecs
<1>2. [D EXCEPT !.misuse = D.misuse] = D
  BY DEF DevRecs
<1> QED
  BY <1>1, <1>2 DEF Touched, Alive, TouchedMisuse

LEMMA UsedCard ==
  ASSUME NEW D \in DevRecs, CardInv(D), NEW m \in SUBSET Misuses, NEW w \in SUBSET Ids,
         NEW v \in SUBSET Nat,
         Orderly(D) /\ D.fault # "irqs" => m \subseteq D.misuse \cup {"work"}
           \cup (IF load.unplug \/ D.fault = "nodes" THEN {"file"} ELSE {}),
         NEW E, E = [D EXCEPT !.misuse = m, !.work = w, !.events = v]
  PROVE  E \in DevRecs /\ CardInv(E) /\ Alike(D, E)
<1>1. E \in DevRecs /\ CardInv(E)
  BY KeptByUse
<1> QED
  BY <1>1 DEF Alike, DevRecs

LEMMA ChannelInterruptKeeps ==
  ASSUME HostInv, NEW d \in Devs, ChannelInterrupt(d), UNCHANGED <<load, given>>
  PROVE  HostInv'
<1> DEFINE D == dev[d]
           T == Touched(D, "handler")
<1>1. PICK e \in D.eng \cup D.irqs :
        /\ D.chOn \/ (D.fault = "irqs" /\ D.pc = "absent")
        /\ SetDev(d, [Used(T) EXCEPT !.work = Used(T).work \cup {e}])
  BY DEF ChannelInterrupt, At
<1>2. D \in DevRecs /\ CardInv(D)
  BY HostCard
<1>3. e \in Ids /\ D.work \in SUBSET Ids
  BY <1>2 DEF DevRecs
<1> DEFINE m1 == TouchedMisuse(D, "handler")
           m == IF D.card.config \in D.bars THEN m1 ELSE m1 \cup {"bar"}
           w == D.work \cup {e}
           E == [D EXCEPT !.misuse = m, !.work = w, !.events = D.events]
<1>4. T = [D EXCEPT !.misuse = m1] /\ m1 \in SUBSET Misuses
  BY <1>2, TouchedIs DEF Misuses
<1>5. m \in SUBSET Misuses
  BY <1>4 DEF Misuses
<1>6. Orderly(D) /\ D.fault # "irqs" => m = D.misuse
  <2> SUFFICES ASSUME Orderly(D), D.fault # "irqs"
               PROVE  m = D.misuse
    OBVIOUS
  <2>1. D.pc \in Live
    BY <1>1, <1>2 DEF CardInv, MaskInv
  <2>2. D.xdev = "live" /\ D.card.config \in D.bars
    BY <1>2, <2>1 DEF CardInv, StageInv, HeldInv, Live, Mapped
  <2> QED
    BY <2>2 DEF TouchedMisuse
<1>7. Used(T) = [D EXCEPT !.misuse = m]
  <2> HIDE DEF m1
  <2>1. T.card = D.card /\ T.bars = D.bars /\ T.misuse = m1
    BY <1>2, <1>4 DEF DevRecs
  <2>2. CASE D.card.config \in D.bars
    BY <1>4, <2>1, <2>2 DEF Used
  <2>3. CASE D.card.config \notin D.bars
    <3>1. Used(T) = [T EXCEPT !.misuse = m1 \cup {"bar"}]
      BY <2>1, <2>3 DEF Used
    <3> QED
      BY <3>1, <1>2, <1>4, <2>3, ZenonT(40) DEF DevRecs
  <2> QED
    BY <2>2, <2>3
<1> HIDE DEF m
<1>8. Used(T).work = D.work
  BY <1>2, <1>7 DEF DevRecs
<1>9. [Used(T) EXCEPT !.work = Used(T).work \cup {e}] = E
  <2> HIDE DEF D
  <2> QED
    BY <1>2, <1>7, <1>8, UseIs, Zenon
<1>10. E \in DevRecs /\ CardInv(E) /\ Alike(D, E)
  <2>1. w \in SUBSET Ids /\ D.events \in SUBSET Nat
    BY <1>2, <1>3 DEF DevRecs
  <2> HIDE DEF D, w
  <2> QED
    BY <1>2, <1>5, <1>6, <2>1, UsedCard
<1>11. dev' = [dev EXCEPT ![d] = E] /\ UNCHANGED <<list, threads, mod, files>>
  BY <1>1, <1>9, Zenon DEF SetDev
<1> HIDE DEF E
<1> QED
  BY <1>10, <1>11, AlikeIsSteady, SteadyStep DEF CardTurns

LEMMA WorkKeeps ==
  ASSUME HostInv, NEW d \in Devs, Work(d), UNCHANGED <<load, given>>
  PROVE  HostInv'
<1> DEFINE D == dev[d]
           T == Touched(D, "work")
           m == TouchedMisuse(D, "work")
<1>1. PICK e \in D.work : SetDev(d, [T EXCEPT !.work = T.work \ {e}])
  BY DEF Work
<1> DEFINE E == [D EXCEPT !.misuse = m, !.work = D.work \ {e}, !.events = D.events]
<1>2. D \in DevRecs /\ CardInv(D)
  BY HostCard
<1>3. T = [D EXCEPT !.misuse = m] /\ m \in SUBSET Misuses
  BY <1>2, TouchedIs DEF Misuses
<1>4. m \subseteq D.misuse \cup {"work"}
  BY DEF TouchedMisuse
<1> HIDE DEF m
<1>5. T.work = D.work
  BY <1>2, <1>3 DEF DevRecs
<1>6. [T EXCEPT !.work = T.work \ {e}] = E
  <2> HIDE DEF D
  <2> QED
    BY <1>2, <1>3, <1>5, UseIs, Zenon
<1>7. E \in DevRecs /\ CardInv(E) /\ Alike(D, E)
  <2>1. D.work \ {e} \in SUBSET Ids /\ D.events \in SUBSET Nat
    BY <1>2 DEF DevRecs
  <2> HIDE DEF D
  <2> QED
    BY <1>2, <1>3, <1>4, <2>1, UsedCard
<1>8. dev' = [dev EXCEPT ![d] = E] /\ UNCHANGED <<list, threads, mod, files>>
  BY <1>1, <1>6, Zenon DEF SetDev
<1> HIDE DEF E
<1> QED
  BY <1>7, <1>8, AlikeIsSteady, SteadyStep DEF CardTurns

LEMMA UserInterruptKeeps ==
  ASSUME HostInv, NEW d \in Devs, UserInterrupt(d), UNCHANGED <<load, given>>
  PROVE  HostInv'
<1> DEFINE D == dev[d]
           T == Touched(D, "handler")
           m == TouchedMisuse(D, "handler")
<1>1. PICK u \in 0..(D.card.users - 1) :
        D.userOn /\ SetDev(d, [T EXCEPT !.events = T.events \cup {u}])
  BY DEF UserInterrupt
<1> DEFINE E == [D EXCEPT !.misuse = m, !.work = D.work, !.events = D.events \cup {u}]
<1>2. D \in DevRecs /\ CardInv(D)
  BY HostCard
<1>3. T = [D EXCEPT !.misuse = m] /\ m \in SUBSET Misuses
  BY <1>2, TouchedIs DEF Misuses
<1>4. Orderly(D) => m = D.misuse
  <2> SUFFICES ASSUME Orderly(D)
               PROVE  m = D.misuse
    OBVIOUS
  <2>1. D.pc \in Live
    BY <1>1, <1>2 DEF CardInv, MaskInv
  <2>2. D.xdev = "live"
    BY <1>2, <2>1 DEF CardInv, StageInv, Live
  <2> QED
    BY <2>2 DEF TouchedMisuse
<1> HIDE DEF m
<1>5. T.events = D.events
  BY <1>2, <1>3 DEF DevRecs
<1>6. [T EXCEPT !.events = T.events \cup {u}] = E
  <2> HIDE DEF D
  <2> QED
    BY <1>2, <1>3, <1>5, UseIs, Zenon
<1>7. E \in DevRecs /\ CardInv(E) /\ Alike(D, E)
  <2>1. D.work \in SUBSET Ids /\ D.events \cup {u} \in SUBSET Nat
    BY <1>1, <1>2 DEF DevRecs, CardRecs
  <2> HIDE DEF D
  <2> QED
    BY <1>2, <1>3, <1>4, <2>1, UsedCard
<1>8. dev' = [dev EXCEPT ![d] = E] /\ UNCHANGED <<list, threads, mod, files>>
  BY <1>1, <1>6, Zenon DEF SetDev
<1> HIDE DEF E
<1> QED
  BY <1>7, <1>8, AlikeIsSteady, SteadyStep DEF CardTurns

LEMMA PollEngineKeeps ==
  ASSUME HostInv, PollEngine, UNCHANGED <<load, given>>
  PROVE  HostInv'
<1>0. DOMAIN threads.work = 1..threads.cnt
  BY DEF HostInv, LifeTypes
<1>a. PICK i \in 1..threads.cnt : \E x \in threads.work[i] :
        SetDev(x[1], IF x[2] \in dev[x[1]].eng THEN dev[x[1]]
                     ELSE [dev[x[1]] EXCEPT !.misuse = @ \cup {"poll"}])
  BY <1>0 DEF PollEngine
<1>1. PICK x \in threads.work[i] :
        SetDev(x[1], IF x[2] \in dev[x[1]].eng THEN dev[x[1]]
                     ELSE [dev[x[1]] EXCEPT !.misuse = @ \cup {"poll"}])
  BY <1>a
<1>2. x[1] \in Devs /\ x[2] \in dev[x[1]].eng
  BY DEF HostInv, LifeTypes, ThreadInv
<1> DEFINE E == dev[x[1]]
<1>3. dev' = [dev EXCEPT ![x[1]] = E] /\ UNCHANGED <<list, threads, mod, files>>
  BY <1>1, <1>2 DEF SetDev
<1>4. E \in DevRecs /\ CardInv(E)
  BY <1>2, HostCard
<1>5. Steady(dev[x[1]], E)
  BY DEF Steady
<1> HIDE DEF E
<1> QED
  BY <1>2, <1>3, <1>4, <1>5, SteadyStep DEF CardTurns

-----------------------------------------------------------------------------
(* The files                                                               *)

\* The card of a file is used.
LEMMA FileTouch ==
  ASSUME HostInv, NEW p \in Procs, files[p].st # "none", NEW v \in SUBSET Nat, NEW E,
         E = FileTouched(p) \/ E = [FileTouched(p) EXCEPT !.events = v]
  PROVE  /\ files[p].d \in Devs /\ E \in DevRecs /\ CardInv(E) /\ Alike(dev[files[p].d], E)
<1> DEFINE D == dev[files[p].d]
           m == IF files[p].gen = D.gen THEN TouchedMisuse(D, "file")
                ELSE D.misuse \cup {"file"}
<1>1. /\ mod.st = "live" /\ files[p].d \in Devs
      /\ ~load.unplug => /\ files[p].gen = D.gen
                         /\ D.pc \in {"nodes", "bound"} \/ D.fault = "nodes"
  BY DEF HostInv, FileInv
<1>2. D \in DevRecs /\ CardInv(D)
  BY <1>1, HostCard
<1>3. m \in SUBSET Misuses /\ FileTouched(p) = [D EXCEPT !.misuse = m]
  <2>1. Touched(D, "file") = [D EXCEPT !.misuse = TouchedMisuse(D, "file")]
        /\ TouchedMisuse(D, "file") \in SUBSET Misuses /\ D.misuse \cup {"file"} \in SUBSET Misuses
    BY <1>2, TouchedIs, ZenonT(40) DEF Misuses, DevRecs
  <2> QED
    BY <2>1 DEF FileTouched
<1>4. Orderly(D) /\ D.fault # "irqs" => m \subseteq D.misuse \cup {"work"}
        \cup (IF load.unplug \/ D.fault = "nodes" THEN {"file"} ELSE {})
  <2>1. CASE load.unplug \/ D.fault = "nodes"
    BY <2>1 DEF TouchedMisuse
  <2>2. CASE ~load.unplug /\ D.fault # "nodes"
    <3>1. D.xdev = "live" /\ files[p].gen = D.gen
      BY <1>1, <1>2, <2>2 DEF CardInv, StageInv
    <3> QED
      BY <3>1 DEF TouchedMisuse
  <2> QED
    BY <2>1, <2>2
<1>5. D.work \in SUBSET Ids /\ D.events \in SUBSET Nat
  BY <1>2 DEF DevRecs
<1> HIDE DEF D, m
<1>6. CASE E = FileTouched(p)
  <2>1. E = [D EXCEPT !.misuse = m, !.work = D.work, !.events = D.events]
    BY <1>2, <1>3, <1>6, UseIs, Zenon
  <2>2. E \in DevRecs /\ CardInv(E) /\ Alike(D, E)
    BY <1>2, <1>3, <1>4, <1>5, <2>1, UsedCard
  <2> QED
    BY <1>1, <2>2 DEF D
<1>7. CASE E = [FileTouched(p) EXCEPT !.events = v]
  <2>1. E = [D EXCEPT !.misuse = m, !.work = D.work, !.events = v]
    BY <1>2, <1>3, <1>7, UseIs, Zenon
  <2>2. E \in DevRecs /\ CardInv(E) /\ Alike(D, E)
    BY <1>2, <1>3, <1>4, <1>5, <2>1, UsedCard
  <2> QED
    BY <1>1, <2>2 DEF D
<1> QED
  BY <1>6, <1>7

\* A file that is as the invariant says
GoodFile(f) ==
  f.st # "none" =>
    /\ mod.st = "live" /\ f.d \in Devs /\ f.node \in NodeNames
    /\ f.gen <= dev[f.d].gen
    /\ f.gen = dev[f.d].gen => dev[f.d].pc \notin Early \cup {"users"}
    /\ ~load.unplug => /\ f.gen = dev[f.d].gen
                       /\ dev[f.d].pc \in {"nodes", "bound"} \/ dev[f.d].fault = "nodes"

LEMMA FileStep ==
  ASSUME HostInv, NEW d, NEW E, CardTurns(d, E), Alike(dev[d], E), NEW p \in Procs,
         NEW f \in FileRecs, GoodFile(f), files' = [files EXCEPT ![p] = f],
         UNCHANGED <<list, threads, mod>>
  PROVE  HostInv'
<1>1. Steady(dev[d], E)
  BY AlikeIsSteady
<1>2. /\ dev' \in [Devs -> DevRecs] /\ Cards' /\ load' \in Loads /\ given' \in StubSituations
      /\ d \in Devs /\ dev'[d] = E /\ \A x \in Devs : x # d => dev'[x] = dev[x]
  BY CardTurned DEF HostInv
<1>3. ListInv' /\ ThreadInv' /\ ModInv'
  <2>1. E.eng = dev[d].eng /\ threads'.cnt = threads.cnt /\ threads'.work = threads.work
    BY DEF Alike
  <2> QED
    BY <1>1, <2>1, ListKept, ThreadsKept, ModuleKept
<1>4. files' \in [Procs -> FileRecs] /\ files'[p] = f
      /\ \A x \in Procs : x # p => files'[x] = files[x]
  BY DEF HostInv, LifeTypes
<1>5. LifeTypes'
  BY <1>2, <1>4 DEF HostInv, LifeTypes
<1>6. FileInv'
  <2>1. \A x \in Devs : /\ dev'[x].gen = dev[x].gen /\ dev'[x].pc = dev[x].pc
                        /\ dev'[x].fault = dev[x].fault
    BY <1>2 DEF Alike
  <2>2. load' = load /\ mod' = mod
    BY DEF CardTurns
  <2>3. \A x \in Procs : GoodFile(files'[x])
    <3>1. \A x \in Procs : GoodFile(files[x])
      BY DEF HostInv, FileInv, GoodFile
    <3> QED
      BY <1>4, <3>1
  <2>4. ASSUME NEW x \in Procs
        PROVE  LET g == files'[x] IN g.st # "none" =>
                 /\ mod'.st = "live" /\ g.d \in Devs /\ g.node \in NodeNames
                 /\ g.gen <= dev'[g.d].gen
                 /\ g.gen = dev'[g.d].gen => dev'[g.d].pc \notin Early \cup {"users"}
                 /\ ~load'.unplug =>
                      /\ g.gen = dev'[g.d].gen
                      /\ dev'[g.d].pc \in {"nodes", "bound"} \/ dev'[g.d].fault = "nodes"
    BY <2>1, <2>2, <2>3 DEF GoodFile
  <2> QED
    BY <2>4 DEF FileInv
<1> QED
  BY <1>2, <1>3, <1>5, <1>6 DEF HostInv

\* Reading and closing
LEMMA FileUseKeeps ==
  ASSUME HostInv, NEW p \in Procs, files[p].st # "none", NEW v \in SUBSET Nat, NEW E,
         E = FileTouched(p) \/ E = [FileTouched(p) EXCEPT !.events = v],
         NEW f, f = NoFile \/ \E s \in {"open", "reading", "woken"} :
                                f = [files[p] EXCEPT !.st = s],
         dev' = [dev EXCEPT ![files[p].d] = E], files' = [files EXCEPT ![p] = f],
         UNCHANGED <<load, given, list, threads, mod>>
  PROVE  HostInv'
<1>1. /\ files[p].d \in Devs /\ E \in DevRecs /\ CardInv(E) /\ Alike(dev[files[p].d], E)
  BY FileTouch
<1>2. files[p] \in FileRecs /\ GoodFile(files[p])
  BY DEF HostInv, LifeTypes, FileInv, GoodFile
<1>3. f \in FileRecs /\ GoodFile(f)
  <2>1. CASE f = NoFile
    BY <2>1 DEF NoFile, FileRecs, GoodFile
  <2>2. CASE f # NoFile
    <3>1. PICK s \in {"open", "reading", "woken"} : f = [files[p] EXCEPT !.st = s]
      BY <2>2
    <3> QED
      BY <1>2, <3>1 DEF FileRecs, GoodFile
  <2> QED
    BY <2>1, <2>2
<1>4. CardTurns(files[p].d, E)
  BY <1>1 DEF CardTurns
<1> QED
  BY <1>1, <1>3, <1>4, FileStep

LEMMA CloseKeeps ==
  ASSUME HostInv, NEW p \in Procs, UNCHANGED <<load, given>>,
         Close(p) \/ ReadEvents(p) \/ ReadWakes(p) \/ ReadInterrupted(p)
  PROVE  HostInv'
<1> DEFINE E == FileTouched(p)
<1>1. PICK f : /\ f = NoFile \/ \E s \in {"open", "reading", "woken"} :
                                  f = [files[p] EXCEPT !.st = s]
               /\ files' = [files EXCEPT ![p] = f]
  <2>1. CASE Close(p)
    BY <2>1 DEF Close
  <2>2. CASE ReadEvents(p)
    <3>1. files' = [files EXCEPT ![p] = [files[p] EXCEPT !.st = "reading"]]
      BY <2>2 DEF ReadEvents
    <3> QED
      BY <3>1
  <2>3. CASE ReadWakes(p)
    <3>1. files' = [files EXCEPT ![p] = [files[p] EXCEPT !.st = "woken"]]
      BY <2>3 DEF ReadWakes
    <3> QED
      BY <3>1
  <2>4. CASE ReadInterrupted(p)
    <3>1. files' = [files EXCEPT ![p] = [files[p] EXCEPT !.st = "open"]]
      BY <2>4 DEF ReadInterrupted
    <3> QED
      BY <3>1
  <2> QED
    BY <2>1, <2>2, <2>3, <2>4
<1>2. /\ files[p].st # "none" /\ dev' = [dev EXCEPT ![files[p].d] = E]
      /\ UNCHANGED <<list, threads, mod>>
  BY DEF Close, ReadEvents, ReadWakes, ReadInterrupted
<1>3. {} \in SUBSET Nat
  OBVIOUS
<1> QED
  BY <1>1, <1>2, <1>3, FileUseKeeps

LEMMA ReadTakesKeeps ==
  ASSUME HostInv, NEW p \in Procs, UNCHANGED <<load, given>>, ReadTakes(p)
  PROVE  HostInv'
<1> DEFINE v == FileTouched(p).events \ {files[p].node[2]}
           E == [FileTouched(p) EXCEPT !.events = v]
           f == [files[p] EXCEPT !.st = "open"]
<1>1. /\ files[p].st # "none" /\ dev' = [dev EXCEPT ![files[p].d] = E]
      /\ files' = [files EXCEPT ![p] = f] /\ UNCHANGED <<list, threads, mod>>
  BY DEF ReadTakes
<1>2. v \in SUBSET Nat
  <2>1. FileTouched(p) \in DevRecs
    BY <1>1, FileTouch
  <2> QED
    BY <2>1 DEF DevRecs
<1>3. \E s \in {"open", "reading", "woken"} : f = [files[p] EXCEPT !.st = s]
  OBVIOUS
<1> HIDE DEF v, f
<1> QED
  BY <1>1, <1>2, <1>3, FileUseKeeps

LEMMA OpenKeeps ==
  ASSUME HostInv, NEW p \in Procs, NEW d \in Devs, UNCHANGED <<load, given>>, Open(p, d)
  PROVE  HostInv'
<1> DEFINE D == dev[d]
           E == Touched(D, "file")
           m == TouchedMisuse(D, "file")
<1>1. PICK n \in D.N.nodes :
        /\ files' = [files EXCEPT ![p] = [st |-> "open", d |-> d, node |-> n, gen |-> D.gen]]
        /\ dev' = [dev EXCEPT ![d] = E]
  BY DEF Open
<1> DEFINE f == [st |-> "open", d |-> d, node |-> n, gen |-> D.gen]
<1>2. D \in DevRecs /\ CardInv(D)
  BY HostCard
<1>3. mod.st = "live" /\ UNCHANGED <<list, threads, mod>>
  BY DEF Open
<1>4. n \in NodeNames /\ D.gen \in Nat
  BY <1>2, DeviceAssumption DEF DevRecs, NodeRecs
<1>5. D.pc \notin Early \cup {"users"}
  BY <1>1, <1>2 DEF CardInv, NodeInv, NoNodes
<1>6. D.pc \in {"nodes", "bound"} \/ D.fault = "nodes" \/ load.unplug
  <2>1. D.pc \in Ends1 /\ D.fault = "none" => load.unplug
    BY <1>3 DEF HostInv, ModInv
  <2>2. D.pc \in Ends2 \cup {"absent", "undo_masks", "undo_irqs"} => D.fault = "nodes"
    BY <1>1, <1>2 DEF CardInv, NodeInv
  <2>3. D.pc \in Ends1 => D.fault \in {"none", "nodes"}
    BY <1>2 DEF CardInv, StageInv
  <2>4. D.pc \in Stages
    BY <1>2 DEF DevRecs
  <2> QED
    BY <1>5, <2>1, <2>2, <2>3, <2>4 DEF Stages, Early, Ends1, Ends2
<1>7. f \in FileRecs /\ GoodFile(f)
  BY <1>3, <1>4, <1>5, <1>6 DEF FileRecs, GoodFile
<1>8. E \in DevRecs /\ CardInv(E) /\ Alike(D, E)
  <2>1. E = [D EXCEPT !.misuse = m] /\ m \in SUBSET Misuses
    BY <1>2, TouchedIs DEF Misuses
  <2>2. Orderly(D) /\ D.fault # "irqs" => m \subseteq D.misuse \cup {"work"}
          \cup (IF load.unplug \/ D.fault = "nodes" THEN {"file"} ELSE {})
    <3>1. CASE load.unplug \/ D.fault = "nodes"
      BY <3>1 DEF TouchedMisuse
    <3>2. CASE D.pc \in {"nodes", "bound"}
      <4>1. D.xdev = "live"
        BY <1>2, <3>2 DEF CardInv, StageInv
      <4> QED
        BY <4>1 DEF TouchedMisuse
    <3> QED
      BY <1>6, <3>1, <3>2
  <2>3. D.work \in SUBSET Ids /\ D.events \in SUBSET Nat
    BY <1>2 DEF DevRecs
  <2> HIDE DEF D, m, E
  <2>4. E = [D EXCEPT !.misuse = m, !.work = D.work, !.events = D.events]
    BY <1>2, <2>1, UseIs, Zenon
  <2> QED
    BY <1>2, <2>1, <2>2, <2>3, <2>4, UsedCard
<1>9. CardTurns(d, E)
  BY <1>1, <1>8 DEF CardTurns
<1> HIDE DEF f, E
<1> QED
  BY <1>1, <1>3, <1>7, <1>8, <1>9, FileStep DEF f

-----------------------------------------------------------------------------
(* The list of cards and the polling threads                               *)

\* A nonempty set of numbers has a least one and, if it is bounded, a greatest one.
LEMMA SomeLeast ==
  ASSUME NEW S \in SUBSET Nat, S # {}
  PROVE  \E x \in S : \A y \in S : x <= y
<1> DEFINE R == OpToRel(<, Nat)
<1>1. IsWellFoundedOn(R, Nat)
  BY NatLessThanWellFounded
<1>2. \A x, y \in Nat : <<y, x>> \in R <=> y < x
  BY DEF OpToRel
<1> HIDE DEF R
<1>3. PICK x \in S : \A y \in S : ~(<<y, x>> \in R)
  BY <1>1, WFMin
<1>4. ASSUME NEW y \in S
      PROVE  x <= y
  <2>1. y \in Nat /\ x \in Nat
    OBVIOUS
  <2>2. ~(y < x)
    BY <1>2, <1>3, <2>1
  <2> QED
    BY <2>1, <2>2
<1> QED
  BY <1>4

LEMMA HasLeast ==
  ASSUME NEW S \in SUBSET Nat, S # {}
  PROVE  Min(S) \in S
BY SomeLeast, LeastIs

LEMMA HasGreatest ==
  ASSUME NEW n \in Nat, NEW S \in SUBSET (0..n), S # {}
  PROVE  Max(S) \in S
<1> DEFINE T == {t \in 0..n : n - t \in S}
<1>1. \A x \in S : x \in Nat /\ n - x \in T
  <2> SUFFICES ASSUME NEW x \in S
               PROVE  x \in Nat /\ n - x \in T
    OBVIOUS
  <2>1. x \in 0..n
    OBVIOUS
  <2>2. x \in Nat /\ n - x \in 0..n /\ n - (n - x) = x
    BY <2>1
  <2> QED
    BY <2>2
<1>2. T \in SUBSET Nat /\ T # {}
  <2>1. PICK x \in S : TRUE
    OBVIOUS
  <2>2. n - x \in T
    BY <1>1
  <2>3. \A t \in T : t \in Nat
    OBVIOUS
  <2> HIDE DEF T
  <2> QED
    BY <2>2, <2>3
<1>3. PICK t \in T : \A y \in T : t <= y
  BY <1>2, SomeLeast
<1>4. n - t \in S /\ t \in Nat
  OBVIOUS
<1>5. \A y \in S : n - t >= y
  BY <1>1, <1>3, <1>4
<1>6. S \in SUBSET Nat
  BY <1>1
<1> QED
  BY <1>4, <1>5, <1>6, GreatestIs

LEMMA LeastBusyIs ==
  ASSUME NEW t, t.cnt \in Nat, t.cnt > 0
  PROVE  LeastBusy(t) \in 1..t.cnt
<1> DEFINE idle == {i \in 2..t.cnt : t.work[i] = {}}
           less == {i \in 2..t.cnt : Cardinality(t.work[i]) < Cardinality(t.work[1])}
<1>1. idle \in SUBSET Nat /\ less \in SUBSET (0..t.cnt)
  OBVIOUS
<1>2. idle # {} => Min(idle) \in 2..t.cnt
  BY <1>1, HasLeast
<1>3. less # {} => Max(less) \in 2..t.cnt
  BY <1>1, HasGreatest
<1>4. LeastBusy(t) = IF idle # {} THEN Min(idle) ELSE IF less # {} THEN Max(less) ELSE 1
  BY Zenon DEF LeastBusy
<1> HIDE DEF idle, less
<1> QED
  BY <1>2, <1>3, <1>4

\* Cards that are not in the list have no engine.
LEMMA UnlistedHasNone ==
  ASSUME HostInv, NEW d \in Devs, ~ \E i \in 1..Len(list) : list[i] = d
  PROVE  dev[d].pc \in Unlisted /\ dev[d].eng = {}
BY HostCard DEF HostInv, ListInv, CardInv, HeldInv, Unlisted, HasEng

LEMMA ProbeStartKeeps ==
  ASSUME HostInv, NEW d \in Devs, ProbeStart(d), UNCHANGED <<load, given>>
  PROVE  HostInv'
<1> DEFINE D == dev[d]
           E == [[NewDev EXCEPT !.gen = D.gen + 1, !.xdev = "live"] EXCEPT !.pc = "list"]
<1>1. /\ D \in DevRecs /\ CardInv(D) /\ D.pc = "absent" /\ mod.st = "live"
      /\ D.gen \in Nat /\ D.gen < MaxProbes /\ D.fault = "none"
  BY HostCard, DeviceAssumption DEF ProbeStart, At, DevRecs, CardInv, StageInv
<1>2. dev' = [dev EXCEPT ![d] = E] /\ UNCHANGED <<list, threads, mod, files>>
  BY DEF ProbeStart, Advance
<1>3. D.gen + 1 \in 0..MaxProbes /\ D.gen + 1 > 0
  BY <1>1, DeviceAssumption
<1>4. E \in DevRecs /\ CardInv(E)
  BY <1>3, KeptByProbeStart
<1>5. E.pc = "list" /\ E.eng = {} /\ E.gen = D.gen + 1
  BY DEF NewDev
<1> HIDE DEF E
<1>6. CardTurns(d, E)
  BY <1>2, <1>4 DEF CardTurns
<1>7. /\ Cards' /\ dev'[d] = E /\ \A x \in Devs : x # d => dev'[x] = dev[x]
  BY <1>6, CardTurned DEF HostInv
<1>8. LifeTypes'
  BY <1>2, <1>6, TypesKept
<1>9. D.eng = {}
  BY <1>1 DEF CardInv, HeldInv, HasEng
<1>10. ThreadInv'
  BY <1>2, <1>5, <1>6, <1>9, ThreadsKept
<1>11. ListInv'
  <2>1. \A x \in Devs : dev'[x].pc \in Unlisted <=> dev[x].pc \in Unlisted
    BY <1>1, <1>5, <1>7 DEF Unlisted
  <2>2. \A i \in 1..Len(list) : list[i] \in Devs /\ list[i] # d
    BY <1>1 DEF HostInv, LifeTypes, ListInv, Unlisted
  <2>3. \A i \in 1..Len(list) : dev'[list[i]] = dev[list[i]]
    BY <1>7, <2>2
  <2> QED
    BY <1>2, <2>1, <2>3 DEF HostInv, ListInv
<1>12. ModInv'
  BY <1>1, <1>2, <1>5, <1>7 DEF HostInv, ModInv, Ends1, Ends2
<1>13. FileInv'
  <2> SUFFICES ASSUME NEW p \in Procs, files[p].st # "none"
               PROVE  LET f == files[p] IN
                        /\ mod.st = "live" /\ f.d \in Devs /\ f.node \in NodeNames
                        /\ f.gen <= dev'[f.d].gen
                        /\ f.gen = dev'[f.d].gen => dev'[f.d].pc \notin Early \cup {"users"}
                        /\ ~load.unplug =>
                             /\ f.gen = dev'[f.d].gen
                             /\ \/ dev'[f.d].pc \in {"nodes", "bound"}
                                \/ dev'[f.d].fault = "nodes"
    BY <1>2 DEF FileInv
  <2>1. /\ mod.st = "live" /\ files[p].d \in Devs /\ files[p].node \in NodeNames
        /\ files[p].gen <= dev[files[p].d].gen
        /\ files[p].gen = dev[files[p].d].gen => dev[files[p].d].pc \notin Early \cup {"users"}
        /\ ~load.unplug =>
             /\ files[p].gen = dev[files[p].d].gen
             /\ dev[files[p].d].pc \in {"nodes", "bound"} \/ dev[files[p].d].fault = "nodes"
    BY DEF HostInv, FileInv
  <2>2. files[p].gen \in Nat
    BY DEF HostInv, LifeTypes, FileRecs
  <2>3. CASE files[p].d # d
    BY <1>7, <2>1, <2>3
  <2>4. CASE files[p].d = d
    BY <1>1, <1>5, <1>7, <2>1, <2>2, <2>4
  <2> QED
    BY <2>3, <2>4
<1> QED
  BY <1>7, <1>8, <1>10, <1>11, <1>12, <1>13 DEF HostInv

LEMMA ListAddFailsKeeps ==
  ASSUME HostInv, NEW d \in Devs, ListAddFails(d), UNCHANGED <<load, given>>
  PROVE  HostInv'
<1> DEFINE D == dev[d]
           E == [[D EXCEPT !.fault = "threads"] EXCEPT !.pc = "undo_free"]
<1>1. D \in DevRecs /\ CardInv(D) /\ D.pc = "list"
  BY HostCard DEF ListAddFails, At
<1>2. dev' = [dev EXCEPT ![d] = E] /\ UNCHANGED <<list, mod, files>>
  BY DEF ListAddFails, Advance
<1>3. PICK started : threads' = [threads EXCEPT !.lost = threads.lost \/ started > 0]
  BY DEF ListAddFails
<1>4. /\ threads'.cnt = threads.cnt /\ threads'.work = threads.work
      /\ threads' = [cnt |-> threads'.cnt, work |-> threads'.work, lost |-> threads'.lost]
  <2> DEFINE lost == threads.lost \/ started > 0
  <2> HIDE DEF lost
  <2>1. threads = [cnt |-> threads.cnt, work |-> threads.work, lost |-> threads.lost]
    BY DEF HostInv, LifeTypes
  <2>2. threads' = [threads EXCEPT !.lost = lost]
    BY <1>3 DEF lost
  <2> QED
    BY <2>1, <2>2
<1>5. E \in DevRecs /\ CardInv(E)
  BY <1>1, KeptByListFailure
<1>6. Steady(D, E)
  BY <1>1 DEF Steady, DevRecs, CardInv, StageInv, Unlisted, Early, InUse, Ends1, Ends2
<1> HIDE DEF E
<1>7. CardTurns(d, E)
  BY <1>2, <1>5 DEF CardTurns
<1>8. Cards' /\ dev' \in [Devs -> DevRecs] /\ load' \in Loads /\ given' \in StubSituations
  BY <1>7, CardTurned DEF HostInv
<1>9. LifeTypes'
  BY <1>2, <1>4, <1>8 DEF HostInv, LifeTypes
<1>10. ListInv' /\ ModInv' /\ FileInv'
  BY <1>2, <1>6, <1>7, ListKept, ModuleKept, FilesKept
<1>11. E.eng = D.eng
  BY <1>6 DEF Steady
<1>12. ThreadInv'
  <2>1. load.poll /\ Fails("threads")
    BY DEF ListAddFails
  <2> QED
    BY <1>2, <1>4, <1>7, <1>11, <2>1, ThreadsKept
<1> QED
  BY <1>8, <1>9, <1>10, <1>12 DEF HostInv

\* What is behind the k-th element
LEMMA TailOf ==
  ASSUME NEW S, NEW s \in Seq(S), NEW k \in 1..Len(s)
  PROVE  /\ SubSeq(s, k + 1, Len(s)) \in Seq(S)
         /\ Len(SubSeq(s, k + 1, Len(s))) = Len(s) - k
         /\ \A i \in 1..(Len(s) - k) : SubSeq(s, k + 1, Len(s))[i] = s[k + i]
<1> DEFINE m == k + 1
           n == Len(s)
<1>1. m \in Int /\ n \in Int /\ k \in Int /\ k <= n /\ n - m + 1 = n - k /\ m = k + 1
  OBVIOUS
<1>2. \A i \in m..n : s[i] \in S
  OBVIOUS
<1> HIDE DEF m, n
<1>3. /\ SubSeq(s, m, n) \in Seq(S)
      /\ Len(SubSeq(s, m, n)) = IF m <= n THEN n - m + 1 ELSE 0
      /\ \A i \in 1..(n - m + 1) : SubSeq(s, m, n)[i] = s[m + i - 1]
  BY <1>1, <1>2, SubSeqProperties
<1>4. Len(SubSeq(s, m, n)) = n - k
  BY <1>1, <1>3
<1>5. \A i \in 1..(n - k) : SubSeq(s, m, n)[i] = s[k + i]
  <2>1. \A i \in 1..(n - k) : m + i - 1 = k + i
    BY <1>1
  <2> QED
    BY <1>1, <1>3, <2>1
<1> QED
  BY <1>3, <1>4, <1>5 DEF m, n

LEMMA ListAddKeeps ==
  ASSUME HostInv, NEW d \in Devs, ListAdd(d), UNCHANGED <<load, given>>
  PROVE  HostInv'
<1> DEFINE D == dev[d]
           E == [[D EXCEPT !.idx = NextIdx] EXCEPT !.pc = "enable"]
<1>1. D \in DevRecs /\ CardInv(D) /\ D.pc = "list" /\ load \in Loads
  BY HostCard DEF ListAdd, At
<1>2. /\ dev' = [dev EXCEPT ![d] = E] /\ UNCHANGED <<mod, files>>
      /\ list' = Append(list, d) /\ threads' = ThreadsCreated(threads)
  BY DEF ListAdd, Advance
<1>t. /\ list \in Seq(Devs) /\ Len(list) \in Nat /\ \A i \in 1..Len(list) : list[i] \in Devs
      /\ dev \in [Devs -> DevRecs]
  BY DEF HostInv, LifeTypes
<1>3. /\ NextIdx \in Nat
      /\ \A i \in 1..Len(list) : dev[list[i]].idx < NextIdx
  <2>1. \A x \in Devs : dev[x].idx \in Nat
    BY <1>t DEF DevRecs
  <2>2. CASE list = <<>>
    BY <2>2 DEF NextIdx
  <2>3. CASE list # <<>>
    <3>1. Len(list) \in 1..Len(list)
      BY <1>t, <2>3
    <3>2. NextIdx = dev[list[Len(list)]].idx + 1
      BY <2>3 DEF NextIdx
    <3>3. \A i \in 1..Len(list) : i < Len(list) => dev[list[i]].idx < dev[list[Len(list)]].idx
      BY <3>1 DEF HostInv, ListInv
    <3>4. \A i \in 1..Len(list) : dev[list[i]].idx \in Nat
      BY <1>t, <2>1
    <3>5. ASSUME NEW i \in 1..Len(list)
          PROVE  dev[list[i]].idx < NextIdx
      <4>1. CASE i = Len(list)
        BY <3>1, <3>2, <3>4, <4>1
      <4>2. CASE i # Len(list)
        BY <3>1, <3>2, <3>3, <3>4, <4>2
      <4> QED
        BY <4>1, <4>2
    <3> QED
      BY <3>1, <3>2, <3>4, <3>5
  <2> QED
    BY <2>2, <2>3
<1>4. E \in DevRecs /\ CardInv(E)
  BY <1>1, <1>3, KeptByListAdd
<1>5. /\ E.pc = "enable" /\ E.eng = D.eng /\ E.gen = D.gen /\ E.idx = NextIdx
      /\ E.fault = D.fault
  BY <1>1 DEF DevRecs
<1> HIDE DEF E
<1>6. CardTurns(d, E)
  BY <1>2, <1>4 DEF CardTurns
<1>7. /\ Cards' /\ dev' \in [Devs -> DevRecs] /\ load' \in Loads /\ given' \in StubSituations
      /\ dev'[d] = E /\ \A x \in Devs : x # d => dev'[x] = dev[x]
  BY <1>6, CardTurned DEF HostInv
<1>8. \A i \in 1..Len(list) : list[i] # d
  BY <1>1 DEF HostInv, ListInv, Unlisted
<1>l. /\ list' \in Seq(Devs) /\ Len(list') = Len(list) + 1 /\ list' # <<>>
      /\ \A i \in 1..Len(list) : list'[i] = list[i]
      /\ list'[Len(list) + 1] = d
  BY <1>t, <1>2
<1>9. ListInv'
  <2>1. ASSUME NEW x \in Devs
        PROVE  dev'[x].pc \notin Unlisted <=> \E i \in 1..Len(list') : list'[i] = x
    <3>1. CASE x = d
      <4>1. Len(list) + 1 \in 1..Len(list')
        BY <1>t, <1>l
      <4> QED
        BY <1>5, <1>7, <1>l, <3>1, <4>1 DEF Unlisted
    <3>2. CASE x # d
      <4>1. dev[x].pc \notin Unlisted <=> \E i \in 1..Len(list) : list[i] = x
        BY DEF HostInv, ListInv
      <4>2. (\E i \in 1..Len(list') : list'[i] = x) <=> \E i \in 1..Len(list) : list[i] = x
        BY <1>t, <1>l, <3>2
      <4> QED
        BY <1>7, <3>2, <4>1, <4>2
    <3> QED
      BY <3>1, <3>2
  <2>2. ASSUME NEW i \in 1..Len(list'), NEW j \in 1..Len(list'), i < j
        PROVE  dev'[list'[i]].idx < dev'[list'[j]].idx
    <3>1. i \in 1..Len(list) /\ list'[i] = list[i] /\ list[i] \in Devs /\ list[i] # d
      BY <1>t, <1>l, <1>8, <2>2
    <3>2. dev'[list'[i]].idx = dev[list[i]].idx
      BY <1>7, <3>1
    <3>3. CASE j = Len(list) + 1
      BY <1>3, <1>5, <1>7, <1>l, <3>1, <3>2, <3>3
    <3>4. CASE j # Len(list) + 1
      <4>1. j \in 1..Len(list) /\ list'[j] = list[j] /\ list[j] \in Devs /\ list[j] # d
        BY <1>t, <1>l, <1>8, <3>4
      <4>2. dev'[list'[j]].idx = dev[list[j]].idx
        BY <1>7, <4>1
      <4> QED
        BY <2>2, <3>1, <3>2, <4>1, <4>2 DEF HostInv, ListInv
    <3> QED
      BY <3>3, <3>4
  <2> QED
    BY <2>1, <2>2 DEF ListInv
<1>10. \A x \in Devs : dev'[x].eng = dev[x].eng
  BY <1>5, <1>7
<1>11. /\ threads'.cnt \in Nat /\ threads'.work \in [1..threads'.cnt -> SUBSET (Devs \X Ids)]
       /\ threads' = [cnt |-> threads'.cnt, work |-> threads'.work, lost |-> threads'.lost]
       /\ ThreadInv'
  <2>0. /\ threads.cnt \in Nat /\ threads.work \in [1..threads.cnt -> SUBSET (Devs \X Ids)]
        /\ threads = [cnt |-> threads.cnt, work |-> threads.work, lost |-> threads.lost]
        /\ load' = load
    BY <1>6 DEF HostInv, LifeTypes, CardTurns
  <2>1. CASE load.poll /\ list = <<>>
    <3> DEFINE n == IF load.cpus < 8 THEN load.cpus ELSE 8
               none == [i \in 1..n |-> {}]
    <3>1. n \in Nat /\ n > 0
      BY <1>1, LoadFacts
    <3>2. threads.cnt = 0
      BY <2>1 DEF HostInv, ThreadInv
    <3>3. threads' = [threads EXCEPT !.cnt = n, !.work = none]
      BY <1>2, <2>1, <3>2 DEF ThreadsCreated
    <3> HIDE DEF n
    <3>4. none \in [1..n -> SUBSET (Devs \X Ids)] /\ \A i \in 1..n : none[i] = {}
      OBVIOUS
    <3> HIDE DEF none
    <3>5. /\ threads'.cnt = n /\ threads'.work = none
          /\ threads' = [cnt |-> threads'.cnt, work |-> threads'.work, lost |-> threads'.lost]
      BY <2>0, <3>3
    <3>6. \A x \in Devs : dev'[x].eng = {}
      <4>1. \A x \in Devs : dev[x].eng = {}
        <5> SUFFICES ASSUME NEW x \in Devs
                     PROVE  dev[x].eng = {}
          OBVIOUS
        <5>1. ~ \E i \in 1..Len(list) : list[i] = x
          BY <2>1
        <5> QED
          BY <5>1, UnlistedHasNone
      <4> QED
        BY <1>10, <4>1
    <3>l. LostNow'
      <4>1. threads'.lost = threads.lost
        BY <2>0, <3>3
      <4> QED
        BY <2>0, <4>1, LostKept
    <3>7. ThreadInv'
      BY <1>l, <2>0, <2>1, <3>1, <3>4, <3>5, <3>6, <3>l DEF ThreadInv, LostNow
    <3> QED
      BY <3>1, <3>4, <3>5, <3>7
  <2>2. CASE ~(load.poll /\ list = <<>>)
    <3>1. threads' = threads
      BY <1>2, <2>2, Zenon DEF ThreadsCreated
    <3>2. \A i \in 1..threads.cnt : \A x \in threads.work[i] : x[1] \in Devs
      BY <2>0
    <3>3. load.poll => threads.cnt # 0
      BY <2>2 DEF HostInv, ThreadInv
    <3>5. list' # <<>>
      BY <1>l
    <3>l. LostNow'
      BY <2>0, <3>1, LostKept
    <3>4. ThreadInv'
      BY <1>10, <2>0, <3>1, <3>2, <3>3, <3>5, <3>l DEF HostInv, ThreadInv, LostNow
    <3> QED
      BY <2>0, <3>1, <3>4
  <2> QED
    BY <2>1, <2>2
<1>12. LifeTypes'
  BY <1>2, <1>7, <1>11, <1>l DEF HostInv, LifeTypes
<1>13. ModInv'
  <2>1. load' = load
    BY <1>6 DEF CardTurns
  <2>2. mod.st # "absent"
    BY <1>1 DEF HostInv, ModInv
  <2> QED
    BY <1>2, <1>5, <1>7, <2>1, <2>2 DEF HostInv, ModInv, Ends1, Ends2
<1>14. FileInv'
  <2>1. \A p \in Procs : files[p].st # "none" => files[p].d \in Devs
    BY DEF HostInv, FileInv
  <2>2. load' = load /\ mod' = mod /\ files' = files
    BY <1>2, <1>6 DEF CardTurns
  <2>3. \A x \in Devs : dev'[x].gen = dev[x].gen /\ dev'[x].fault = dev[x].fault
    BY <1>5, <1>7
  <2>4. \A x \in Devs : /\ dev[x].pc \notin Early \cup {"users"} =>
                             dev'[x].pc \notin Early \cup {"users"}
                        /\ dev[x].pc \in {"nodes", "bound"} => dev'[x].pc \in {"nodes", "bound"}
    BY <1>1, <1>5, <1>7 DEF Early
  <2> QED
    BY <2>1, <2>2, <2>3, <2>4 DEF HostInv, FileInv
<1> QED
  BY <1>7, <1>9, <1>11, <1>12, <1>13, <1>14 DEF HostInv

LEMMA ListRemoveKeeps ==
  ASSUME HostInv, NEW d \in Devs, ListRemove(d), UNCHANGED <<load, given>>
  PROVE  HostInv'
<1> DEFINE D == dev[d]
           E == [D EXCEPT !.pc = "undo_free"]
           k == CHOOSE i \in DOMAIN list : list[i] = d
           n == Len(list)
<1>1. D \in DevRecs /\ CardInv(D) /\ D.pc = "undo_list"
  BY HostCard DEF ListRemove, At
<1>2. /\ dev' = [dev EXCEPT ![d] = E] /\ UNCHANGED <<mod, files>>
      /\ list' = RemoveAt(list, k)
      /\ threads' = IF load.poll /\ list' = <<>>
                    THEN [NoThreads EXCEPT !.lost = threads.lost] ELSE threads
  BY DEF ListRemove, Advance
<1>t. /\ list \in Seq(Devs) /\ n \in Nat /\ \A i \in 1..n : list[i] \in Devs
      /\ dev \in [Devs -> DevRecs] /\ DOMAIN list = 1..n
  BY DEF HostInv, LifeTypes
<1>3. k \in 1..n /\ list[k] = d
  <2>1. \E i \in DOMAIN list : list[i] = d
    BY <1>1, <1>t DEF HostInv, ListInv, Unlisted
  <2> QED
    BY <1>t, <2>1
<1> HIDE DEF k
<1>l. /\ list' \in Seq(Devs) /\ Len(list') = n - 1
      /\ \A i \in 1..(n - 1) : list'[i] = IF i < k THEN list[i] ELSE list[i + 1]
  <2> DEFINE a == SubSeq(list, 1, k - 1)
             b == SubSeq(list, k + 1, n)
  <2>1. /\ a \in Seq(Devs) /\ Len(a) = k - 1 /\ \A i \in 1..(k - 1) : a[i] = list[i]
    <3>1. 1 \in 1..(n + 1) /\ k - 1 \in (1 - 1)..n /\ (k - 1) - 1 + 1 = k - 1
      BY <1>t, <1>3
    <3> QED
      BY <1>t, <3>1, SubSeqProperties
  <2>2. /\ b \in Seq(Devs) /\ Len(b) = n - k /\ \A i \in 1..(n - k) : b[i] = list[k + i]
    BY <1>t, <1>3, TailOf
  <2>3. list' = a \o b
    BY <1>2 DEF RemoveAt
  <2> HIDE DEF a, b
  <2>4. list' \in Seq(Devs) /\ Len(list') = n - 1
    <3>1. a \o b \in Seq(Devs) /\ Len(a \o b) = Len(a) + Len(b)
      BY <2>1, <2>2, ConcatProperties
    <3>2. (k - 1) + (n - k) = n - 1
      BY <1>t, <1>3
    <3> QED
      BY <2>1, <2>2, <2>3, <3>1, <3>2
  <2>5. ASSUME NEW i \in 1..(n - 1)
        PROVE  list'[i] = IF i < k THEN list[i] ELSE list[i + 1]
    <3>1. CASE i < k
      BY <1>t, <1>3, <2>1, <2>2, <2>3, <3>1
    <3>2. CASE ~(i < k)
      <4>1. i - (k - 1) \in 1..(n - k) /\ k + (i - (k - 1)) = i + 1
        BY <1>t, <1>3, <3>2
      <4>2. list'[i] = b[i - (k - 1)]
        BY <1>t, <1>3, <2>1, <2>2, <2>3, <3>2, <4>1
      <4> QED
        BY <2>2, <3>2, <4>1, <4>2
    <3> QED
      BY <3>1, <3>2
  <2> QED
    BY <2>4, <2>5
<1>4. E \in DevRecs /\ CardInv(E)
  BY <1>1, KeptByListRemove
<1>5. E.pc = "undo_free" /\ E.eng = D.eng /\ E.gen = D.gen /\ E.idx = D.idx /\ E.fault = D.fault
  BY <1>1 DEF DevRecs
<1> HIDE DEF E
<1>6. CardTurns(d, E)
  BY <1>2, <1>4 DEF CardTurns
<1>7. /\ Cards' /\ dev' \in [Devs -> DevRecs] /\ load' \in Loads /\ given' \in StubSituations
      /\ dev'[d] = E /\ \A x \in Devs : x # d => dev'[x] = dev[x]
  BY <1>6, CardTurned DEF HostInv
<1>8. \A x \in Devs : /\ dev'[x].eng = dev[x].eng /\ dev'[x].idx = dev[x].idx
                      /\ dev'[x].gen = dev[x].gen /\ dev'[x].fault = dev[x].fault
  BY <1>5, <1>7
<1>9. \A i \in 1..n : i # k => list[i] # d
  <2>1. \A x \in Devs : dev[x].idx \in Nat
    BY <1>t DEF DevRecs
  <2>2. \A i, j \in 1..n : i < j => dev[list[i]].idx < dev[list[j]].idx
    BY DEF HostInv, ListInv
  <2> SUFFICES ASSUME NEW i \in 1..n, i # k, list[i] = d
               PROVE  FALSE
    OBVIOUS
  <2>3. CASE i < k
    BY <1>3, <2>1, <2>2, <2>3
  <2>4. CASE k < i
    BY <1>3, <2>1, <2>2, <2>4
  <2> QED
    BY <1>3, <1>t, <2>3, <2>4
<1>10. ListInv'
  <2>1. ASSUME NEW x \in Devs
        PROVE  dev'[x].pc \notin Unlisted <=> \E i \in 1..Len(list') : list'[i] = x
    <3>1. CASE x = d
      <4>1. \A i \in 1..(n - 1) : list'[i] # d
        <5> SUFFICES ASSUME NEW i \in 1..(n - 1)
                     PROVE  list'[i] # d
          OBVIOUS
        <5>1. CASE i < k
          BY <1>t, <1>3, <1>9, <1>l, <5>1
        <5>2. CASE ~(i < k)
          <6>1. i + 1 \in 1..n /\ i + 1 # k
            BY <1>t, <1>3, <5>2
          <6> QED
            BY <1>9, <1>l, <5>2, <6>1
        <5> QED
          BY <5>1, <5>2
      <4> QED
        BY <1>5, <1>7, <1>l, <3>1, <4>1 DEF Unlisted
    <3>2. CASE x # d
      <4>1. dev[x].pc \notin Unlisted <=> \E i \in 1..n : list[i] = x
        BY DEF HostInv, ListInv
      <4>2. ASSUME NEW i \in 1..n, list[i] = x
            PROVE  \E j \in 1..(n - 1) : list'[j] = x
        <5>1. i # k
          BY <1>3, <3>2, <4>2
        <5>2. CASE i < k
          <6>1. i \in 1..(n - 1)
            BY <1>t, <1>3, <5>2
          <6> QED
            BY <1>l, <4>2, <5>2, <6>1
        <5>3. CASE i > k
          <6>1. i - 1 \in 1..(n - 1) /\ ~(i - 1 < k) /\ (i - 1) + 1 = i
            BY <1>t, <1>3, <5>3
          <6> QED
            BY <1>l, <4>2, <6>1
        <5> QED
          BY <1>t, <1>3, <5>1, <5>2, <5>3
      <4>3. ASSUME NEW j \in 1..(n - 1), list'[j] = x
            PROVE  \E i \in 1..n : list[i] = x
        <5>1. j \in 1..n /\ j + 1 \in 1..n
          BY <1>t
        <5> QED
          BY <1>l, <4>3, <5>1
      <4> QED
        BY <1>7, <1>l, <3>2, <4>1, <4>2, <4>3
    <3> QED
      BY <3>1, <3>2
  <2>2. ASSUME NEW i \in 1..Len(list'), NEW j \in 1..Len(list'), i < j
        PROVE  dev'[list'[i]].idx < dev'[list'[j]].idx
    <3> DEFINE At1(a) == IF a < k THEN a ELSE a + 1
    <3>1. /\ At1(i) \in 1..n /\ At1(j) \in 1..n /\ At1(i) < At1(j)
      BY <1>t, <1>3, <1>l, <2>2
    <3>2. list'[i] = list[At1(i)] /\ list'[j] = list[At1(j)]
      BY <1>l
    <3> HIDE DEF At1
    <3>3. dev[list[At1(i)]].idx < dev[list[At1(j)]].idx
      BY <3>1 DEF HostInv, ListInv
    <3> QED
      BY <1>t, <1>8, <3>1, <3>2, <3>3
  <2> QED
    BY <2>1, <2>2 DEF ListInv
<1>11. /\ threads'.cnt \in Nat /\ threads'.work \in [1..threads'.cnt -> SUBSET (Devs \X Ids)]
       /\ threads' = [cnt |-> threads'.cnt, work |-> threads'.work, lost |-> threads'.lost]
       /\ ThreadInv'
  <2>0. /\ threads.cnt \in Nat /\ threads.work \in [1..threads.cnt -> SUBSET (Devs \X Ids)]
        /\ threads = [cnt |-> threads.cnt, work |-> threads.work, lost |-> threads.lost]
        /\ load' = load
    BY <1>6 DEF HostInv, LifeTypes, CardTurns
  <2>1. CASE load.poll /\ list' = <<>>
    <3>1. threads' = [cnt |-> 0, work |-> <<>>, lost |-> threads.lost]
      BY <1>2, <2>1 DEF NoThreads
    <3>2. <<>> \in [1..0 -> SUBSET (Devs \X Ids)] /\ 1..0 = {}
      OBVIOUS
    <3>3. /\ threads'.cnt = 0 /\ threads'.work = <<>>
          /\ threads' = [cnt |-> threads'.cnt, work |-> threads'.work, lost |-> threads'.lost]
      BY <3>1
    <3>4. \A x \in Devs : dev'[x].eng = {}
      <4> SUFFICES ASSUME NEW x \in Devs
                   PROVE  dev'[x].eng = {}
        OBVIOUS
      <4>1. dev'[x].pc \in Unlisted
        BY <1>10, <2>1 DEF ListInv
      <4>2. CardInv(dev[x])'
        BY <1>7 DEF Cards
      <4> QED
        BY <4>1, <4>2 DEF CardInv, HeldInv, Unlisted, HasEng
    <3>l. LostNow'
      <4>1. threads'.lost = threads.lost
        BY <3>1
      <4> QED
        BY <2>0, <4>1, LostKept
    <3>5. ThreadInv'
      BY <2>0, <2>1, <3>2, <3>3, <3>4, <3>l DEF ThreadInv, LostNow
    <3> QED
      BY <3>2, <3>3, <3>5
  <2>2. CASE ~(load.poll /\ list' = <<>>)
    <3>1. threads' = threads
      BY <1>2, <2>2
    <3>2. \A i \in 1..threads.cnt : \A x \in threads.work[i] : x[1] \in Devs
      BY <2>0
    <3>3. load.poll => threads.cnt # 0
      <4>1. list # <<>>
        BY <1>t, <1>3
      <4> QED
        BY <4>1 DEF HostInv, ThreadInv
    <3>l. LostNow'
      BY <2>0, <3>1, LostKept
    <3>4. /\ \A i \in 1..threads.cnt : \A x \in threads.work[i] : x[2] \in dev[x[1]].eng
          /\ ~load.poll => threads.cnt = 0
          /\ load.poll => \A x \in Devs : \A e \in dev[x].eng :
               \E i \in 1..threads.cnt : \A j \in 1..threads.cnt :
                 <<x, e>> \in threads.work[j] <=> j = i
      BY DEF HostInv, ThreadInv
    <3>5. \A x \in Devs : dev'[x].eng = dev[x].eng
      BY <1>8
    <3>a. /\ load'.poll => (threads'.cnt = 0 <=> list' = <<>>)
          /\ ~load'.poll => threads'.cnt = 0
      BY <2>0, <2>2, <3>1, <3>3, <3>4
    <3>b. \A i \in 1..threads.cnt : \A x \in threads.work[i] : x[2] \in dev'[x[1]].eng
      BY <3>2, <3>4, <3>5
    <3>c. load.poll => \A x \in Devs : \A e \in dev'[x].eng :
            \E i \in 1..threads.cnt : \A j \in 1..threads.cnt :
              <<x, e>> \in threads.work[j] <=> j = i
      BY <3>4, <3>5
    <3>6. ThreadInv'
      BY <2>0, <3>1, <3>a, <3>b, <3>c, <3>l, Zenon DEF ThreadInv, LostNow
    <3> QED
      BY <2>0, <3>1, <3>6
  <2> QED
    BY <2>1, <2>2
<1>12. LifeTypes'
  BY <1>2, <1>7, <1>11, <1>l DEF HostInv, LifeTypes
<1>13. ModInv'
  <2>1. load' = load
    BY <1>6 DEF CardTurns
  <2>2. mod.st # "absent"
    BY <1>1 DEF HostInv, ModInv
  <2>3. \A x \in Devs : dev'[x].pc \in Ends1 \cup Ends2 => dev[x].pc \in Ends1 \cup Ends2
    BY <1>1, <1>7 DEF Ends1, Ends2
  <2> QED
    BY <1>2, <1>8, <2>1, <2>2, <2>3 DEF HostInv, ModInv
<1>14. FileInv'
  <2>1. \A p \in Procs : files[p].st # "none" => files[p].d \in Devs
    BY DEF HostInv, FileInv
  <2>2. load' = load /\ mod' = mod /\ files' = files
    BY <1>2, <1>6 DEF CardTurns
  <2>4. \A x \in Devs : /\ dev[x].pc \notin Early \cup {"users"} =>
                             dev'[x].pc \notin Early \cup {"users"}
                        /\ dev[x].pc \in {"nodes", "bound"} => dev'[x].pc \in {"nodes", "bound"}
    BY <1>1, <1>5, <1>7 DEF Early
  <2> QED
    BY <1>8, <2>1, <2>2, <2>4 DEF HostInv, FileInv
<1> QED
  BY <1>7, <1>10, <1>11, <1>12, <1>13, <1>14 DEF HostInv

\* Only the engines of a card change.
LEMMA OthersKept ==
  ASSUME HostInv, NEW d, NEW E, CardTurns(d, E), E.pc = dev[d].pc, E.gen = dev[d].gen,
         E.idx = dev[d].idx, E.fault = dev[d].fault, UNCHANGED <<list, mod, files>>
  PROVE  ListInv' /\ ModInv' /\ FileInv'
<1>1. /\ d \in Devs /\ dev'[d] = E /\ \A x \in Devs : x # d => dev'[x] = dev[x]
      /\ load' = load /\ list \in Seq(Devs)
  BY CardTurned DEF HostInv, CardTurns, LifeTypes
<1>2. \A x \in Devs : /\ dev'[x].pc = dev[x].pc /\ dev'[x].gen = dev[x].gen
                      /\ dev'[x].idx = dev[x].idx /\ dev'[x].fault = dev[x].fault
  BY <1>1
<1>3. \A i \in 1..Len(list) : list[i] \in Devs
  BY <1>1
<1>4. ListInv'
  BY <1>2, <1>3 DEF HostInv, ListInv
<1>5. ModInv'
  BY <1>1, <1>2 DEF HostInv, ModInv
<1>6. FileInv'
  <2>1. \A p \in Procs : files[p].st # "none" => files[p].d \in Devs
    BY DEF HostInv, FileInv
  <2> QED
    BY <1>1, <1>2, <2>1 DEF HostInv, FileInv
<1> QED
  BY <1>4, <1>5, <1>6

\* The engines and their threads
LEMMA ProbeEngineKeeps ==
  ASSUME HostInv, NEW d \in Devs, ProbeEngine(d), UNCHANGED <<load, given>>
  PROVE  HostInv'
<1> DEFINE D == dev[d]
           c == D.card[D.dir]
           e == <<D.dir, c>>
           I == [D.card EXCEPT ![D.dir] = c + 1]
           G == D.eng \cup {e}
           E == [[D EXCEPT !.card = I, !.eng = G] EXCEPT !.pc = "engines"]
<1>1. /\ D \in DevRecs /\ CardInv(D) /\ D.pc = "engines" /\ load \in Loads
      /\ c < load[D.dir] /\ D.dir \in {"h2c", "c2h"} /\ D.card \in CardRecs
  BY HostCard DEF ProbeEngine, At, DevRecs
<1>2. /\ dev' = [dev EXCEPT ![d] = E] /\ UNCHANGED <<list, mod, files>>
      /\ threads' = AddWork(threads, <<d, e>>)
  BY DEF ProbeEngine, Advance
<1>3. c \in 0..4 /\ c + 1 \in 0..4 /\ c \in Nat /\ D.card.h2c \in Nat /\ D.card.c2h \in Nat
  BY <1>1, LoadFacts DEF CardRecs
<1>4. /\ I \in CardRecs /\ I[D.dir] = c + 1
      /\ \A kind \in {"user", "config", "bypass"} : I[kind] = D.card[kind]
      /\ \A dir \in {"h2c", "c2h"} : dir # D.dir => I[dir] = D.card[dir]
  BY <1>1, <1>3 DEF CardRecs
<1>5. G \in SUBSET Ids /\ e \in Ids
  BY <1>1, <1>3 DEF DevRecs, Ids
<1>6. \A g \in D.eng : g[1] \in {"h2c", "c2h"} /\ g[2] < D.card[g[1]] /\ g[2] \in Nat
  BY <1>1 DEF DevRecs, CardInv, HeldInv, Ids
<1>7. e \notin D.eng
  BY <1>3, <1>6
<1>8. \A g \in G : g[1] \in {"h2c", "c2h"} /\ g[2] < I[g[1]]
  <2> SUFFICES ASSUME NEW g \in G
               PROVE  g[1] \in {"h2c", "c2h"} /\ g[2] < I[g[1]]
    OBVIOUS
  <2>1. CASE g = e
    BY <1>1, <1>3, <1>4, <2>1
  <2>2. CASE g \in D.eng /\ g[1] = D.dir
    BY <1>3, <1>4, <1>6, <2>2
  <2>3. CASE g \in D.eng /\ g[1] # D.dir
    BY <1>4, <1>6, <2>3
  <2> QED
    BY <2>1, <2>2, <2>3
<1>9. E \in DevRecs /\ CardInv(E)
  <2> HIDE DEF D, I, G
  <2> QED
    BY <1>1, <1>4, <1>5, <1>8, KeptByEngine
<1>10. /\ E.pc = D.pc /\ E.eng = G /\ E.gen = D.gen /\ E.idx = D.idx /\ E.fault = D.fault
  <2> HIDE DEF I, G
  <2> QED
    BY <1>1 DEF DevRecs
<1> HIDE DEF E
<1>11. CardTurns(d, E)
  BY <1>2, <1>9 DEF CardTurns
<1>12. /\ Cards' /\ dev' \in [Devs -> DevRecs] /\ load' \in Loads /\ given' \in StubSituations
       /\ dev'[d] = E /\ \A x \in Devs : x # d => dev'[x] = dev[x]
  BY <1>11, CardTurned DEF HostInv
<1>13. ListInv' /\ ModInv' /\ FileInv'
  BY <1>2, <1>10, <1>11, <1>12, OthersKept
<1>14. /\ threads'.cnt \in Nat /\ threads'.work \in [1..threads'.cnt -> SUBSET (Devs \X Ids)]
       /\ threads' = [cnt |-> threads'.cnt, work |-> threads'.work, lost |-> threads'.lost]
       /\ ThreadInv'
  <2>0. /\ threads.cnt \in Nat /\ threads.work \in [1..threads.cnt -> SUBSET (Devs \X Ids)]
        /\ threads = [cnt |-> threads.cnt, work |-> threads.work, lost |-> threads.lost]
        /\ load' = load /\ list' = list
    BY <1>2, <1>11 DEF HostInv, LifeTypes, CardTurns
  <2>1. \A x \in Devs : dev[x].eng \subseteq dev'[x].eng
    BY <1>10, <1>12
  <2>2. CASE ~load.poll
    <3>1. threads' = threads /\ threads.cnt = 0
      BY <1>2, <2>2 DEF AddWork, HostInv, ThreadInv
    <3>l. LostNow'
      BY <2>0, <3>1, LostKept
    <3>2. ThreadInv'
      BY <2>0, <2>2, <3>1, <3>l DEF ThreadInv, LostNow
    <3> QED
      BY <2>0, <3>1, <3>2
  <2>3. CASE load.poll
    <3> DEFINE b == LeastBusy(threads)
               old == threads.work
               new == [old EXCEPT ![b] = old[b] \cup {<<d, e>>}]
    <3>1. threads.cnt > 0
      <4>1. \E i \in 1..Len(list) : list[i] = d
        BY <1>1 DEF HostInv, ListInv, Unlisted
      <4>2. list # <<>>
        BY <4>1
      <4> QED
        BY <2>0, <2>3, <4>2 DEF HostInv, ThreadInv
    <3>2. b \in 1..threads.cnt
      BY <2>0, <3>1, LeastBusyIs
    <3>3. threads' = [threads EXCEPT !.work = new]
      BY <1>2, <2>3 DEF AddWork
    <3> HIDE DEF b
    <3>4. /\ new \in [1..threads.cnt -> SUBSET (Devs \X Ids)]
          /\ new[b] = old[b] \cup {<<d, e>>}
          /\ \A i \in 1..threads.cnt : i # b => new[i] = old[i]
      BY <1>5, <2>0, <3>2
    <3> HIDE DEF new
    <3>5. /\ threads'.cnt = threads.cnt /\ threads'.work = new
          /\ threads' = [cnt |-> threads'.cnt, work |-> threads'.work, lost |-> threads'.lost]
      BY <2>0, <3>3
    <3>6. \A i \in 1..threads.cnt : <<d, e>> \notin old[i]
      <4>1. \A i \in 1..threads.cnt : \A x \in old[i] : x[2] \in dev[x[1]].eng
        BY DEF HostInv, ThreadInv
      <4> QED
        BY <1>7, <4>1
    <3>7. \A i \in 1..threads.cnt : \A x \in new[i] : x[2] \in dev'[x[1]].eng
      <4> SUFFICES ASSUME NEW i \in 1..threads.cnt, NEW x \in new[i]
                   PROVE  x[2] \in dev'[x[1]].eng
        OBVIOUS
      <4>1. CASE x = <<d, e>>
        BY <1>10, <1>12, <4>1
      <4>2. CASE x # <<d, e>>
        <5>1. x \in old[i]
          BY <3>4, <4>2
        <5>2. x[1] \in Devs /\ x[2] \in dev[x[1]].eng
          BY <2>0, <5>1 DEF HostInv, ThreadInv
        <5> QED
          BY <2>1, <5>2
      <4> QED
        BY <4>1, <4>2
    <3>8. ASSUME NEW x \in Devs, NEW g \in dev'[x].eng
          PROVE  \E i \in 1..threads.cnt : \A j \in 1..threads.cnt :
                   <<x, g>> \in new[j] <=> j = i
      <4>1. CASE x = d /\ g = e
        <5>1. \A j \in 1..threads.cnt : <<x, g>> \in new[j] <=> j = b
          BY <3>4, <3>6, <4>1
        <5> QED
          BY <3>2, <5>1
      <4>2. CASE ~(x = d /\ g = e)
        <5>1. g \in dev[x].eng
          BY <1>10, <1>12, <4>2
        <5>2. PICK i \in 1..threads.cnt : \A j \in 1..threads.cnt :
                <<x, g>> \in old[j] <=> j = i
          BY <2>3, <5>1 DEF HostInv, ThreadInv
        <5>3. <<x, g>> # <<d, e>>
          BY <4>2
        <5>4. \A j \in 1..threads.cnt : <<x, g>> \in new[j] <=> <<x, g>> \in old[j]
          BY <3>4, <5>3
        <5> QED
          BY <5>2, <5>4
      <4> QED
        BY <4>1, <4>2
    <3>9. threads.cnt = 0 <=> list = <<>>
      BY <2>3 DEF HostInv, ThreadInv
    <3>l. LostNow'
      <4>1. threads'.lost = threads.lost
        BY <2>0, <2>3, <1>2 DEF AddWork
      <4> QED
        BY <2>0, <4>1, LostKept
    <3>10. ThreadInv'
      BY <2>0, <2>3, <3>5, <3>7, <3>8, <3>9, <3>l DEF ThreadInv, LostNow
    <3> QED
      BY <2>0, <3>4, <3>5, <3>10
  <2> QED
    BY <2>2, <2>3
<1>15. LifeTypes'
  BY <1>2, <1>12, <1>14 DEF HostInv, LifeTypes
<1> QED
  BY <1>12, <1>13, <1>14, <1>15 DEF HostInv

LEMMA RemoveEngineKeeps ==
  ASSUME HostInv, NEW d \in Devs, RemoveEngine(d), UNCHANGED <<load, given>>
  PROVE  HostInv'
<1> DEFINE D == dev[d]
<1>1. /\ D \in DevRecs /\ CardInv(D) /\ D.pc = "undo_engines" /\ Used(D) = D
  BY HostCard, UsedIsSafe DEF RemoveEngine, At, Mapped
<1>2. PICK e \in D.eng :
        /\ threads' = RemoveWork(threads, <<d, e>>)
        /\ Advance(d, "undo_engines", EngineDestroyed(D, e))
  BY DEF RemoveEngine
<1> DEFINE G == D.eng \ {e}
           E == [[D EXCEPT !.eng = G] EXCEPT !.pc = "undo_engines"]
<1>3. dev' = [dev EXCEPT ![d] = E] /\ UNCHANGED <<list, mod, files>>
  BY <1>1, <1>2 DEF RemoveEngine, Advance, EngineDestroyed
<1>4. E \in DevRecs /\ CardInv(E)
  BY <1>1, KeptByRemoval
<1>5. /\ E.pc = D.pc /\ E.eng = G /\ E.gen = D.gen /\ E.idx = D.idx /\ E.fault = D.fault
  BY <1>1 DEF DevRecs
<1> HIDE DEF E
<1>6. CardTurns(d, E)
  BY <1>3, <1>4 DEF CardTurns
<1>7. /\ Cards' /\ dev' \in [Devs -> DevRecs] /\ load' \in Loads /\ given' \in StubSituations
      /\ dev'[d] = E /\ \A x \in Devs : x # d => dev'[x] = dev[x]
  BY <1>6, CardTurned DEF HostInv
<1>8. ListInv' /\ ModInv' /\ FileInv'
  BY <1>3, <1>5, <1>6, <1>7, OthersKept
<1>9. /\ threads'.cnt \in Nat /\ threads'.work \in [1..threads'.cnt -> SUBSET (Devs \X Ids)]
      /\ threads' = [cnt |-> threads'.cnt, work |-> threads'.work, lost |-> threads'.lost]
      /\ ThreadInv'
  <2>0. /\ threads.cnt \in Nat /\ threads.work \in [1..threads.cnt -> SUBSET (Devs \X Ids)]
        /\ threads = [cnt |-> threads.cnt, work |-> threads.work, lost |-> threads.lost]
        /\ load' = load /\ list' = list
    BY <1>3, <1>6 DEF HostInv, LifeTypes, CardTurns
  <2> DEFINE old == threads.work
             new == [i \in 1..threads.cnt |-> old[i] \ {<<d, e>>}]
  <2>1. threads' = [threads EXCEPT !.work = new]
    BY <1>2, <2>0 DEF RemoveWork
  <2>2. /\ new \in [1..threads.cnt -> SUBSET (Devs \X Ids)]
        /\ \A i \in 1..threads.cnt : new[i] = old[i] \ {<<d, e>>}
    BY <2>0
  <2> HIDE DEF new
  <2>3. /\ threads'.cnt = threads.cnt /\ threads'.work = new
        /\ threads' = [cnt |-> threads'.cnt, work |-> threads'.work, lost |-> threads'.lost]
    BY <2>0, <2>1
  <2>4. ASSUME NEW i \in 1..threads.cnt, NEW x \in new[i]
        PROVE  x[2] \in dev'[x[1]].eng
    <3>1. x \in old[i] /\ x # <<d, e>>
      BY <2>2
    <3>2. x[1] \in Devs /\ x = <<x[1], x[2]>> /\ x[2] \in dev[x[1]].eng
      BY <2>0, <3>1 DEF HostInv, ThreadInv
    <3>3. CASE x[1] = d
      BY <1>5, <1>7, <3>1, <3>2, <3>3
    <3>4. CASE x[1] # d
      BY <1>7, <3>2, <3>4
    <3> QED
      BY <3>3, <3>4
  <2>5. ASSUME load.poll, NEW x \in Devs, NEW g \in dev'[x].eng
        PROVE  \E i \in 1..threads.cnt : \A j \in 1..threads.cnt : <<x, g>> \in new[j] <=> j = i
    <3>1. g \in dev[x].eng /\ <<x, g>> # <<d, e>>
      BY <1>5, <1>7
    <3>2. PICK i \in 1..threads.cnt : \A j \in 1..threads.cnt : <<x, g>> \in old[j] <=> j = i
      BY <2>5, <3>1 DEF HostInv, ThreadInv
    <3>3. \A j \in 1..threads.cnt : <<x, g>> \in new[j] <=> <<x, g>> \in old[j]
      BY <2>2, <3>1
    <3> QED
      BY <3>2, <3>3
  <2>6. /\ load.poll => (threads.cnt = 0 <=> list = <<>>)
        /\ ~load.poll => threads.cnt = 0
    BY DEF HostInv, ThreadInv
  <2>l. LostNow'
    <3>1. threads'.lost = threads.lost
      BY <2>0, <2>1
    <3> QED
      BY <2>0, <3>1, LostKept
  <2>7. ThreadInv'
    BY <2>0, <2>3, <2>4, <2>5, <2>6, <2>l DEF ThreadInv, LostNow
  <2> QED
    BY <2>0, <2>2, <2>3, <2>7
<1>10. LifeTypes'
  BY <1>3, <1>7, <1>9 DEF HostInv, LifeTypes
<1> QED
  BY <1>7, <1>8, <1>9, <1>10 DEF HostInv

-----------------------------------------------------------------------------
(* The module, and all steps of the host's driver                          *)

LEMMA CardsUnchanged ==
  ASSUME HostInv, UNCHANGED <<load, given, dev, list, threads, files>>
  PROVE  Cards' /\ ListInv' /\ ThreadInv'
<1>1. Cards'
  <2> SUFFICES ASSUME NEW x \in Devs
               PROVE  CardInv(dev[x])'
    BY DEF Cards
  <2>1. CardInv(dev'[x])
    BY DEF HostInv, Cards
  <2> QED
    BY <2>1, CardPrimed
<1>2. ListInv'
  BY DEF HostInv, ListInv
<1>3. ThreadInv'
  BY DEF HostInv, ThreadInv, Fails
<1> QED
  BY <1>1, <1>2, <1>3

LEMMA HostUnchanged ==
  ASSUME HostInv, UNCHANGED <<load, given, dev, list, threads, mod, files>>
  PROVE  HostInv'
<1>1. Cards' /\ ListInv' /\ ThreadInv'
  BY CardsUnchanged
<1>2. LifeTypes'
  BY DEF HostInv, LifeTypes
<1>3. ModInv'
  BY DEF HostInv, ModInv
<1>4. FileInv'
  BY DEF HostInv, FileInv
<1> QED
  BY <1>1, <1>2, <1>3, <1>4 DEF HostInv

LEMMA ModuleKeeps ==
  ASSUME HostInv, UNCHANGED <<load, given>>, ModInit \/ ModInitFails \/ ModExit \/ ModGone
  PROVE  HostInv'
<1>0. UNCHANGED <<dev, list, threads, files>>
  BY DEF ModInit, ModInitFails, ModExit, ModGone
<1>1. Cards' /\ ListInv' /\ ThreadInv'
  BY <1>0, CardsUnchanged
<1>2. mod \in [st : {"absent", "live", "exiting"}, class : BOOLEAN, cache : BOOLEAN,
               failed : BOOLEAN]
  BY DEF HostInv, LifeTypes
<1>3. \A p \in Procs : files[p].st # "none" => mod.st = "live"
  BY DEF HostInv, FileInv
<1>4. /\ mod.st = "absent" => \A x \in Devs : dev[x].pc = "absent"
      /\ \A x \in Devs : dev[x].pc = "absent" => dev[x].pc \notin Ends1 \cup Ends2
  BY DEF HostInv, ModInv, Ends1, Ends2
<1>5. CASE ModInit
  <2>1. mod.st = "absent" /\ mod' = [mod EXCEPT !.st = "live", !.class = TRUE, !.cache = TRUE]
    BY <1>5 DEF ModInit
  <2>2. mod'.st = "live" /\ mod' \in [st : {"absent", "live", "exiting"}, class : BOOLEAN,
                                      cache : BOOLEAN, failed : BOOLEAN]
    BY <1>2, <2>1
  <2>3. ModInv'
    BY <1>0, <1>4, <2>1, <2>2 DEF ModInv
  <2>4. FileInv'
    BY <1>0, <1>3, <2>1 DEF FileInv
  <2>5. LifeTypes'
    BY <1>0, <2>2 DEF HostInv, LifeTypes
  <2> QED
    BY <1>1, <2>3, <2>4, <2>5 DEF HostInv
<1>6. CASE ModInitFails
  <2>1. PICK a \in BOOLEAN, b \in BOOLEAN :
          mod.st = "absent" /\ mod' = [mod EXCEPT !.failed = TRUE, !.class = a, !.cache = b]
    <3>1. PICK c \in {<<FALSE, FALSE>>, <<TRUE, FALSE>>, <<TRUE, TRUE>>} :
            mod.st = "absent" /\ mod' = [mod EXCEPT !.failed = TRUE, !.class = c[1],
                                                    !.cache = c[2]]
      BY <1>6 DEF ModInitFails
    <3>2. CASE c = <<FALSE, FALSE>>
      BY <3>1, <3>2
    <3>3. CASE c = <<TRUE, FALSE>>
      BY <3>1, <3>3
    <3>4. CASE c = <<TRUE, TRUE>>
      BY <3>1, <3>4
    <3> QED
      BY <3>2, <3>3, <3>4
  <2>2. /\ mod'.st = "absent" /\ mod'.failed
        /\ mod' \in [st : {"absent", "live", "exiting"}, class : BOOLEAN,
                     cache : BOOLEAN, failed : BOOLEAN]
    BY <1>2, <2>1
  <2>3. ModInv'
    BY <1>0, <1>4, <2>1, <2>2 DEF ModInv
  <2>4. FileInv'
    BY <1>0, <1>3, <2>1 DEF FileInv
  <2>5. LifeTypes'
    BY <1>0, <2>2 DEF HostInv, LifeTypes
  <2> QED
    BY <1>1, <2>3, <2>4, <2>5 DEF HostInv
<1>7. CASE ModExit
  <2>1. mod' = [mod EXCEPT !.st = "exiting"] /\ \A p \in Procs : files[p].st = "none"
    BY <1>7 DEF ModExit, Referenced
  <2>2. mod'.st = "exiting" /\ mod' \in [st : {"absent", "live", "exiting"}, class : BOOLEAN,
                                         cache : BOOLEAN, failed : BOOLEAN]
    BY <1>2, <2>1
  <2>3. ModInv'
    BY <2>2 DEF ModInv
  <2>4. FileInv'
    BY <1>0, <2>1 DEF FileInv
  <2>5. LifeTypes'
    BY <1>0, <2>2 DEF HostInv, LifeTypes
  <2> QED
    BY <1>1, <2>3, <2>4, <2>5 DEF HostInv
<1>8. CASE ModGone
  <2>1. /\ mod.st = "exiting" /\ \A x \in Devs : dev[x].pc = "absent"
        /\ mod' = [mod EXCEPT !.st = "absent", !.class = FALSE, !.cache = FALSE]
    BY <1>8 DEF ModGone, At
  <2>2. /\ mod'.st = "absent" /\ ~mod'.class /\ ~mod'.cache
        /\ mod' \in [st : {"absent", "live", "exiting"}, class : BOOLEAN,
                     cache : BOOLEAN, failed : BOOLEAN]
    BY <1>2, <2>1
  <2>3. ModInv'
    BY <1>0, <1>4, <2>1, <2>2 DEF ModInv
  <2>4. FileInv'
    BY <1>0, <1>3, <2>1 DEF FileInv
  <2>5. LifeTypes'
    BY <1>0, <2>2 DEF HostInv, LifeTypes
  <2> QED
    BY <1>1, <2>3, <2>4, <2>5 DEF HostInv
<1> QED
  BY <1>5, <1>6, <1>7, <1>8

LEMMA HostKeeps ==
  ASSUME HostInv, HostNext
  PROVE  HostInv'
<1>1. UNCHANGED <<load, given>>
  BY DEF HostNext, stubVars
<1>2. CASE ModInit \/ ModInitFails \/ ModExit \/ ModGone
  BY <1>1, <1>2, ModuleKeeps
<1>3. CASE PollEngine
  BY <1>1, <1>3, PollEngineKeeps
<1>4. ASSUME NEW d \in Devs, Probe(d)
      PROVE  HostInv'
  BY <1>1, <1>4, ProbeStartKeeps, ListAddKeeps, ListAddFailsKeeps, EnableFailureKeeps,
     EnableDeviceKeeps, RegionFailureKeeps, RequestRegionsKeeps, MapBarsKeeps,
     MapBarsFailsKeeps, MaskFailureKeeps, SetDmaMaskKeeps, ProbeEngineKeeps,
     ProbeEngineEndsKeeps, VectorFailureKeeps, EnableVectorsKeeps, IrqSetupKeeps,
     IrqSetupFailsKeeps, UserEnableKeeps, CreateNodeKeeps, CreateNodeFailsKeeps
     DEF Probe
<1>5. ASSUME NEW d \in Devs, Release(d)
      PROVE  HostInv'
  BY <1>1, <1>5, RemoveOneKeeps, DestroyNodesKeeps, MaskInterruptsKeeps, IrqTeardownKeeps,
     DisableVectorsKeeps, RemoveEngineKeeps, UnmapBarsKeeps, ReleaseRegionsKeeps,
     DisableDeviceKeeps, ListRemoveKeeps, FreeDevKeeps
     DEF Release
<1>6. ASSUME NEW d \in Devs, Switch(d)
      PROVE  HostInv'
  BY <1>1, <1>6, OfflineKeeps, OnlineKeeps, ErrorDetectedKeeps, SlotResetKeeps DEF Switch
<1>7. ASSUME NEW d \in Devs, Interrupted(d)
      PROVE  HostInv'
  BY <1>1, <1>7, ChannelInterruptKeeps, WorkKeeps, UserInterruptKeeps DEF Interrupted
<1>8. ASSUME NEW p \in Procs, FileOperation(p)
      PROVE  HostInv'
  <2>1. ASSUME NEW d \in Devs, Open(p, d)
        PROVE  HostInv'
    BY <1>1, <2>1, OpenKeeps
  <2>2. CASE ReadTakes(p)
    BY <1>1, <2>2, ReadTakesKeeps
  <2>3. CASE Close(p) \/ ReadEvents(p) \/ ReadWakes(p) \/ ReadInterrupted(p)
    BY <1>1, <2>3, CloseKeeps
  <2> QED
    BY <1>8, <2>1, <2>2, <2>3 DEF FileOperation
<1> QED
  BY <1>2, <1>3, <1>4, <1>5, <1>6, <1>7, <1>8 DEF HostNext

-----------------------------------------------------------------------------
(* The guest's driver                                                      *)

LEMMA StubCardIs == StubCard \in CardRecs
BY DEF StubCard, CardRecs

LEMMA StubKeeps ==
  ASSUME StubInv, given \in StubSituations, StubNext
  PROVE  StubInv' /\ given' = given
<1>0. /\ stub \in StubRecs /\ stub.N \in NodeRecs /\ given.faults \in BOOLEAN
      /\ given.ids \in BOOLEAN
  BY StubAssumption DEF StubInv, StubRecs
<1>g. given' = given
  BY DEF StubNext, StubCdevInit, StubEnable, StubCreateNode, StubHook, StubInitFails, StubProbe,
         StubFree, StubUnhook, StubUnregister, StubStep
<1>n. stub.pc \in {"nodes", "hook", "live"} => stub.N.nodes \subseteq AllNodes(StubCard)
  <2>1. CASE stub.pc = "nodes"
    <3>1. PICK k \in 0..(Len(NodeSeq(StubCard)) - 1) : stub.N.nodes = FirstNodes(StubCard, k)
      BY <2>1 DEF StubInv
    <3>2. k \in 0..Len(NodeSeq(StubCard))
      BY StubCardIs, NodesPlain
    <3> QED
      BY <3>1, <3>2, StubCardIs, NodesCounted
  <2>2. CASE stub.pc \in {"hook", "live"}
    BY <2>2 DEF StubInv
  <2> QED
    BY <2>1, <2>2
<1>1. CASE StubCdevInit
  <2>1. /\ stub.pc = "absent" /\ ~stub.failed /\ stub.N = NoNodes
        /\ stub' = [[stub EXCEPT !.class = TRUE, !.cache = TRUE] EXCEPT !.pc = "devices"]
    BY <1>1 DEF StubCdevInit, StubStep, StubInv
  <2>2. stub' \in StubRecs
    BY <1>0, <2>1 DEF StubRecs
  <2> QED
    BY <1>0, <1>g, <2>1, <2>2 DEF StubInv, StubRecs
<1>2. CASE StubEnable
  <2>1. /\ stub.pc = "devices" /\ stub.N = NoNodes
        /\ stub' = [[stub EXCEPT !.xpdev = "live", !.xdev = "live", !.driver = TRUE]
                    EXCEPT !.pc = "nodes"]
    BY <1>2 DEF StubEnable, StubStep, StubInv
  <2>2. stub' \in StubRecs
    BY <1>0, <2>1 DEF StubRecs
  <2>3. 0 \in 0..(Len(NodeSeq(StubCard)) - 1) /\ FirstNodes(StubCard, 0) = {}
    BY StubCardIs, NodesPlain DEF FirstNodes
  <2>4. /\ stub'.pc = "nodes" /\ stub'.N = stub.N /\ stub'.misuse = stub.misuse
        /\ stub'.pdev = stub.pdev /\ stub'.hooked = stub.hooked
    BY <1>0, <2>1 DEF StubRecs
  <2>5. stub.N.nodes = {} /\ stub.N.dead = {} /\ ~stub.N.twice
    BY <2>1 DEF NoNodes
  <2>6. \E k \in 0..(Len(NodeSeq(StubCard)) - 1) : stub'.N.nodes = FirstNodes(StubCard, k)
    BY <2>3, <2>4, <2>5
  <2>7. ~stub.hooked /\ (stub.misuse # {} \/ stub.pdev = "claimed" => given.ids)
    BY <2>1 DEF StubInv
  <2> QED
    BY <1>g, <2>2, <2>4, <2>5, <2>6, <2>7 DEF StubInv, StubRecs
<1>3. CASE StubCreateNode
  <2> DEFINE M == CreateXcdev(StubCard, stub.N)
             to == IF AllCreated(StubCard, M) THEN "hook" ELSE "nodes"
  <2>1. stub.pc = "nodes" /\ stub' = [[stub EXCEPT !.N = M] EXCEPT !.pc = to]
    BY <1>3 DEF StubCreateNode, StubStep
  <2>2. PICK k \in 0..(Len(NodeSeq(StubCard)) - 1) : stub.N.nodes = FirstNodes(StubCard, k)
    BY <2>1 DEF StubInv
  <2>3. /\ M \in NodeRecs /\ M.nodes = FirstNodes(StubCard, k + 1)
        /\ M.dead = stub.N.dead /\ M.twice = stub.N.twice
        /\ AllCreated(StubCard, M) => M.nodes = AllNodes(StubCard)
        /\ ~AllCreated(StubCard, M) => k + 1 \in 0..(Len(NodeSeq(StubCard)) - 1)
    BY <1>0, <2>2, StubCardIs, NodeCreated
  <2>4. /\ stub.N.dead = {} /\ ~stub.N.twice /\ ~stub.hooked
        /\ stub.misuse # {} \/ stub.pdev = "claimed" => given.ids
    BY <2>1 DEF StubInv
  <2> HIDE DEF M
  <2>5. /\ stub'.pc = to /\ stub'.N = M /\ stub'.misuse = stub.misuse
        /\ stub'.pdev = stub.pdev /\ stub'.hooked = stub.hooked /\ stub' \in StubRecs
    BY <1>0, <2>1, <2>3 DEF StubRecs
  <2>6. CASE to = "nodes"
    <3>1. \E j \in 0..(Len(NodeSeq(StubCard)) - 1) : M.nodes = FirstNodes(StubCard, j)
      BY <2>3, <2>6
    <3> QED
      BY <1>g, <2>3, <2>4, <2>5, <2>6, <3>1 DEF StubInv, StubRecs
  <2>7. CASE to = "hook"
    BY <1>g, <2>3, <2>4, <2>5, <2>7 DEF StubInv, StubRecs
  <2> QED
    BY <2>6, <2>7
<1>4. CASE StubHook
  <2>1. stub.pc = "hook" /\ stub' = [[stub EXCEPT !.hooked = TRUE] EXCEPT !.pc = "live"]
    BY <1>4 DEF StubHook, StubStep
  <2>2. stub' \in StubRecs
    BY <1>0, <2>1 DEF StubRecs
  <2> QED
    BY <1>0, <1>g, <2>1, <2>2 DEF StubInv, StubRecs
<1>5. CASE StubInitFails
  <2>0. given.faults
    BY <1>5 DEF StubInitFails
  <2>1. CASE stub.pc = "absent"
    <3>1. PICK c \in BOOLEAN :
            stub' = [[stub EXCEPT !.failed = TRUE, !.class = c] EXCEPT !.pc = "absent"]
      BY <1>5, <2>1 DEF StubInitFails, StubStep
    <3>2. stub' \in StubRecs
      BY <1>0, <3>1 DEF StubRecs
    <3> QED
      BY <1>0, <1>g, <2>0, <2>1, <3>1, <3>2 DEF StubInv, StubRecs
  <2>2. CASE stub.pc = "devices"
    <3>1. PICK x \in {"none", "live"} :
            stub' = [[stub EXCEPT !.failed = TRUE, !.xpdev = x] EXCEPT !.pc = "absent"]
      BY <1>5, <2>2 DEF StubInitFails, StubStep
    <3>2. stub' \in StubRecs
      BY <1>0, <3>1 DEF StubRecs
    <3> QED
      BY <1>0, <1>g, <2>0, <2>2, <3>1, <3>2 DEF StubInv, StubRecs
  <2>3. CASE stub.pc \notin {"absent", "devices"}
    <3> DEFINE M == DestroyInterfaces(StubCard, stub.N)
    <3>1. stub.pc = "nodes"
          /\ stub' = [[stub EXCEPT !.failed = TRUE, !.N = M] EXCEPT !.pc = "absent"]
      BY <1>5, <2>3 DEF StubInitFails, StubStep
    <3>2. M \in NodeRecs
      BY <1>0, <1>n, <3>1, StubCardIs, NodesDestroyed
    <3> HIDE DEF M
    <3>3. stub' \in StubRecs
      BY <1>0, <3>1, <3>2 DEF StubRecs
    <3> QED
      BY <1>0, <1>g, <2>0, <3>1, <3>3 DEF StubInv, StubRecs
  <2> QED
    BY <2>1, <2>2, <2>3
<1>6. CASE StubProbe
  <2> DEFINE m == IF stub.xpdev = "freed" THEN stub.misuse \cup {"probe"} ELSE stub.misuse
  <2>1. given.ids /\ stub' = [stub EXCEPT !.pdev = "claimed", !.misuse = m]
    BY <1>6 DEF StubProbe
  <2>2. m \in SUBSET {"probe", "pdev"}
    BY <1>0 DEF StubRecs
  <2> HIDE DEF m
  <2>3. stub' \in StubRecs
    BY <1>0, <2>1, <2>2 DEF StubRecs
  <2>4. /\ stub'.pc = stub.pc /\ stub'.class = stub.class /\ stub'.cache = stub.cache
        /\ stub'.driver = stub.driver /\ stub'.hooked = stub.hooked /\ stub'.N = stub.N
        /\ stub'.failed = stub.failed
    BY <1>0, <2>1 DEF StubRecs
  <2> QED
    BY <1>g, <2>1, <2>3, <2>4 DEF StubInv, StubRecs
<1>7. CASE StubFree
  <2> DEFINE M == DestroyInterfaces(StubCard, stub.N)
             m == IF stub.pdev = "claimed" THEN stub.misuse \cup {"pdev"} ELSE stub.misuse
  <2>1. /\ stub.pc = "live"
        /\ stub' = [[stub EXCEPT !.N = M, !.class = FALSE, !.cache = FALSE, !.xpdev = "freed",
                                 !.misuse = m] EXCEPT !.pc = "unhook"]
    BY <1>7 DEF StubFree, StubStep
  <2>2. M \in NodeRecs /\ M.nodes = {} /\ ~M.major /\ ~M.twice
    <3>1. /\ stub.N.dead = {} /\ ~stub.N.twice /\ stub.N.nodes = AllNodes(StubCard)
      BY <2>1 DEF StubInv
    <3> QED
      BY <1>0, <1>n, <2>1, <3>1, StubCardIs, NodesDestroyed
  <2>3. m \in SUBSET {"probe", "pdev"}
    BY <1>0 DEF StubRecs
  <2>4. m # {} \/ stub.pdev = "claimed" => given.ids
    BY DEF StubInv
  <2> HIDE DEF M, m
  <2>5. /\ stub' \in StubRecs /\ stub'.pc = "unhook" /\ stub'.N = M /\ stub'.misuse = m
        /\ stub'.pdev = stub.pdev /\ ~stub'.class /\ ~stub'.cache
    BY <1>0, <2>1, <2>2, <2>3 DEF StubRecs
  <2> QED
    BY <1>g, <2>2, <2>4, <2>5 DEF StubInv, StubRecs
<1>8. CASE StubUnhook
  <2>1. stub.pc = "unhook" /\ stub' = [[stub EXCEPT !.hooked = FALSE] EXCEPT !.pc = "unregister"]
    BY <1>8 DEF StubUnhook, StubStep
  <2>2. stub' \in StubRecs
    BY <1>0, <2>1 DEF StubRecs
  <2> QED
    BY <1>0, <1>g, <2>1, <2>2 DEF StubInv, StubRecs
<1>9. CASE StubUnregister
  <2>1. /\ stub.pc = "unregister"
        /\ stub' = [[stub EXCEPT !.driver = FALSE, !.pdev = "none", !.failed = TRUE]
                    EXCEPT !.pc = "absent"]
    BY <1>9 DEF StubUnregister, StubStep
  <2>2. stub' \in StubRecs
    BY <1>0, <2>1 DEF StubRecs
  <2> QED
    BY <1>0, <1>g, <2>1, <2>2 DEF StubInv, StubRecs
<1> QED
  BY <1>g, <1>1, <1>2, <1>3, <1>4, <1>5, <1>6, <1>7, <1>8, <1>9 DEF StubNext

-----------------------------------------------------------------------------
(* The invariant                                                           *)

LEMMA KeptByNothing == NewDev \in DevRecs /\ CardInv(NewDev)
<1>1. NewDev \in DevRecs
  <2>1. NoCard \in CardRecs /\ NoNodes \in NodeRecs
    BY DEF NoCard, CardRecs, NoNodes, NodeRecs
  <2>2. 0 \in 0..MaxResets /\ 0 \in 0..(MaxResets + 1) /\ 0 \in -1..1 /\ 0 \in 0..MaxProbes
    BY DeviceAssumption
  <2>3. "absent" \in Stages /\ "none" \in Faults
    BY DEF Stages, Faults
  <2> QED
    BY <2>1, <2>2, <2>3 DEF NewDev, DevRecs
<1> USE DEF NewDev
<1>2. StageInv(NewDev)
  BY DEF StageInv, Early, InUse, Ends1
<1>3. HeldInv(NewDev)
  BY DEF HeldInv, HasRegion, Mapped, HasEng, HasVec
<1>4. PowerInv(NewDev)
  BY DEF PowerInv, Early, Powered, Unpowered, Falling
<1>5. IrqInv(NewDev)
  BY DEF IrqInv, Early, InUse, Ends1, Ends2
<1>6. MaskInv(NewDev)
  BY DEF MaskInv, InUse, Live
<1>7. NodeInv(NewDev)
  BY DEF NodeInv, Early, NoNodes
<1>8. BarInv(NewDev)
  BY DEF BarInv, Mapped
<1>9. UseInv(NewDev)
  BY DEF UseInv
<1> QED
  BY <1>1, <1>2, <1>3, <1>4, <1>5, <1>6, <1>7, <1>8, <1>9 DEF CardInv

LEMMA LifeInvInit == LifeInit => LifeInv
<1> SUFFICES ASSUME LifeInit
             PROVE  LifeInv
  OBVIOUS
<1>1. /\ load \in Loads /\ given \in StubSituations /\ dev = [d \in Devs |-> NewDev]
      /\ list = <<>> /\ threads = NoThreads /\ files = [p \in Procs |-> NoFile]
      /\ mod = [st |-> "absent", class |-> FALSE, cache |-> FALSE, failed |-> FALSE]
  BY DEF LifeInit, DeviceInit, StubInit
<1>2. Cards
  BY <1>1, KeptByNothing DEF Cards
<1>3. LifeTypes
  <2>1. dev \in [Devs -> DevRecs] /\ list \in Seq(Devs)
    BY <1>1, KeptByNothing
  <2>2. /\ threads.cnt \in Nat /\ threads.work \in [1..threads.cnt -> SUBSET (Devs \X Ids)]
        /\ threads = [cnt |-> threads.cnt, work |-> threads.work, lost |-> threads.lost]
    <3>1. threads.cnt = 0 /\ threads.work = <<>>
      BY <1>1 DEF NoThreads
    <3>2. 1..0 = {}
      OBVIOUS
    <3>3. <<>> \in [{} -> SUBSET (Devs \X Ids)]
      OBVIOUS
    <3>4. threads = [cnt |-> threads.cnt, work |-> threads.work, lost |-> threads.lost]
      BY <1>1 DEF NoThreads
    <3> QED
      BY <3>1, <3>2, <3>3, <3>4
  <2>3. files \in [Procs -> FileRecs]
    <3>1. NoFile \in FileRecs
      BY DEF NoFile, FileRecs
    <3> QED
      BY <1>1, <3>1
  <2> QED
    BY <1>1, <2>1, <2>2, <2>3 DEF LifeTypes
<1>4. \A d \in Devs : dev[d].pc = "absent" /\ dev[d].eng = {}
  BY <1>1 DEF NewDev
<1>5. Len(list) = 0 /\ threads.cnt = 0
  BY <1>1 DEF NoThreads
<1>6. ListInv
  BY <1>4, <1>5 DEF ListInv, Unlisted
<1>7. ThreadInv
  BY <1>1, <1>4, <1>5 DEF ThreadInv, NoThreads
<1>8. ModInv
  BY <1>1, <1>4 DEF ModInv, Ends1, Ends2
<1>9. FileInv
  BY <1>1 DEF FileInv, NoFile
<1>10. StubInv
  <2>1. NoNodes \in NodeRecs /\ NoNodes.nodes = {} /\ ~NoNodes.major /\ ~NoNodes.twice
    BY DEF NoNodes, NodeRecs
  <2>2. stub = [pc |-> "absent", class |-> FALSE, cache |-> FALSE, xpdev |-> "none",
                xdev |-> "none", pdev |-> "none", driver |-> FALSE, N |-> NoNodes,
                hooked |-> FALSE, failed |-> FALSE, misuse |-> {}]
    BY DEF LifeInit, StubInit
  <2> QED
    BY <2>1, <2>2 DEF StubInv, StubRecs
<1> QED
  BY <1>2, <1>3, <1>6, <1>7, <1>8, <1>9, <1>10 DEF LifeInv

\* The driver of the host and that of the guest do not meet.
LEMMA LifeInvNext == LifeInv /\ [LifeNext]_lifeVars => LifeInv'
<1> SUFFICES ASSUME LifeInv, [LifeNext]_lifeVars
             PROVE  LifeInv'
  OBVIOUS
<1>1. HostInv /\ StubInv /\ given \in StubSituations
  BY DEF LifeInv, HostInv, LifeTypes
<1>2. ASSUME UNCHANGED stubVars
      PROVE  StubInv'
  BY <1>1, <1>2 DEF StubInv, stubVars
<1>3. CASE HostNext
  <2>1. HostInv'
    BY <1>1, <1>3, HostKeeps
  <2>2. StubInv'
    BY <1>2, <1>3 DEF HostNext
  <2> QED
    BY <2>1, <2>2 DEF LifeInv, HostInv
<1>4. CASE GuestNext
  <2>1. StubInv' /\ given' = given
    BY <1>1, <1>4, StubKeeps DEF GuestNext
  <2>2. UNCHANGED <<load, given, dev, list, threads, mod, files>>
    BY <1>4, <2>1 DEF GuestNext, deviceVars
  <2>3. HostInv'
    BY <1>1, <2>2, HostUnchanged
  <2> QED
    BY <2>1, <2>3 DEF LifeInv, HostInv
<1>5. CASE UNCHANGED lifeVars
  <2>1. UNCHANGED <<load, given, dev, list, threads, mod, files>> /\ UNCHANGED stubVars
    BY <1>5 DEF lifeVars, deviceVars, stubVars
  <2>2. HostInv'
    BY <1>1, <2>1, HostUnchanged
  <2> QED
    BY <1>2, <2>1, <2>2 DEF LifeInv, HostInv
<1> QED
  BY <1>3, <1>4, <1>5 DEF LifeNext

LEMMA LifeInvHolds == LifeSpec => []LifeInv
BY LifeInvInit, LifeInvNext, PTL DEF LifeSpec

-----------------------------------------------------------------------------
(* What it implies                                                         *)

LEMMA InvTyped == LifeInv => LifeTypeOK
<1> SUFFICES ASSUME LifeInv
             PROVE  LifeTypeOK
  OBVIOUS
<1>0. HostInv
  BY DEF LifeInv, HostInv
<1>1. ASSUME NEW d \in Devs
      PROVE  /\ dev[d].gen \in 0..MaxProbes /\ dev[d].resets \in 0..MaxResets
             /\ dev[d].enabled \in -1..1 /\ dev[d].shared \in 0..(MaxResets + 1)
             /\ dev[d].xdev \in {"none", "live", "freed"}
             /\ dev[d].irqs \subseteq dev[d].lines
             /\ dev[d].bars = {} \/ dev[d].card.config \in dev[d].bars
  <2>1. dev[d] \in DevRecs /\ CardInv(dev[d])
    BY <1>0, HostCard
  <2>2. dev[d].irqs \subseteq dev[d].lines
    BY <2>1 DEF CardInv, IrqInv
  <2>3. dev[d].bars = {} \/ dev[d].card.config \in dev[d].bars
    BY <2>1 DEF CardInv, HeldInv
  <2> QED
    BY <2>1, <2>2, <2>3 DEF DevRecs
<1>2. ToSet(list) \subseteq Devs
  BY DEF LifeInv, LifeTypes, ToSet
<1>3. DOMAIN threads.work = 1..threads.cnt
  BY DEF LifeInv, LifeTypes
<1>4. \A p \in Procs : files[p].st \in {"none", "open", "reading", "woken"}
  BY DEF LifeInv, LifeTypes, FileRecs
<1>5. load \in Loads /\ given \in StubSituations
  BY DEF LifeInv, LifeTypes
<1> QED
  BY <1>1, <1>2, <1>3, <1>4, <1>5 DEF LifeTypeOK

\* A card that is not there is in no list and on no thread.
LEMMA InvReleased == LifeInv => Released
<1> SUFFICES ASSUME LifeInv
             PROVE  Released
  OBVIOUS
<1>0. /\ HostInv /\ DOMAIN threads.work = 1..threads.cnt /\ list \in Seq(Devs)
      /\ threads.cnt \in Nat /\ load.poll \in BOOLEAN
  BY LoadFacts DEF LifeInv, HostInv, LifeTypes
<1>1. ASSUME NEW d \in Devs, dev[d].pc = "absent", Orderly(dev[d]),
             dev[d].fault \notin {"irqs", "nodes"}
      PROVE  /\ dev[d].irqs = {} /\ dev[d].shared = 0 /\ ~dev[d].vectors /\ ~dev[d].regions
             /\ dev[d].bars = {} /\ dev[d].eng = {} /\ d \notin ToSet(list)
             /\ dev[d].enabled = IF dev[d].inUse THEN 1 ELSE 0
             /\ \A i \in DOMAIN threads.work : \A x \in threads.work[i] : x[1] # d
             /\ ~dev[d].N.major /\ dev[d].N.nodes = {} /\ ~dev[d].N.twice
             /\ "vectors" \notin dev[d].misuse
             /\ "irq twice" \in dev[d].misuse => dev[d].partly
  <2>1. CardInv(dev[d])
    BY <1>0, HostCard
  <2>2. dev[d].irqs = {} /\ dev[d].shared = 0
    BY <1>1, <2>1 DEF CardInv, IrqInv
  <2>3. ~dev[d].vectors /\ ~dev[d].regions /\ dev[d].bars = {} /\ dev[d].eng = {}
    BY <1>1, <2>1 DEF CardInv, HeldInv, HasRegion, HasVec, Mapped, HasEng
  <2>4. d \notin ToSet(list)
    <3>1. ~\E i \in 1..Len(list) : list[i] = d
      BY <1>1 DEF LifeInv, ListInv, Unlisted
    <3> QED
      BY <1>0, <3>1 DEF ToSet
  <2>5. dev[d].enabled = IF dev[d].inUse THEN 1 ELSE 0
    BY <1>1, <2>1 DEF CardInv, PowerInv, Unpowered, Orderly
  <2>6. \A i \in DOMAIN threads.work : \A x \in threads.work[i] : x[1] # d
    BY <1>0, <2>3 DEF HostInv, ThreadInv
  <2>7. ~dev[d].N.major /\ dev[d].N.nodes = {} /\ ~dev[d].N.twice
    BY <1>1, <2>1 DEF CardInv, NodeInv
  <2>8. /\ "vectors" \notin dev[d].misuse
        /\ "irq twice" \in dev[d].misuse => dev[d].partly
    BY <1>1, <2>1 DEF CardInv, UseInv
  <2> QED
    BY <2>2, <2>3, <2>4, <2>5, <2>6, <2>7, <2>8
<1>2. ASSUME mod.st = "absent", ~mod.failed
      PROVE  /\ ~mod.class /\ ~mod.cache /\ threads.cnt = 0
             /\ threads.lost => load.poll /\ Fails("threads")
  <2>1. ~mod.class /\ ~mod.cache /\ \A d \in Devs : dev[d].pc = "absent"
    BY <1>2 DEF LifeInv, ModInv
  <2>2. list = <<>>
    <3>1. ASSUME Len(list) > 0
          PROVE  FALSE
      <4>1. 1 \in 1..Len(list) /\ list[1] \in Devs
        BY <1>0, <3>1
      <4>2. dev[list[1]].pc \notin Unlisted
        BY <4>1 DEF LifeInv, ListInv
      <4> QED
        BY <2>1, <4>1, <4>2 DEF Unlisted
    <3> QED
      BY <1>0, <3>1
  <2> QED
    BY <1>0, <2>1, <2>2 DEF LifeInv, ThreadInv
<1>3. stub.pc = "absent" /\ ~given.faults =>
        /\ ~stub.class /\ ~stub.cache /\ ~stub.driver /\ ~stub.hooked
        /\ ~stub.N.major /\ stub.N.nodes = {} /\ ~stub.N.twice
  BY DEF LifeInv, StubInv
<1> QED
  BY <1>1, <1>2, <1>3 DEF Released, At

LEMMA InvSafe == LifeInv => MemorySafe
<1> SUFFICES ASSUME LifeInv
             PROVE  MemorySafe
  OBVIOUS
<1>1. \A d \in Devs : UseInv(dev[d])
  BY DEF LifeInv, Cards, CardInv
<1>2. stub.misuse # {} => given.ids
  BY DEF LifeInv, StubInv
<1> QED
  BY <1>1, <1>2 DEF MemorySafe, UseInv

\* Cards with devices are in the list, where the numbers increase.
LEMMA InvUnique == LifeInv => NamesUnique
<1> SUFFICES ASSUME LifeInv, NEW d \in Devs, NEW e \in Devs,
                    NEW m \in dev[d].N.nodes, NEW n \in dev[e].N.nodes
             PROVE  /\ d # e /\ "nodes" \notin {dev[d].fault, dev[e].fault} =>
                         dev[d].idx # dev[e].idx
                    /\ d = e /\ m # n => Minor(m) # Minor(n)
  BY DEF NamesUnique
<1>0. /\ HostInv /\ list \in Seq(Devs)
      /\ \A x \in Devs : dev[x] \in DevRecs /\ CardInv(dev[x]) /\ dev[x].idx \in Nat
  <2>1. HostInv
    BY DEF LifeInv, HostInv
  <2> QED
    BY <2>1, HostCard DEF HostInv, LifeTypes, DevRecs
<1>1. ASSUME d # e, dev[d].fault # "nodes", dev[e].fault # "nodes"
      PROVE  dev[d].idx # dev[e].idx
  <2>1. ASSUME NEW x \in {d, e}
        PROVE  dev[x].pc \notin Unlisted
    <3>1. /\ CardInv(dev[x]) /\ dev[x].fault # "nodes" /\ dev[x].N.nodes # {}
      BY <1>0, <1>1
    <3>2. dev[x].pc \notin Ends2 \cup {"absent"}
      BY <3>1 DEF CardInv, NodeInv
    <3>3. dev[x].pc # "list"
      BY <3>1 DEF CardInv, NodeInv, Early, NoNodes
    <3> QED
      BY <3>2, <3>3 DEF Unlisted, Ends2
  <2>2. PICK i \in 1..Len(list), j \in 1..Len(list) : list[i] = d /\ list[j] = e
    BY <2>1 DEF LifeInv, ListInv
  <2>3. i # j /\ i \in Int /\ j \in Int
    BY <1>0, <1>1, <2>2
  <2>4. i < j \/ j < i
    BY <2>3
  <2>5. dev[d].idx < dev[e].idx \/ dev[e].idx < dev[d].idx
    BY <2>2, <2>4 DEF LifeInv, ListInv
  <2> QED
    BY <1>0, <2>5
<1>2. ASSUME d = e, m # n
      PROVE  Minor(m) # Minor(n)
  <2>1. dev[d].N.nodes \subseteq NodeNames
    BY <1>0 DEF DevRecs, NodeRecs
  <2>2. m \in NodeNames /\ n \in NodeNames
    BY <1>2, <2>1
  <2> QED
    BY <1>2, <2>2, MinorsDiffer
<1> QED
  BY <1>1, <1>2

LEMMA InvServiceable == LifeInv => Serviceable
<1> SUFFICES ASSUME LifeInv, NEW d \in Devs, dev[d].pc = "bound", ~dev[d].offline,
                    load.poll => dev[d].resets = 0
             PROVE  /\ dev[d].irqs = Handlers(dev[d]) \/ dev[d].partly
                    /\ ~load.poll => dev[d].chOn
                    /\ dev[d].card.users > 0 => dev[d].userOn
                    /\ load.poll => \A e \in dev[d].eng :
                         \E i \in DOMAIN threads.work : \A j \in DOMAIN threads.work :
                           <<d, e>> \in threads.work[j] <=> j = i
                    /\ \A kind \in {"user", "config", "bypass"} : \A i \in 1..Len(load.bars) :
                         load.bars[i] = kind => dev[d].card[kind] = i - 1
  BY DEF Serviceable, At
<1>0. HostInv /\ CardInv(dev[d])
  BY HostCard DEF LifeInv, HostInv
<1>1. dev[d].irqs = Handlers(dev[d]) \/ dev[d].partly
  BY <1>0 DEF CardInv, IrqInv, InUse
<1>2. ~load.poll => dev[d].chOn
  BY <1>0 DEF CardInv, MaskInv, InUse
<1>3. dev[d].card.users > 0 => dev[d].userOn
  BY <1>0 DEF CardInv, MaskInv
<1>4. DOMAIN threads.work = 1..threads.cnt
  BY DEF LifeInv, LifeTypes
<1>5. load.poll => \A e \in dev[d].eng :
        \E i \in DOMAIN threads.work : \A j \in DOMAIN threads.work :
          <<d, e>> \in threads.work[j] <=> j = i
  BY <1>0, <1>4 DEF HostInv, ThreadInv
<1>6. \A kind \in {"user", "config", "bypass"} : \A i \in 1..Len(load.bars) :
        load.bars[i] = kind => dev[d].card[kind] = i - 1
  BY <1>0 DEF CardInv, BarInv, Mapped
<1> QED
  BY <1>1, <1>2, <1>3, <1>5, <1>6

-----------------------------------------------------------------------------
(* The theorems                                                            *)

(* probe_one, remove_one and the error callbacks keep the counters of a    *)
(* card in their ranges, free only handlers whose line was recorded, read  *)
(* registers only through a mapped BAR, and thread_cnt is the number of    *)
(* polling threads.                                                        *)
THEOREM LifeTypeCorrect == LifeSpec => []LifeTypeOK
BY LifeInvHolds, InvTyped, PTL

(* When remove_one, a failed probe_one, xdma_mod_exit or the stub's        *)
(* xdma_mod_exit has ended, everything it had acquired has been given      *)
(* back, and nothing twice.  Exempted are a probe that failed while the    *)
(* handlers were installed or the devices created, cards that went offline *)
(* and online out of turn, the lines that going online could not get, and  *)
(* the threads that stay when xdma_threads_create cannot start them all.   *)
THEOREM ReleasedHolds == LifeSpec => []Released
BY LifeInvHolds, InvReleased, PTL

(* Interrupt handlers, polling threads, releases and open files use the    *)
(* memory and the registers of a card only while it is there, however the  *)
(* removal of a card interleaves with them.  Exempted are the work item,   *)
(* files of a card that is pulled or could not create all its devices, a   *)
(* probe that failed among the handlers, offline and online out of turn,   *)
(* and lines freed that going online could not get.                        *)
THEOREM MemorySafeHolds == LifeSpec => []MemorySafe
BY LifeInvHolds, InvSafe, PTL

(* The numbers of xdev_list_add and the minors of create_xcdev never give  *)
(* two devices the same name, but for those that a failed creation leaves. *)
THEOREM NamesUniqueHolds == LifeSpec => []NamesUnique
BY LifeInvHolds, InvUnique, PTL

(* A card that is bound and online has its handlers, its interrupts are    *)
(* unmasked, its engines are on one polling thread each, and identify_bars *)
(* has found the BARs that are there.  In poll mode it has not been reset. *)
(* Handlers may be missing when irq_setup failed on the way back online,   *)
(* which xdma_device_online does not notice.                               *)
THEOREM ServiceableHolds == LifeSpec => []Serviceable
BY LifeInvHolds, InvServiceable, PTL

=============================================================================
