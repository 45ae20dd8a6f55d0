-------------------------------- MODULE XdmaLife --------------------------------
(***************************************************************************)
(* The drivers' lives put together: the host's driver with its cards and   *)
(* their users, and the guest's stub driver, which runs in another kernel  *)
(* and shares nothing but the code of the devices.                         *)
(***************************************************************************)
EXTENDS XdmaDevice, StubLife

lifeVars == <<load, deviceVars, stubVars>>

Probe(d) ==
  \/ ProbeStart(d) \/ ListAdd(d) \/ ListAddFails(d)
  \/ ProbeFails(d, "enable", "undo_list") \/ EnableDevice(d)
  \/ ProbeFails(d, "regions", "undo_device") \/ RequestRegions(d)
  \/ MapBars(d) \/ MapBarsFails(d)
  \/ ProbeFails(d, "mask", "undo_bars") \/ SetDmaMask(d)
  \/ ProbeEngine(d) \/ ProbeEngineEnds(d)
  \/ ProbeFails(d, "vectors", "undo_engines") \/ EnableVectors(d)
  \/ IrqSetup(d) \/ IrqSetupFails(d) \/ UserEnable(d)
  \/ CreateNode(d) \/ CreateNodeFails(d)

Release(d) ==
  \/ RemoveOne(d) \/ DestroyNodes(d) \/ MaskInterrupts(d) \/ IrqTeardown(d)
  \/ DisableVectors(d) \/ RemoveEngine(d) \/ UnmapBars(d) \/ ReleaseRegions(d)
  \/ DisableDevice(d) \/ ListRemove(d) \/ FreeDev(d)

Switch(d) == Offline(d) \/ Online(d) \/ ErrorDetected(d) \/ SlotReset(d)

Interrupted(d) == ChannelInterrupt(d) \/ Work(d) \/ UserInterrupt(d)

FileOperation(p) ==
  \/ \E d \in Devs : Open(p, d)
  \/ Close(p) \/ ReadEvents(p) \/ ReadWakes(p) \/ ReadTakes(p) \/ ReadInterrupted(p)

HostNext ==
  /\ \/ ModInit \/ ModInitFails \/ ModExit \/ ModGone \/ PollEngine
     \/ \E d \in Devs : Probe(d) \/ Release(d) \/ Switch(d) \/ Interrupted(d)
     \/ \E p \in Procs : FileOperation(p)
  /\ UNCHANGED <<load, stubVars>>

GuestNext == StubNext /\ UNCHANGED <<load, deviceVars>>

(* The situation of the host says which of the two is looked at.           *)
LifeInit ==
  /\ load \in Loads /\ DeviceInit /\ StubInit
  /\ load.side = "host" => given = CHOOSE s \in StubSituations : TRUE

LifeNext ==
  \/ load.side = "host" /\ HostNext
  \/ load.side = "guest" /\ GuestNext

LifeSpec == LifeInit /\ [][LifeNext]_lifeVars

-----------------------------------------------------------------------------
(* What the actions keep: the handlers are among the lines recorded for    *)
(* freeing them, the configuration BAR is one that is mapped, the number   *)
(* of threads is that of their lists.                                      *)
LifeTypeOK ==
  /\ load \in Loads /\ given \in StubSituations
  /\ \A d \in Devs :
       /\ dev[d].gen \in 0..MaxProbes /\ dev[d].resets \in 0..MaxResets
       /\ dev[d].enabled \in -1..1 /\ dev[d].shared \in 0..(MaxResets + 1)
       /\ dev[d].xdev \in {"none", "live", "freed"}
       /\ dev[d].irqs \subseteq dev[d].lines
       /\ dev[d].bars = {} \/ dev[d].card.config \in dev[d].bars
  /\ ToSet(list) \subseteq Devs
  /\ DOMAIN threads.work = 1..threads.cnt
  /\ \A p \in Procs : files[p].st \in {"none", "open", "reading", "woken"}

(* What the code is exposed to and does not handle: offline and online do  *)
(* not alternate, fall into a removal, or in poll mode happen at all; a    *)
(* failure while the handlers are installed or the devices are created.    *)
Orderly(D) == D.paired /\ (load.poll => D.resets = 0)

(* A card that was removed, or whose probe failed, holds nothing: no       *)
(* handler, vector, region, BAR, engine, device or device number, no place *)
(* in the list and none on a polling thread, and nothing was given back    *)
(* twice, except lines that going online could not get.  So for the        *)
(* module, and for the guest's driver; but polling threads that were       *)
(* started before one could not be are left behind, for ever.              *)
Released ==
  /\ \A d \in Devs :
       LET D == dev[d]
       IN  At(d, "absent") /\ D.gen > 0 /\ Orderly(D) /\ D.fault \notin {"irqs", "nodes"} =>
             /\ D.irqs = {} /\ D.shared = 0 /\ ~D.vectors /\ ~D.regions
             /\ D.bars = {} /\ D.eng = {} /\ d \notin ToSet(list)
             /\ D.enabled = IF D.inUse THEN 1 ELSE 0
             /\ \A i \in DOMAIN threads.work : \A x \in threads.work[i] : x[1] # d
             /\ ~D.N.major /\ D.N.nodes = {} /\ ~D.N.twice
             /\ "vectors" \notin D.misuse
             /\ "irq twice" \in D.misuse => D.partly
  /\ mod.st = "absent" /\ ~mod.failed =>
       /\ ~mod.class /\ ~mod.cache /\ threads.cnt = 0
       /\ threads.lost => load.poll /\ Fails("threads")
  /\ stub.pc = "absent" /\ ~given.faults =>
       /\ ~stub.class /\ ~stub.cache /\ ~stub.driver /\ ~stub.hooked
       /\ ~stub.N.major /\ stub.N.nodes = {} /\ ~stub.N.twice

(* Nobody uses what is gone: no handler, polling thread or release the     *)
(* memory or the registers of a card that was removed; no process with an  *)
(* open file, as long as the card is not pulled and its devices could all  *)
(* be created.  A work item may: nobody waits for it; and a line that      *)
(* going online could not get is freed all the same.  The guest's driver   *)
(* frees nothing that is not its own unless a function was claimed.        *)
MemorySafe ==
  /\ \A d \in Devs :
       LET D == dev[d]
       IN  Orderly(D) /\ D.fault # "irqs" =>
             D.misuse \subseteq
               {"work"} \cup (IF load.unplug \/ D.fault = "nodes" THEN {"file"} ELSE {})
                        \cup (IF D.partly THEN {"irq twice"} ELSE {})
  /\ stub.misuse # {} => given.ids

(* No two devices that can be opened have the same name or number.  (Those *)
(* that a failed creation leaves behind keep the name of a card that has   *)
(* given up its place in the list.)                                        *)
NamesUnique ==
  \A d, e \in Devs : \A m \in dev[d].N.nodes, n \in dev[e].N.nodes :
    /\ d # e /\ "nodes" \notin {dev[d].fault, dev[e].fault} => dev[d].idx # dev[e].idx
    /\ d = e /\ m # n => Minor(m) # Minor(n)

(* A card that is in use can be used, however often and in whatever order  *)
(* it was taken offline and online: its interrupts are not masked and      *)
(* have handlers or, in poll mode, each of its engines is on the list of   *)
(* exactly one thread; and the BARs it has are the ones it was given.  The *)
(* handlers are missing, with the interrupts unmasked, when irq_setup      *)
(* failed as the card went online, whose result nobody looks at.           *)
Serviceable ==
  \A d \in Devs :
    LET D == dev[d]
    IN  At(d, "bound") /\ ~D.offline /\ (load.poll => D.resets = 0) =>
          /\ D.irqs = Handlers(D) \/ D.partly
          /\ ~load.poll => D.chOn
          /\ D.card.users > 0 => D.userOn
          /\ load.poll => \A e \in D.eng :
                             \E i \in DOMAIN threads.work : \A j \in DOMAIN threads.work :
                               <<d, e>> \in threads.work[j] <=> j = i
          /\ \A kind \in {"user", "config", "bypass"} : \A i \in 1..Len(load.bars) :
               load.bars[i] = kind => D.card[kind] = i - 1
=============================================================================
