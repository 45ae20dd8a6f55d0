------------------------------- MODULE XdmaDevice -------------------------------
(***************************************************************************)
(* The life of the host driver's cards: loading and unloading the module   *)
(* (xdma_mod.c), probing with its failures, removal, taking a card offline *)
(* and online (an ioctl of the control device, a reset, PCI error          *)
(* recovery), the list of cards and the polling threads they share, and    *)
(* the actors that meanwhile use what is set up or torn down: interrupt    *)
(* handlers, work items, polling threads and processes with open files.    *)
(*                                                                         *)
(* dev[d].pc is where the kernel's thread is that probes or removes d;     *)
(* removal and every error path of xdma_device_open run through the same   *)
(* releases in the same order, from different points on.                   *)
(***************************************************************************)
EXTENDS XdmaNodes, FiniteSetsExt, SequencesExt

CONSTANTS
  Devs,        \* PCI functions the driver can be bound to
  Procs,       \* processes that open its files, one each
  Loads,       \* situations, fixed at the start of a behaviour
  NoDev,
  MaxProbes,   \* bound: how often one function is probed
  MaxResets    \* bound: how often one card is taken offline

(* At most 4 channels in each direction (XDMA_CHANNEL_NUM_MAX) and 16 user *)
(* interrupts (MAX_USER_IRQ) are used of a card.  Its BARs follow the      *)
(* rules that identify_bars states: each of the three is there at most     *)
(* once, the user's before and the bypass behind the configuration.        *)
BarOrder == {<<"user", "config">>, <<"user", "bypass">>, <<"config", "bypass">>}

ASSUME DeviceAssumption ==
  /\ NoDev \notin Devs /\ MaxProbes \in Nat /\ MaxResets \in Nat
  /\ \A l \in Loads :
       /\ l.irq \in {"msix", "msi", "legacy"}
       /\ {l.poll, l.unplug, l.reset, l.errors} \subseteq BOOLEAN
       /\ {l.h2c, l.c2h} \subseteq 0..4 /\ l.users \in 0..16
       /\ l.cpus \in Nat \ {0} /\ l.cards \subseteq Devs
       /\ l.bars \in Seq({"none", "user", "config", "bypass"})
       /\ \A i, j \in DOMAIN l.bars :
            i < j => "none" \in {l.bars[i], l.bars[j]} \/ <<l.bars[i], l.bars[j]>> \in BarOrder

VARIABLES
  load,     \* the situation: what the cards have, which calls may fail
  dev,      \* struct xdma_pci_dev and struct xdma_dev of each function
  list,     \* xdev_list
  threads,  \* cs_threads and thread_cnt of xdma_thread.c
  mod,      \* state of the module, g_xdma_class and cdev_cache
  files     \* the file each process has open

deviceVars == <<dev, list, threads, mod, files>>

NoCard == [h2c |-> 0, c2h |-> 0, users |-> 0, config |-> -1, user |-> -1, bypass |-> -1]

(* alloc_dev_instance                                                      *)
NewDev ==
  [pc |-> "absent", gen |-> 0, xdev |-> "none", idx |-> 0, card |-> NoCard,
   dir |-> "h2c", enabled |-> 0, regions |-> FALSE, inUse |-> FALSE, bars |-> {},
   eng |-> {}, vectors |-> FALSE, irqs |-> {}, shared |-> 0, lines |-> {},
   chOn |-> FALSE, userOn |-> FALSE, offline |-> TRUE, frozen |-> FALSE,
   work |-> {}, events |-> {}, N |-> NoNodes,
   resets |-> 0, paired |-> TRUE, partly |-> FALSE, fault |-> "none", misuse |-> {}]

NoFile    == [st |-> "none", d |-> NoDev, node |-> <<>>, gen |-> 0]
NoThreads == [cnt |-> 0, work |-> <<>>, lost |-> FALSE]

DeviceInit ==
  /\ dev = [d \in Devs |-> NewDev]
  /\ list = <<>>
  /\ threads = NoThreads
  /\ mod = [st |-> "absent", class |-> FALSE, cache |-> FALSE, failed |-> FALSE]
  /\ files = [p \in Procs |-> NoFile]

At(d, pc)  == dev[d].pc = pc
Fails(what) == what \in load.faults

-----------------------------------------------------------------------------
(* The module                                                              *)

(* xdma_mod_init, with fvp_escape_init and xdma_cdev_init                  *)
ModInit ==
  /\ mod.st = "absent" /\ ~mod.failed
  /\ mod' = [mod EXCEPT !.st = "live", !.class = TRUE, !.cache = TRUE]
  /\ UNCHANGED <<dev, list, threads, files>>

(* The symbols are not found; the cache cannot be created, or the driver   *)
(* cannot be registered, and what was created before stays.                *)
ModInitFails ==
  /\ Fails("module") /\ mod.st = "absent" /\ ~mod.failed
  /\ \E c \in {<<FALSE, FALSE>>, <<TRUE, FALSE>>, <<TRUE, TRUE>>} :
       mod' = [mod EXCEPT !.failed = TRUE, !.class = c[1], !.cache = c[2]]
  /\ UNCHANGED <<dev, list, threads, files>>

(* cdev.owner and the owner of the file operations: open files keep the    *)
(* module (external: the kernel's reference count).                        *)
Referenced == \E p \in Procs : files[p].st # "none"

(* xdma_mod_exit: pci_unregister_driver removes the cards, ...             *)
ModExit ==
  /\ mod.st = "live" /\ ~Referenced
  /\ mod' = [mod EXCEPT !.st = "exiting"]
  /\ UNCHANGED <<dev, list, threads, files>>

(* ... then xdma_cdev_cleanup                                              *)
ModGone ==
  /\ mod.st = "exiting" /\ \A d \in Devs : At(d, "absent")
  /\ mod' = [mod EXCEPT !.st = "absent", !.class = FALSE, !.cache = FALSE]
  /\ UNCHANGED <<dev, list, threads, files>>

-----------------------------------------------------------------------------
(* probe_one and xdma_device_open                                          *)

Advance(d, pc, D) ==
  /\ dev' = [dev EXCEPT ![d] = [D EXCEPT !.pc = pc]]
  /\ UNCHANGED <<mod, files>>

(* xpdev_alloc, alloc_dev_instance.  A function that an earlier probe left *)
(* in disorder is not probed again in the model.                           *)
ProbeStart(d) ==
  /\ mod.st = "live" /\ d \in load.cards /\ At(d, "absent") /\ dev[d].gen < MaxProbes
  /\ dev[d].gen > 0 => dev[d].fault = "none" /\ dev[d].misuse = {} /\ dev[d].paired
  /\ Advance(d, "list", [NewDev EXCEPT !.gen = dev[d].gen + 1, !.xdev = "live"])
  /\ UNCHANGED <<list, threads>>

(* Faulty variant: cards are counted.                                      *)
NextIdxByLength == Len(list)

(* xdev_list_add: one more than the last card of the list                  *)
NextIdx == IF list = <<>> THEN 0 ELSE dev[list[Len(list)]].idx + 1

(* The first card creates the polling threads, at most one per processor   *)
(* (xdma_threads_create); 8 is the number of channels before they are      *)
(* probed.                                                                 *)
ThreadsCreated(t) ==
  IF load.poll /\ list = <<>> /\ t.cnt = 0
  THEN LET n == IF load.cpus < 8 THEN load.cpus ELSE 8
       IN  [t EXCEPT !.cnt = n, !.work = [i \in 1..n |-> {}]]
  ELSE t

ListAdd(d) ==
  /\ At(d, "list")
  /\ threads' = ThreadsCreated(threads)
  /\ list' = Append(list, d)
  /\ Advance(d, "enable", [dev[d] EXCEPT !.idx = NextIdx])

(* A thread cannot be started: the array is freed under those that run.    *)
ListAddFails(d) ==
  /\ Fails("threads") /\ load.poll /\ At(d, "list") /\ list = <<>> /\ threads.cnt = 0
  /\ \E started \in 0..(load.cpus - 1) :
       threads' = [threads EXCEPT !.lost = @ \/ started > 0]
  /\ Advance(d, "undo_free", [dev[d] EXCEPT !.fault = "threads"])
  /\ UNCHANGED list

(* What can fail in a step of xdma_device_open, and where it goes to       *)
ProbeFails(d, stage, undo) ==
  /\ Fails(stage) /\ At(d, stage)
  /\ Advance(d, undo,
             [dev[d] EXCEPT !.fault = stage,
                            !.inUse = (stage = "regions")])
  /\ UNCHANGED <<list, threads>>

EnableDevice(d) ==
  /\ At(d, "enable")
  /\ Advance(d, "regions", [dev[d] EXCEPT !.enabled = @ + 1])
  /\ UNCHANGED <<list, threads>>

RequestRegions(d) ==
  /\ At(d, "regions")
  /\ Advance(d, "bars", [dev[d] EXCEPT !.regions = TRUE])
  /\ UNCHANGED <<list, threads>>

(* map_bars: the BARs that are there, and the position of the              *)
(* configuration among them                                                *)
Present   == {b \in 0..(Len(load.bars) - 1) : load.bars[b + 1] # "none"}
HasConfig == \E b \in Present : load.bars[b + 1] = "config"
ConfigBar == CHOOSE b \in Present : load.bars[b + 1] = "config"
ConfigPos == Cardinality({b \in Present : b < ConfigBar})

(* Faulty variant: the position among those that are there is recorded.    *)
IdentifyByPosition(card) ==
  [card EXCEPT !.config = ConfigPos,
               !.user   = IF ConfigPos = 1 THEN 0 ELSE @,
               !.bypass = IF ConfigPos < Cardinality(Present) - 1
                          THEN Cardinality(Present) - 1 ELSE @]

(* identify_bars: what the other BARs are follows from where the           *)
(* configuration is among them.                                            *)
Identify(card) ==
  LET n     == Cardinality(Present)
      both  == n \in {3, 4} /\ ConfigPos \in {1, 2}
  IN  [card EXCEPT
         !.config = ConfigBar,
         !.user   = IF both \/ (n = 2 /\ ConfigPos = 1) THEN Min(Present) ELSE @,
         !.bypass = IF both \/ (n = 2 /\ ConfigPos = 0) THEN Max(Present) ELSE @]

MapBars(d) ==
  /\ At(d, "bars") /\ HasConfig
  /\ Advance(d, "mask", [dev[d] EXCEPT !.bars = Present, !.card = Identify(@)])
  /\ UNCHANGED <<list, threads>>

(* One BAR cannot be mapped, or none is the configuration: those that were *)
(* mapped are unmapped.                                                    *)
MapBarsFails(d) ==
  /\ At(d, "bars")
  /\ Fails("bars") \/ ~HasConfig
  /\ Advance(d, "undo_regions", [dev[d] EXCEPT !.fault = "bars"])
  /\ UNCHANGED <<list, threads>>

(* set_dma_mask; all interrupts are masked                                 *)
SetDmaMask(d) ==
  /\ At(d, "mask")
  /\ Advance(d, "engines", [dev[d] EXCEPT !.chOn = FALSE, !.userOn = FALSE,
                                          !.card.users = load.users])
  /\ UNCHANGED <<list, threads>>

(* xdma_thread_add_work: the first idle thread behind the first one, else  *)
(* the last one with less work than the first                              *)
LeastBusy(t) ==
  LET idle == {i \in 2..t.cnt : t.work[i] = {}}
      less == {i \in 2..t.cnt : Cardinality(t.work[i]) < Cardinality(t.work[1])}
  IN  IF idle # {} THEN Min(idle) ELSE IF less # {} THEN Max(less) ELSE 1

AddWork(t, x) ==
  IF load.poll THEN [t EXCEPT !.work[LeastBusy(t)] = @ \cup {x}] ELSE t

(* Faulty variant: the engine stays on the thread's list.                  *)
RemoveWorkNever(t, x) == t

(* xdma_thread_remove_work                                                 *)
RemoveWork(t, x) == [t EXCEPT !.work = [i \in DOMAIN @ |-> @[i] \ {x}]]

(* probe_for_engine, engine_init: the next channel of the direction is     *)
(* there                                                                   *)
ProbeEngine(d) ==
  LET D == dev[d]
      e == <<D.dir, D.card[D.dir]>>
  IN  /\ At(d, "engines") /\ D.card[D.dir] < load[D.dir]
      /\ threads' = AddWork(threads, <<d, e>>)
      /\ Advance(d, "engines", [D EXCEPT !.card[D.dir] = @ + 1, !.eng = @ \cup {e}])
      /\ UNCHANGED list

(* It is not there, or there is no memory for its descriptors: the         *)
(* channels end here, which is no error.                                   *)
ProbeEngineEnds(d) ==
  LET D == dev[d]
  IN  /\ At(d, "engines")
      /\ D.card[D.dir] = load[D.dir] \/ Fails("engines")
      /\ Advance(d, IF D.dir = "h2c" THEN "engines" ELSE "vectors",
                 [D EXCEPT !.dir = "c2h"])
      /\ UNCHANGED <<list, threads>>

(* enable_msi_msix                                                         *)
EnableVectors(d) ==
  /\ At(d, "vectors")
  /\ Advance(d, "irqs", [dev[d] EXCEPT !.vectors = load.irq # "legacy"])
  /\ UNCHANGED <<list, threads>>

Channels(D) == Several("h2c", D.card.h2c) \o Several("c2h", D.card.c2h)

UserHandlers(D) == {<<"user", u>> : u \in 0..(D.card.users - 1)}

Handlers(D) == IF load.irq = "msix" THEN ToSet(Channels(D)) \cup UserHandlers(D)
               ELSE {<<"isr", 0>>}

(* irq_setup.  A line that is taken cannot be requested, except for the    *)
(* shared one, which gets a second handler.                                *)
IrqsInstalled(D) ==
  IF D.irqs = {} THEN [D EXCEPT !.irqs = Handlers(D), !.lines = Handlers(D)]
  ELSE IF load.irq = "legacy" THEN [D EXCEPT !.shared = @ + 1]
  ELSE D

IrqSetup(d) ==
  /\ At(d, "irqs")
  /\ Advance(d, "users", [IrqsInstalled(dev[d]) EXCEPT !.chOn = ~load.poll,
                                                        !.offline = FALSE])
  /\ UNCHANGED <<list, threads>>

(* A request fails: the handlers of the channels before it stay, those of  *)
(* the user interrupts do not.                                             *)
InstalledPartly(D) ==
  {{Channels(D)[i] : i \in 1..k} :
     k \in 0..(IF load.irq = "msix" THEN Len(Channels(D)) ELSE 0)}

IrqSetupFails(d) ==
  /\ Fails("irqs") /\ At(d, "irqs")
  /\ \E got \in InstalledPartly(dev[d]) :
       Advance(d, "undo_vectors",
               [dev[d] EXCEPT !.fault = "irqs", !.irqs = got, !.lines = got])
  /\ UNCHANGED <<list, threads>>

(* xdma_user_isr_enable; the card is known to the PCI device from here on  *)
UserEnable(d) ==
  /\ At(d, "users")
  /\ Advance(d, "nodes", [dev[d] EXCEPT !.userOn = dev[d].card.users > 0])
  /\ UNCHANGED <<list, threads>>

CreateNode(d) ==
  LET D == dev[d]
      N == CreateXcdev(D.card, D.N)
  IN  /\ At(d, "nodes")
      /\ Advance(d, IF AllCreated(D.card, N) THEN "bound" ELSE "nodes",
                 [D EXCEPT !.N = N])
      /\ UNCHANGED <<list, threads>>

(* xpdev_create_interfaces destroys, and xpdev_free does so again.         *)
CreateNodeFails(d) ==
  /\ Fails("nodes") /\ At(d, "nodes")
  /\ Advance(d, "undo_nodes",
             [dev[d] EXCEPT !.fault = "nodes", !.N = DestroyInterfaces(dev[d].card, @),
                            !.paired = @ /\ ~dev[d].offline])
  /\ UNCHANGED <<list, threads>>

-----------------------------------------------------------------------------
(* remove_one, xpdev_free and xdma_device_close                            *)

(* The module goes, or the card does (also when the recovery from an error *)
(* gives up).                                                              *)
RemoveOne(d) ==
  /\ At(d, "bound")
  /\ mod.st = "exiting" \/ load.unplug
  /\ Advance(d, "undo_nodes", [dev[d] EXCEPT !.paired = @ /\ ~dev[d].offline
                                                              /\ ~dev[d].frozen])
  /\ UNCHANGED <<list, threads>>

DestroyNodes(d) ==
  /\ At(d, "undo_nodes")
  /\ Advance(d, "undo_masks", [dev[d] EXCEPT !.N = DestroyInterfaces(dev[d].card, @)])
  /\ UNCHANGED <<list, threads>>

(* Registers are used: without the configuration BAR this is a fault.      *)
Used(D) == IF D.card.config \in D.bars THEN D
           ELSE [D EXCEPT !.misuse = @ \cup {"bar"}]

MaskInterrupts(d) ==
  /\ At(d, "undo_masks")
  /\ Advance(d, "undo_irqs", [Used(dev[d]) EXCEPT !.chOn = FALSE, !.userOn = FALSE])
  /\ UNCHANGED <<list, threads>>

(* Faulty variant: the handlers of the C2H channels are left.              *)
IrqsFreedH2c(D) ==
  IF D.shared > 0 THEN [D EXCEPT !.shared = @ - 1]
  ELSE [D EXCEPT !.irqs = {h \in @ : h[1] = "c2h"},
                 !.misuse = IF D.lines \subseteq D.irqs THEN @ ELSE @ \cup {"irq twice"}]

(* irq_teardown: every line that was recorded, and the record stays.       *)
IrqsFreed(D) ==
  IF D.shared > 0 THEN [D EXCEPT !.shared = @ - 1]
  ELSE [D EXCEPT !.irqs = @ \ D.lines,
                 !.misuse = IF D.lines \subseteq D.irqs THEN @ ELSE @ \cup {"irq twice"}]

IrqTeardown(d) ==
  /\ At(d, "undo_irqs")
  /\ Advance(d, "undo_vectors", IrqsFreed(Used(dev[d])))
  /\ UNCHANGED <<list, threads>>

(* disable_msi_msix: not while a vector has a handler                      *)
DisableVectors(d) ==
  /\ At(d, "undo_vectors")
  /\ Advance(d, "undo_engines",
             [dev[d] EXCEPT !.vectors = FALSE,
                !.misuse = IF dev[d].vectors /\ dev[d].irqs # {}
                           THEN @ \cup {"vectors"} ELSE @])
  /\ UNCHANGED <<list, threads>>

(* engine_destroy: the engine is stopped and its memory freed.             *)
EngineDestroyed(D, e) == [Used(D) EXCEPT !.eng = @ \ {e}]

(* remove_engines, one engine at a time: off its thread first              *)
RemoveEngine(d) ==
  /\ At(d, "undo_engines")
  /\ \E e \in dev[d].eng :
       /\ threads' = RemoveWork(threads, <<d, e>>)
       /\ Advance(d, "undo_engines", EngineDestroyed(dev[d], e))
  /\ UNCHANGED list

UnmapBars(d) ==
  /\ (At(d, "undo_engines") /\ dev[d].eng = {}) \/ At(d, "undo_bars")
  /\ Advance(d, "undo_regions", [dev[d] EXCEPT !.bars = {}])
  /\ UNCHANGED <<list, threads>>

ReleaseRegions(d) ==
  /\ At(d, "undo_regions")
  /\ Advance(d, "undo_device", [dev[d] EXCEPT !.regions = FALSE])
  /\ UNCHANGED <<list, threads>>

(* pci_disable_device, unless somebody else uses the card                  *)
DisableDevice(d) ==
  /\ At(d, "undo_device")
  /\ Advance(d, "undo_list", [dev[d] EXCEPT !.enabled = IF dev[d].inUse THEN @ ELSE @ - 1])
  /\ UNCHANGED <<list, threads>>

(* xdev_list_remove: the last card ends the threads.                       *)
ListRemove(d) ==
  /\ At(d, "undo_list")
  /\ list' = RemoveAt(list, CHOOSE i \in DOMAIN list : list[i] = d)
  /\ threads' = IF load.poll /\ list' = <<>>
                THEN [NoThreads EXCEPT !.lost = threads.lost] ELSE threads
  /\ Advance(d, "undo_free", dev[d])

(* kfree of xdma_dev and xdma_pci_dev                                      *)
FreeDev(d) ==
  /\ At(d, "undo_free")
  /\ Advance(d, "absent", [dev[d] EXCEPT !.xdev = "freed"])
  /\ UNCHANGED <<list, threads>>

-----------------------------------------------------------------------------
(* Offline and online                                                      *)

(* paired, history: the switches alternate and none falls into a removal.  *)
SwitchedInUse(D) == D.pc \in {"nodes", "bound"}

OfflineDev(D) ==
  [IrqsFreed(Used(D)) EXCEPT !.offline = TRUE, !.chOn = FALSE, !.userOn = FALSE,
                             !.resets = @ + 1,
                             !.paired = @ /\ ~D.offline /\ SwitchedInUse(D)]

(* Faulty variant: the user interrupts stay masked.                        *)
OnlineDevWithoutUsers(D) ==
  LET R == IF load.poll THEN Used(D)
           ELSE [IrqsInstalled(Used(D)) EXCEPT !.chOn = TRUE]
  IN  [R EXCEPT !.offline = FALSE, !.paired = @ /\ D.offline /\ SwitchedInUse(D)]

(* In poll mode the handlers are not installed again.                      *)
OnlineDev(D) ==
  LET R == IF load.poll THEN Used(D)
           ELSE [IrqsInstalled(Used(D)) EXCEPT !.chOn = TRUE,
                                               !.userOn = D.card.users > 0]
  IN  [R EXCEPT !.offline = FALSE, !.paired = @ /\ D.offline /\ SwitchedInUse(D)]

(* irq_setup fails, which xdma_device_online does not look at: the card is *)
(* online with the handlers that it had or got before, and with all its    *)
(* lines recorded (partly, history).                                       *)
OnlinePartly(D, got) ==
  [OnlineDev(D) EXCEPT !.irqs = D.irqs \cup got, !.lines = D.lines \cup got,
                       !.shared = D.shared, !.partly = TRUE]

BackOnline(D) ==
  {OnlineDev(D)} \cup
  (IF Fails("irqs") /\ ~load.poll
   THEN {OnlinePartly(D, got) : got \in IF D.irqs = {} THEN InstalledPartly(D) ELSE {{}}}
   ELSE {})

(* By a reset of the function (xdma_reset_prepare, xdma_reset_done), or by *)
(* char_ctrl_ioctl of a process                                            *)
MaySwitch(d) ==
  /\ load.reset
  /\ \/ At(d, "bound") /\ ~dev[d].frozen
     \/ \E p \in Procs : /\ files[p].st = "open" /\ files[p].d = d
                         /\ files[p].node[1] = "ctrl"
                         /\ files[p].gen = dev[d].gen /\ d \in ToSet(list)

SetDev(d, D) ==
  /\ dev' = [dev EXCEPT ![d] = D]
  /\ UNCHANGED <<list, threads, mod, files>>

Offline(d) ==
  /\ MaySwitch(d) /\ dev[d].resets < MaxResets
  /\ SetDev(d, OfflineDev(dev[d]))

Online(d) ==
  /\ MaySwitch(d) /\ dev[d].shared < MaxResets
  /\ \E D \in BackOnline(dev[d]) : SetDev(d, D)

(* xdma_error_detected with a frozen channel                               *)
ErrorDetected(d) ==
  /\ load.errors /\ At(d, "bound") /\ ~dev[d].frozen /\ dev[d].resets < MaxResets
  /\ SetDev(d, [OfflineDev(dev[d]) EXCEPT !.frozen = TRUE, !.enabled = @ - 1])

(* xdma_slot_reset; if it fails the card is disconnected, see RemoveOne    *)
SlotReset(d) ==
  /\ At(d, "bound") /\ dev[d].frozen
  /\ \E D \in BackOnline(dev[d]) :
       SetDev(d, [D EXCEPT !.frozen = FALSE, !.enabled = @ + 1])

-----------------------------------------------------------------------------
(* Those who use the card                                                  *)

Alive(D) == D.xdev = "live"

(* Memory of the card is used.                                             *)
Touched(D, who) == IF Alive(D) THEN D ELSE [D EXCEPT !.misuse = @ \cup {who}]

(* xdma_channel_irq or xdma_isr: the engine's work is scheduled.           *)
ChannelInterrupt(d) ==
  \E e \in dev[d].eng \cup (dev[d].irqs \ UserHandlers(dev[d])) :
    /\ dev[d].chOn \/ (dev[d].fault = "irqs" /\ At(d, "absent"))
    /\ dev[d].irqs \cap {e, <<"isr", 0>>} # {} /\ e # <<"isr", 0>>
    /\ e \notin dev[d].work
    /\ SetDev(d, [Used(Touched(dev[d], "handler")) EXCEPT !.work = @ \cup {e}])

(* engine_service_work, which nobody waits for when the card is removed    *)
Work(d) ==
  \E e \in dev[d].work :
    SetDev(d, [Touched(dev[d], "work") EXCEPT !.work = @ \ {e}])

(* xdma_user_irq or xdma_isr, user_irq_service                             *)
UserInterrupt(d) ==
  \E u \in 0..(dev[d].card.users - 1) :
    /\ dev[d].userOn /\ u \notin dev[d].events
    /\ dev[d].irqs \cap {<<"user", u>>, <<"isr", 0>>} # {}
    /\ SetDev(d, [Touched(dev[d], "handler") EXCEPT !.events = @ \cup {u}])

(* A polling thread looks at an engine of its list.                        *)
PollEngine ==
  \E i \in DOMAIN threads.work : \E x \in threads.work[i] :
    SetDev(x[1], IF x[2] \in dev[x[1]].eng THEN dev[x[1]]
                 ELSE [dev[x[1]] EXCEPT !.misuse = @ \cup {"poll"}])

(* char_open                                                               *)
Open(p, d) ==
  /\ files[p].st = "none" /\ mod.st = "live"
  /\ \E n \in dev[d].N.nodes :
       /\ n[1] \in {"ctrl", "events"}
       /\ files' = [files EXCEPT ![p] = [st |-> "open", d |-> d, node |-> n,
                                         gen |-> dev[d].gen]]
       /\ dev' = [dev EXCEPT ![d] = Touched(@, "file")]
  /\ UNCHANGED <<list, threads, mod>>

(* The card of the file is the one that it was opened for.                 *)
FileTouched(p) ==
  LET f == files[p]
  IN  IF f.gen = dev[f.d].gen THEN Touched(dev[f.d], "file")
      ELSE [dev[f.d] EXCEPT !.misuse = @ \cup {"file"}]

(* char_close, with xcdev_check                                            *)
Close(p) ==
  /\ files[p].st = "open"
  /\ dev' = [dev EXCEPT ![files[p].d] = FileTouched(p)]
  /\ files' = [files EXCEPT ![p] = NoFile]
  /\ UNCHANGED <<list, threads, mod>>

(* char_events_read: waits for an event, takes it, or is interrupted       *)
ReadEvents(p) ==
  /\ files[p].st = "open" /\ files[p].node[1] = "events"
  /\ dev' = [dev EXCEPT ![files[p].d] = FileTouched(p)]
  /\ files' = [files EXCEPT ![p].st = "reading"]
  /\ UNCHANGED <<list, threads, mod>>

ReadWakes(p) ==
  /\ files[p].st = "reading" /\ files[p].node[2] \in dev[files[p].d].events
  /\ dev' = [dev EXCEPT ![files[p].d] = FileTouched(p)]
  /\ files' = [files EXCEPT ![p].st = "woken"]
  /\ UNCHANGED <<list, threads, mod>>

(* Of two that were woken the second takes nothing.                        *)
ReadTakes(p) ==
  /\ files[p].st = "woken"
  /\ dev' = [dev EXCEPT ![files[p].d] =
                [FileTouched(p) EXCEPT !.events = @ \ {files[p].node[2]}]]
  /\ files' = [files EXCEPT ![p].st = "open"]
  /\ UNCHANGED <<list, threads, mod>>

ReadInterrupted(p) ==
  /\ files[p].st = "reading"
  /\ dev' = [dev EXCEPT ![files[p].d] = FileTouched(p)]
  /\ files' = [files EXCEPT ![p].st = "open"]
  /\ UNCHANGED <<list, threads, mod>>
=============================================================================
