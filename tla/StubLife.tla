-------------------------------- MODULE StubLife --------------------------------
(***************************************************************************)
(* The life of the guest's stub driver (xdma_mod.c and xdma_cdev.c of      *)
(* xdma_stub): one card that does not exist, with four channels in each    *)
(* direction, and a PCI driver that claims a function when its ids are     *)
(* given.                                                                  *)
(***************************************************************************)
EXTENDS XdmaNodes

CONSTANT StubSituations   \* which calls may fail, and whether ids are given

ASSUME StubAssumption ==
  \A s \in StubSituations : s.ids \in BOOLEAN /\ s.faults \in BOOLEAN

VARIABLES
  stub,    \* where xdma_mod_init or xdma_mod_exit is, and what it set up
  given    \* the situation

stubVars == <<stub, given>>

(* xdma_dev is zeroed: BAR 0 is the user BAR, BAR 0 is no bypass BAR.      *)
StubCard == [h2c |-> 4, c2h |-> 4, users |-> 0, config |-> 0, user |-> 0, bypass |-> 0]

StubInit ==
  /\ given \in StubSituations
  /\ stub = [pc |-> "absent", class |-> FALSE, cache |-> FALSE, xpdev |-> "none",
             xdev |-> "none", pdev |-> "none", driver |-> FALSE, N |-> NoNodes,
             hooked |-> FALSE, failed |-> FALSE, misuse |-> {}]

StubStep(from, to, S) ==
  /\ stub.pc = from
  /\ stub' = [S EXCEPT !.pc = to]
  /\ UNCHANGED given

(* xdma_cdev_init                                                          *)
StubCdevInit ==
  /\ ~stub.failed
  /\ StubStep("absent", "devices", [stub EXCEPT !.class = TRUE, !.cache = TRUE])

(* The memory of enable_stub_devices, and pci_stub_init up to the          *)
(* registration                                                            *)
StubEnable ==
  StubStep("devices", "nodes", [stub EXCEPT !.xpdev = "live", !.xdev = "live",
                                            !.driver = TRUE])

StubCreateNode ==
  LET N == CreateXcdev(StubCard, stub.N)
  IN  StubStep("nodes", IF AllCreated(StubCard, N) THEN "hook" ELSE "nodes",
               [stub EXCEPT !.N = N])

(* faulthook_init, whose result is not looked at                           *)
StubHook == StubStep("hook", "live", [stub EXCEPT !.hooked = TRUE])

(* A step of xdma_mod_init fails: what was done before stays, except the   *)
(* devices, which xpdev_create_interfaces destroys.                        *)
StubInitFails ==
  /\ given.faults /\ ~stub.failed
  /\ \/ /\ stub.pc = "absent"
        /\ \E c \in BOOLEAN : StubStep("absent", "absent",
                                       [stub EXCEPT !.failed = TRUE, !.class = c])
     \/ /\ stub.pc = "devices"
        /\ \E x \in {"none", "live"} :
             StubStep("devices", "absent", [stub EXCEPT !.failed = TRUE, !.xpdev = x])
     \/ StubStep("nodes", "absent",
                 [stub EXCEPT !.failed = TRUE, !.N = DestroyInterfaces(StubCard, @)])

(* pci_stub_probe: the PCI core may call it while the driver is registered *)
StubProbe ==
  /\ given.ids /\ stub.driver /\ stub.pdev = "none"
  /\ stub' = [stub EXCEPT !.pdev = "claimed",
                          !.misuse = IF stub.xpdev = "freed" THEN @ \cup {"probe"} ELSE @]
  /\ UNCHANGED given

(* xdma_mod_exit: xpdev_free with xpdev_destroy_interfaces and             *)
(* xdma_cdev_cleanup.  The function that was claimed is freed, although it *)
(* belongs to the PCI core; xdma_dev is not.                               *)
StubFree ==
  StubStep("live", "unhook",
           [stub EXCEPT !.N = DestroyInterfaces(StubCard, @), !.class = FALSE,
                        !.cache = FALSE, !.xpdev = "freed",
                        !.misuse = IF stub.pdev = "claimed" THEN @ \cup {"pdev"} ELSE @])

(* faulthook_cleanup                                                       *)
StubUnhook == StubStep("unhook", "unregister", [stub EXCEPT !.hooked = FALSE])

(* pci_unregister_driver                                                   *)
StubUnregister ==
  StubStep("unregister", "absent",
           [stub EXCEPT !.driver = FALSE, !.pdev = "none", !.failed = TRUE])

StubNext ==
  \/ StubCdevInit \/ StubEnable \/ StubCreateNode \/ StubHook \/ StubInitFails
  \/ StubProbe \/ StubFree \/ StubUnhook \/ StubUnregister
=============================================================================
