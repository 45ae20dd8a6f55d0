------------------------------- MODULE XdmaNodes -------------------------------
(***************************************************************************)
(* The character devices of a card (xdma_cdev.c of the host driver, and    *)
(* its copy in the guest's stub driver): the order in which they are       *)
(* created, and how a flag per group of them decides what is destroyed.    *)
(*                                                                         *)
(* A card is a record of the numbers of channels and user interrupts and   *)
(* of the BARs that were identified.  N is the state of its devices:       *)
(*   major   the region of device numbers is allocated                     *)
(*   nodes   devices that can be opened                                    *)
(*   dead    devices that were destroyed; their structures still look      *)
(*           valid (magic, sys_device)                                     *)
(*   twice   history: a device was destroyed again                         *)
(***************************************************************************)
EXTENDS Integers, Sequences, FiniteSets

NoNodes == [major |-> FALSE, nodes |-> {}, dead |-> {}, twice |-> FALSE]

(* count devices of a type                                                 *)
Several(type, count) == [i \in 1..count |-> <<type, i - 1>>]

(* xpdev_create_interfaces                                                 *)
NodeSeq(card) ==
  <<<<"ctrl", 0>>>>
  \o Several("events", card.users)
  \o Several("h2c", card.h2c) \o Several("c2h", card.c2h)
  \o (IF card.bypass > 0
      THEN Several("bypass_h2c", card.h2c) \o Several("bypass_c2h", card.c2h)
           \o Several("bypass", 1)
      ELSE <<>>)
  \o (IF card.user >= 0 THEN <<<<"user", 0>>, <<"xvc", 0>>>> ELSE <<>>)

(* The minor number that create_xcdev gives                                *)
Minor(n) ==
  n[2] + CASE n[1] = "user"       -> 0
           [] n[1] = "ctrl"       -> 1
           [] n[1] = "xvc"        -> 2
           [] n[1] = "events"     -> 10
           [] n[1] = "h2c"        -> 32
           [] n[1] = "c2h"        -> 36
           [] n[1] = "bypass_h2c" -> 64
           [] n[1] = "bypass_c2h" -> 68
           [] n[1] = "bypass"     -> 100

(* enum xpdev_flags_bits                                                   *)
Flag(n) ==
  CASE n[1] \in {"h2c", "c2h"}                      -> "XDF_CDEV_SG"
    [] n[1] \in {"bypass_h2c", "bypass_c2h", "bypass"} -> "XDF_CDEV_BYPASS"
    [] OTHER                                        -> n[1]

(* A flag is set when the last device of its group has been created.       *)
Flags(card, N) ==
  LET all == {NodeSeq(card)[i] : i \in DOMAIN NodeSeq(card)}
  IN  {f \in {Flag(n) : n \in all} :
         {n \in all : Flag(n) = f} \subseteq N.nodes \cup N.dead}

(* create_xcdev for the next device                                        *)
NextNode(card, N) == NodeSeq(card)[Cardinality(N.nodes) + 1]

AllCreated(card, N) == Cardinality(N.nodes) = Len(NodeSeq(card))

CreateXcdev(card, N) ==
  [N EXCEPT !.major = TRUE, !.nodes = @ \cup {NextNode(card, N)}]

(* Faulty variant: the device numbers are not returned.                    *)
DestroyInterfacesKeepsMajor(card, N) ==
  LET gone == {n \in N.nodes \cup N.dead : Flag(n) \in Flags(card, N)}
  IN  [N EXCEPT !.nodes = @ \ gone, !.dead = @ \cup gone,
                !.twice = @ \/ (gone \cap N.dead # {})]

(* xpdev_destroy_interfaces: the groups whose flag is set.  The flags stay *)
(* set.  To return the device numbers twice does no harm.                  *)
DestroyInterfaces(card, N) ==
  LET gone == {n \in N.nodes \cup N.dead : Flag(n) \in Flags(card, N)}
  IN  [N EXCEPT !.major = FALSE, !.nodes = @ \ gone, !.dead = @ \cup gone,
                !.twice = @ \/ (gone \cap N.dead # {})]
=============================================================================
