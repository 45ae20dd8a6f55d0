------------------------------- MODULE MCEscape -------------------------------
(* Instances of the escape channel for TLC.                                *)
EXTENDS EscapeChannel, TLC

CONSTANTS t1, t2

(* Both threads use the operations that take the lock.                     *)
LockedInstance == [t \in Threads |-> {"open", "close", "dma"}]

(* Of the control files, only the read returns.                            *)
ReturningInstance == t1 :> {"open", "close", "dma"} @@
                     t2 :> {"open", "close", "read"}

(* One thread uses locked operations while the other one uses those that   *)
(* write to the page without the lock.                                     *)
MixedInstance == t1 :> {"open", "dma", "write"} @@
                 t2 :> {"open", "mmap", "ioctl"}

(* Threads differ in nothing but their name (safety of LockedInstance).    *)
ThreadSymmetry == Permutations(Threads)
=============================================================================
