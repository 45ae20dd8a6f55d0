-------------------------------- MODULE MCBoot --------------------------------
(* Instances of the manager's life for TLC.                                *)
EXTENDS ManagerBoot

(* Two FVP processes, with a hole in the memory of the second one.  No sum *)
(* of addresses of the first is one of the second.  The first pages of the *)
(* second lie outside the first: a scan that sees only these, saved        *)
(* without its mappings, is restored with an address of the first.         *)
TwoFvps == <<[p \in 2..4 |-> 2^p], [p \in {1, 2, 4} |-> 20 * 2^p]>>
===============================================================================
