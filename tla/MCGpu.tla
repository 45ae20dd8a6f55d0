--------------------------------- MODULE MCGpu ---------------------------------
(***************************************************************************)
(* The GPU manager and the fix-up module.  The manager opens the module    *)
(* but its calls of MAP and UNMAP are compiled out, so the two do not      *)
(* meet: a behaviour is one of either.                                     *)
(***************************************************************************)
EXTENDS GpuManager, FhFixup

CONSTANTS pg1, pg2, pg3, c1, c2

VARIABLE part   \* which of the two this behaviour is about

MCGpuCopies ==
  {[at |-> 0, size |-> 3, pages |-> <<pg1, pg2>>], [at |-> 1, size |-> 2, pages |-> <<pg2>>],
   [at |-> 1, size |-> 3, pages |-> <<pg2, pg3>>]}

\* In order, in reverse, over a page without a table, at the end of the vma.
MCRequests == (c1 :> {<<1, 2>>, <<3, 1>>}) @@ (c2 :> {<<2, 3>>, <<4>>, <<5, 4>>})

GpuWorldInit == GpuInit /\ FixInit /\ part \in {"gpu", "fixup"}

GpuWorldNext ==
  \/ part = "gpu" /\ GpuNext /\ UNCHANGED <<fixVars, part>>
  \/ part = "fixup" /\ FixNext /\ UNCHANGED <<gpuVars, part>>

\* A caller inside the driver goes on.
GpuWorldSpec ==
  /\ GpuWorldInit /\ [][GpuWorldNext]_<<gpuVars, fixVars, part>>
  /\ \A c \in Callers : WF_<<gpuVars, fixVars, part>>(part = "fixup" /\ Works(c) /\ UNCHANGED <<gpuVars, part>>)

================================================================================
