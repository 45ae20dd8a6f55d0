------------------------------ MODULE MCTransfers ------------------------------
(* Instances of the engine and its callers for TLC.                        *)
EXTENDS XdmaTransfers, TLC

CONSTANTS ra, rb, rc, rd, re, rf

DescsInstance == ra :> 2 @@ rb :> 3 @@ rc :> 1 @@ rd :> 1 @@ re :> 3 @@ rf :> 3

Quiet == [sync |-> {}, aio |-> <<>>, perf |-> {}, bad |-> {}, poll |-> FALSE,
          errors |-> FALSE, giveup |-> FALSE, offline |-> FALSE]

(* Two calls that wait; the second one has to be split at the end of the   *)
(* ring.  Errors may happen or not, as may timeouts.                       *)
WaitingLoads ==
  {[Quiet EXCEPT !.sync = {ra, rb}, !.giveup = TRUE, !.errors = TRUE],
   [Quiet EXCEPT !.sync = {ra, rb}, !.poll = TRUE],
   [Quiet EXCEPT !.sync = {ra, rc}, !.poll = TRUE, !.errors = TRUE],
   [Quiet EXCEPT !.sync = {rc, rd}, !.poll = TRUE, !.giveup = TRUE]}

(* Asynchronous calls of one and two segments next to one that waits, one  *)
(* with a bad segment, and one in a ring that is too small for them.       *)
AioLoads ==
  {[Quiet EXCEPT !.sync = {rc}, !.aio = <<ra>>],
   [Quiet EXCEPT !.sync = {rc}, !.aio = <<ra>>, !.errors = TRUE],
   [Quiet EXCEPT !.sync = {rc}, !.aio = <<ra>>, !.giveup = TRUE],
   [Quiet EXCEPT !.sync = {rd}, !.aio = <<ra>>, !.poll = TRUE],
   [Quiet EXCEPT !.aio = <<rd, ra>>],
   [Quiet EXCEPT !.sync = {rc}, !.aio = <<rd, ra>>, !.bad = {ra}],
   [Quiet EXCEPT !.sync = {rc, rd}, !.aio = <<rb>>]}

(* A segment that other calls split again and again, one that gives up or  *)
(* goes offline while it is queued.                                        *)
LimitLoads ==
  {[Quiet EXCEPT !.sync = {re, rf}, !.aio = <<rb>>],
   [Quiet EXCEPT !.sync = {ra}, !.aio = <<rb>>, !.offline = TRUE],
   [Quiet EXCEPT !.sync = {rc}, !.aio = <<ra, rd>>, !.errors = TRUE, !.giveup = TRUE]}

(* The device goes offline, and the performance test runs.                 *)
ServiceLoads ==
  {[Quiet EXCEPT !.sync = {rc}, !.aio = <<ra>>, !.bad = {rc}, !.offline = TRUE,
                 !.giveup = TRUE],
   [Quiet EXCEPT !.sync = {rc}, !.perf = {rd}, !.bad = {rd}, !.giveup = TRUE],
   [Quiet EXCEPT !.perf = {rd}, !.offline = TRUE],
   [Quiet EXCEPT !.sync = {ra}, !.perf = {rd}, !.errors = TRUE]}

LoadsInstance == WaitingLoads \cup AioLoads \cup LimitLoads \cup ServiceLoads
=============================================================================
