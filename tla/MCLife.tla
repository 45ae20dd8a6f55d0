--------------------------------- MODULE MCLife ---------------------------------
(***************************************************************************)
(* Two cards (or one), one process.  Each situation makes one kind of      *)
(* trouble possible.                                                       *)
(***************************************************************************)
EXTENDS XdmaLife

CONSTANTS d1, d2, p1

Quiet ==
  [side |-> "host", poll |-> FALSE, irq |-> "msix", h2c |-> 1, c2h |-> 1, users |-> 1,
   cards |-> {d1}, cpus |-> 2, bars |-> <<"user", "config", "bypass">>, faults |-> {},
   unplug |-> FALSE, reset |-> FALSE, errors |-> FALSE]

Failures == {"module", "threads", "enable", "regions", "bars", "mask", "engines",
             "vectors", "irqs", "nodes"}

Both == [Quiet EXCEPT !.cards = Devs, !.users = 0, !.c2h = 0, !.bars = <<"none", "config">>,
                      !.unplug = TRUE]

MCLoads ==
  {Both,
   [Both EXCEPT !.poll = TRUE, !.cpus = 3],
   [Quiet EXCEPT !.unplug = TRUE],
   [Quiet EXCEPT !.reset = TRUE, !.errors = TRUE],
   [Quiet EXCEPT !.poll = TRUE, !.bars = <<"config", "none", "bypass">>, !.h2c = 2],
   [Quiet EXCEPT !.irq = "legacy", !.reset = TRUE, !.bars = <<"user", "config">>],
   [Quiet EXCEPT !.reset = TRUE, !.errors = TRUE, !.faults = {"irqs"}],
   [Quiet EXCEPT !.faults = Failures],
   [Quiet EXCEPT !.faults = Failures, !.poll = TRUE, !.bars = <<"user", "none">>],
   [Quiet EXCEPT !.side = "guest"]}

MCStubSituations == [ids : BOOLEAN, faults : BOOLEAN]
=============================================================================
