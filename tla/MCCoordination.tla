--------------------------- MODULE MCCoordination ---------------------------
(* Two agents, one of them a newcomer, two workers, two rooms.  The inbox and *)
(* the rooms share only the clock and the sweep: each behaviour uses one of   *)
(* them, its sweeps included.                                                 *)
EXTENDS Coordination, TLC

BothLanes == {[ops |-> {"send", "ack", "page"}, calls |-> 3, sent |-> 2],
              [ops |-> {"post", "route", "mark", "open"}, calls |-> 3, sent |-> 0]}
MCTargets == {{}, {CHOOSE a \in Founders : TRUE}}
WorkersAlike == Permutations(Workers)
=============================================================================
