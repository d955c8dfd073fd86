----------------------------- MODULE MCRecords -----------------------------
(* Two workers; each behaviour uses one group of the tables, which share only *)
(* the quota.                                                                 *)
EXTENDS Records, TLC

MCLanes == {[ops |-> {"submit", "promote", "decide"}, calls |-> 4, limit |-> 1],
            [ops |-> {"package", "upsert"}, calls |-> 4, limit |-> 4],
            [ops |-> {"document", "link"}, calls |-> 3, limit |-> 3],
            [ops |-> {"document", "project"}, calls |-> 3, limit |-> 3]}
WorkersAlike == Permutations(Workers)
=============================================================================
