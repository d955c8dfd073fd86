---------------------------- MODULE MCOwnership ----------------------------
(* Two workers; each behaviour uses one group of the calls.                   *)
EXTENDS Ownership, TLC

CONSTANTS c1

MCLanes ==
    {[ops |-> {"delegate", "register", "setting"}, calls |-> 5, sessions |-> 3,
      start |-> {c1}, owned |-> TRUE],
     [ops |-> {"bootstrap", "proof", "account", "login", "link", "reauth"}, calls |-> 5,
      sessions |-> 3, start |-> {}, owned |-> FALSE],
     [ops |-> {"reauth", "select", "logout"}, calls |-> 4, sessions |-> 7,
      start |-> {c1}, owned |-> TRUE],
     [ops |-> {"select", "transition", "submit", "logout"}, calls |-> 3, sessions |-> 5,
      start |-> {c1}, owned |-> TRUE],
     [ops |-> {"transition", "submit", "intent", "close"}, calls |-> 4, sessions |-> 4,
      start |-> {c1}, owned |-> TRUE],
     [ops |-> {"bootstrap", "recovery", "intent", "close", "permanent_purge"}, calls |-> 4,
      sessions |-> 3, start |-> {c1}, owned |-> TRUE],
     [ops |-> {"intent", "soft_delete", "permanent_purge", "export", "restore"}, calls |-> 5,
      sessions |-> 3, start |-> {c1}, owned |-> TRUE]}
Alike == UNION {Permutations(S) : S \in {Workers, Keys, Proofs, Accounts, Intents, Requests}}
=============================================================================
