------------------------------ MODULE MCCommons ------------------------------
(* Instances of Commons.                                                    *)
EXTENDS Commons, TLC

Alike == Permutations(Names) \cup Permutations(Tokens) \cup Permutations(Sessions)
            \cup Permutations(Messages)

Deployed(names, guests, tokens, sessions, messages, policies, active, calls) ==
    {d \in [names : SUBSET Names, guests : SUBSET Names, tokens : SUBSET Tokens,
            sessions : SUBSET Sessions, messages : SUBSET Messages,
            approval : {policies}, pending : {1},
            active : {active}, calls : {calls}] :
        /\ Cardinality(d.names) = names
        /\ d.guests \subseteq d.names
        /\ Cardinality(d.guests) = guests
        /\ Cardinality(d.tokens) = tokens
        /\ Cardinality(d.sessions) = sessions
        /\ Cardinality(d.messages) = messages}

\* Competing requests under both policies, with room for one agent.
Enrolling == Deployed(2, 1, 3, 0, 0, BOOLEAN, 1, 1)

\* One agent, its credentials and its sessions.
Holding == Deployed(1, 0, 2, 2, 0, {FALSE}, 1, 2)

\* Two agents in the room, two with room for one, and a reply.
Talking == Deployed(2, 0, 2, 0, 1, {FALSE}, 2, 2)
Retiring == Deployed(2, 0, 2, 0, 1, BOOLEAN, 1, 1)
Replying == Deployed(1, 0, 1, 0, 2, {FALSE}, 1, 1)

\* A session in the room.
Browsing == Deployed(1, 0, 2, 1, 1, {FALSE}, 1, 2)

AllSettings == Enrolling \cup Holding \cup Talking \cup Retiring \cup Replying
                 \cup Browsing
=============================================================================
