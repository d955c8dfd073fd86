---------------------------- MODULE MCAgentAccess ----------------------------
(* Instances of AgentAccess.                                                *)
EXTENDS AgentAccess, FiniteSets, TLC

Alike == Permutations(Requests) \cup Permutations(Tokens) \cup Permutations(Intents)
            \cup Permutations(Processes)

Deployed(processes, requests, tokens, purposes) ==
    {d \in [processes : SUBSET Processes, requests : SUBSET Requests,
            tokens : SUBSET Tokens, purposes : {purposes}] :
        /\ Cardinality(d.processes) = processes
        /\ Cardinality(d.requests) = requests
        /\ Cardinality(d.tokens) = tokens}

\* Competing requests, and tokens with a successor and a rival.
OneProcess == Deployed(1, 2, 3, {"close"})

\* Every life of a company, against one request and its tokens.
OneProcessClosing == Deployed(1, 1, 3, Purposes)

TwoProcesses == Deployed(2, 1, 3, {"close"})

TwoProcessesClosing == Deployed(2, 1, 2, Purposes)

AllDeployments == OneProcess \cup OneProcessClosing \cup TwoProcesses \cup TwoProcessesClosing
=============================================================================
