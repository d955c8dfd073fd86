----------------------------- MODULE MCInboundMcp -----------------------------
(* Values for TLC.                                                           *)
EXTENDS InboundMcp, TLC

Symmetric == Permutations(Requests) \cup Permutations(Pairs) \cup Permutations(Codes)
                \cup Permutations(Consents)

===============================================================================
