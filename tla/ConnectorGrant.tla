--------------------------- MODULE ConnectorGrant ---------------------------
(***************************************************************************)
(* What a pairing promises the company and the desktop, without requests,  *)
(* codes, rotations or deadlines (docs/connector-pairing-v1.md): a human's *)
(* approval gives authority once, to one credential; the credential hands  *)
(* it on to a successor; an end is final; and a credential that has lost   *)
(* authority never has it again.                                           *)
(***************************************************************************)
CONSTANTS Requests, Creds

VARIABLES
    authority,      \* the credentials accepted for each pairing
    over,           \* the pairings that have ended
    spent           \* the credentials that can never be accepted again

gvars == <<authority, over, spent>>

GrantInit ==
    /\ authority = [r \in Requests |-> {}]
    /\ over = {}
    /\ spent = {}

\* Credentials that were never accepted may be withdrawn with any step.
Withdraw(lost) == spent \cup lost \subseteq spent' /\ spent' \subseteq Creds

Give(r, c) ==
    /\ r \notin over
    /\ authority[r] = {}
    /\ c \notin spent
    /\ authority' = [authority EXCEPT ![r] = {c}]
    /\ UNCHANGED <<over, spent>>

Pass(r, c, d) ==
    /\ authority[r] = {c}
    /\ d \notin spent \cup {c}
    /\ authority' = [authority EXCEPT ![r] = {d}]
    /\ Withdraw({c})
    /\ UNCHANGED over

End(ended) ==
    /\ authority' = [r \in Requests |-> IF r \in ended THEN {} ELSE authority[r]]
    /\ over' = over \cup ended
    /\ Withdraw(UNION {authority[r] : r \in ended})
    /\ spent' \cap UNION {authority'[r] : r \in Requests} = {}

GrantNext ==
    \/ \E r \in Requests, c \in Creds : Give(r, c)
    \/ \E r \in Requests, c, d \in Creds : Pass(r, c, d)
    \/ \E ended \in SUBSET Requests : End(ended)

GrantSpec == GrantInit /\ [][GrantNext]_gvars
=============================================================================
