-------------------------- MODULE MutationContract --------------------------
(***************************************************************************)
(* What the retry contract promises a client (docs/system-architecture.md, *)
(* "Authentication And Retry Safety"), without tables, claims or failures: *)
(* a key has at most one effect, a response is stored only for an effect,  *)
(* and everyone who is told a stored response is told that of the effect   *)
(* of an exact copy of the own request.                                    *)
(***************************************************************************)
CONSTANTS Requests, Keys, Bodies, NoOne

VARIABLES
    call,       \* the key and body of each request
    effect,     \* the requests whose mutation took effect, per key
    stored,     \* the keys whose response can be replayed
    told        \* the request whose stored response each request is told

cvars == <<call, effect, stored, told>>

ContractInit ==
    /\ call \in [Requests -> [key : Keys, body : Bodies]]
    /\ effect = [k \in Keys |-> {}]
    /\ stored = {}
    /\ told = [r \in Requests |-> NoOne]

TakeEffect(r) ==
    /\ effect[call[r].key] = {}
    /\ effect' = [effect EXCEPT ![call[r].key] = {r}]
    /\ UNCHANGED <<call, stored, told>>

\* The response of an effect is stored; its author hears it or is cut off.
Store(r) ==
    /\ effect[call[r].key] = {r}
    /\ call[r].key \notin stored
    /\ stored' = stored \cup {call[r].key}
    /\ told' \in {told, [told EXCEPT ![r] = r]}
    /\ UNCHANGED <<call, effect>>

Tell(r) ==
    /\ call[r].key \in stored
    /\ \E s \in effect[call[r].key] :
          /\ call[s] = call[r]
          /\ told' = [told EXCEPT ![r] = s]
    /\ UNCHANGED <<call, effect, stored>>

\* The answer is lost on its way out.
LoseAnswer(r) ==
    /\ told' = [told EXCEPT ![r] = NoOne]
    /\ UNCHANGED <<call, effect, stored>>

ContractNext ==
    \E r \in Requests : TakeEffect(r) \/ Store(r) \/ Tell(r) \/ LoseAnswer(r)

Contract == ContractInit /\ [][ContractNext]_cvars
=============================================================================
