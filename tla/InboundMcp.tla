------------------------------ MODULE InboundMcp ------------------------------
(***************************************************************************)
(* The inbound MCP server (src/memoryendpoints/mcp_server.py): the OAuth    *)
(* grants it keeps in an SQLite file of its own, and the memory_remember    *)
(* tool, the one that writes.  A consent becomes one code, a code one       *)
(* family of tokens; a refresh token is spent on the next pair of the       *)
(* family, and spending it twice, or a revocation, ends the family.         *)
(*                                                                         *)
(* A database block of the server is one step here, in whatever process it  *)
(* runs: _connect begins it with an UPDATE of the token tables, which takes *)
(* the write lock of the file before the block reads, and a block that      *)
(* raises is rolled back.  The tool holds no lock between its calls of the  *)
(* store, and any of them may be the last one its process makes.            *)
(*                                                                         *)
(* A request that is refused at its read changes nothing and is left out:   *)
(* a wrong secret, verifier, client, callback, resource or human, a         *)
(* workspace the human lost, a session that ended, a row that was used or   *)
(* whose expiry has passed.  So are registration, the pages, the tools that *)
(* only read, and a repeated id with other arguments.                       *)
(***************************************************************************)
EXTENDS Naturals

CONSTANTS
    Requests,       \* tool calls a worker may be in
    Consents,       \* rows of mcp_oauth_authorizations
    Codes,          \* rows of mcp_oauth_codes
    Pairs,          \* rows of the two token tables, inserted in pairs
    Messages,       \* JSON-RPC request ids
    Nobody

Rows == {"none", "live", "revoked"}
Consent == {"none", "waiting", "consumed"}
Code == [status : {"none", "issued", "consumed"}, of : Consents \cup {Nobody}]
Pair == [access : Rows, refresh : Rows, family : Pairs \cup {Nobody}, of : Codes \cup {Nobody}]
Claim == [status : {"none", "pending", "recorded"}, by : Requests \cup {Nobody}]
Keys == Pairs \X Messages       \* _mcp_mutation_key: the family and the message

ASSUME NobodyAssumption == Nobody \notin Requests \cup Consents \cup Codes \cup Pairs \cup Keys

VARIABLES
    sure,           \* a commit that raises has written nothing
    consents, codes, pairs,
    claims,         \* idempotency claims of the tool, in the store
    stored,         \* memories submitted under each key: none, one, or more than one
    at              \* where each tool call is

grants == <<consents, codes, pairs>>
tool == <<claims, stored, at>>
mcpVars == <<sure, grants, tool>>

NotServed == [pc |-> "idle", key |-> Nobody]

McpInit ==
    /\ sure \in BOOLEAN
    /\ consents = [i \in Consents |-> "none"]
    /\ codes = [i \in Codes |-> [status |-> "none", of |-> Nobody]]
    /\ pairs = [i \in Pairs |-> [access |-> "none", refresh |-> "none",
                                 family |-> Nobody, of |-> Nobody]]
    /\ claims = [k \in Keys |-> [status |-> "none", by |-> Nobody]]
    /\ stored = [k \in Keys |-> 0]
    /\ at = [r \in Requests |-> NotServed]

----------------------------------------------------------------------------
(* The authorization page. *)

\* _authorize_get: the page shows what the human may choose from.
AuthorizeGet(i) ==
    /\ consents[i] = "none"
    /\ consents' = [consents EXCEPT ![i] = "waiting"]
    /\ UNCHANGED <<sure, codes, pairs, tool>>

\* _authorize_post
Deny(i) ==
    /\ consents[i] = "waiting"
    /\ consents' = [consents EXCEPT ![i] = "consumed"]
    /\ UNCHANGED <<sure, codes, pairs, tool>>

Allow(i, j) ==
    /\ consents[i] = "waiting"
    /\ codes[j].status = "none"
    /\ consents' = [consents EXCEPT ![i] = "consumed"]
    /\ codes' = [codes EXCEPT ![j] = [status |-> "issued", of |-> i]]
    /\ UNCHANGED <<sure, pairs, tool>>

----------------------------------------------------------------------------
(* The token endpoint. *)

\* _issue_tokens: an access and a refresh row of family f, from the code c.
Fresh(j) == pairs[j].family = Nobody
Inserted(f, c) == [access |-> "live", refresh |-> "live", family |-> f, of |-> c]

\* Mutated form: a code that was read stays as it is.
ExchangeKept(i, j) ==
    /\ codes[i].status = "issued" /\ Fresh(j)
    /\ pairs' = [pairs EXCEPT ![j] = Inserted(j, i)]
    /\ UNCHANGED <<sure, consents, codes, tool>>

\* _token, grant_type authorization_code
Exchange(i, j) ==
    /\ codes[i].status = "issued" /\ Fresh(j)
    /\ codes' = [codes EXCEPT ![i].status = "consumed"]
    /\ pairs' = [pairs EXCEPT ![j] = Inserted(j, i)]
    /\ UNCHANGED <<sure, consents, tool>>

\* Mutated form: the refresh row is spent whether or not it was before.
RefreshSpent(i, j) ==
    /\ pairs[i].refresh /= "none" /\ Fresh(j)
    /\ pairs' = [pairs EXCEPT ![i].refresh = "revoked",
                              ![j] = Inserted(pairs[i].family, pairs[i].of)]
    /\ UNCHANGED <<sure, consents, codes, tool>>

\* _token, grant_type refresh_token
Refresh(i, j) ==
    /\ pairs[i].refresh = "live" /\ Fresh(j)
    /\ pairs' = [pairs EXCEPT ![i].refresh = "revoked",
                              ![j] = Inserted(pairs[i].family, pairs[i].of)]
    /\ UNCHANGED <<sure, consents, codes, tool>>

\* _revoke_family
RevokeFamily(f) ==
    /\ pairs' = [j \in Pairs |-> IF pairs[j].family = f
                                 THEN [pairs[j] EXCEPT !.access = "revoked",
                                                       !.refresh = "revoked"]
                                 ELSE pairs[j]]
    /\ UNCHANGED <<sure, consents, codes, tool>>

\* _token: a refresh token that was spent is shown again.
Reuse(i) == pairs[i].refresh = "revoked" /\ RevokeFamily(pairs[i].family)

\* _revoke: either token of a pair, whatever its state.
Revoke(i) == ~Fresh(i) /\ RevokeFamily(pairs[i].family)

----------------------------------------------------------------------------
(* tools/call memory_remember. *)

Reaches(r, pc) == at' = [at EXCEPT ![r].pc = pc]
Finish(r) == at' = [at EXCEPT ![r] = NotServed]

\* _bearer_principal: the one look at the token.
Bearer(r, i, m) ==
    /\ at[r].pc = "idle"
    /\ pairs[i].access = "live"
    /\ at' = [at EXCEPT ![r] = [pc |-> "calling", key |-> <<pairs[i].family, m>>]]
    /\ UNCHANGED <<sure, grants, claims, stored>>

\* claim_idempotency inserts the claim.
ClaimKey(r) ==
    LET k == at[r].key
    IN /\ at[r].pc = "calling"
       /\ claims[k].status = "none"
       /\ claims' = [claims EXCEPT ![k] = [status |-> "pending", by |-> r]]
       /\ Reaches(r, "claimed")
       /\ UNCHANGED <<sure, grants, stored>>

\* The claim of another call: answered from, in conflict or in progress.
ClaimTaken(r) ==
    /\ at[r].pc = "calling"
    /\ claims[at[r].key].status /= "none"
    /\ Finish(r)
    /\ UNCHANGED <<sure, grants, claims, stored>>

Holds(r, k) == claims[k].status = "pending" /\ claims[k].by = r

\* has_quota_for refuses.
QuotaReached(r) ==
    /\ at[r].pc = "claimed"
    /\ Reaches(r, "releasing")
    /\ UNCHANGED <<sure, grants, claims, stored>>

Adds(k) == stored' = [stored EXCEPT ![k] = IF @ = 0 THEN 1 ELSE 2]

Submit(r) ==
    /\ at[r].pc = "claimed"
    /\ Adds(at[r].key)
    /\ Reaches(r, "submitted")
    /\ UNCHANGED <<sure, grants, claims>>

\* submit_memory raises: nothing was written, or its commit was and only the
\* answer of the database is lost.
SubmitRaises(r) ==
    /\ at[r].pc = "claimed"
    /\ \/ UNCHANGED stored
       \/ ~sure /\ Adds(at[r].key)
    /\ Reaches(r, "releasing")
    /\ UNCHANGED <<sure, grants, claims>>

Release(r) ==
    LET k == at[r].key
    IN /\ at[r].pc = "releasing"
       /\ claims' = IF Holds(r, k)
                    THEN [claims EXCEPT ![k] = [status |-> "none", by |-> Nobody]]
                    ELSE claims
       /\ Finish(r)
       /\ UNCHANGED <<sure, grants, stored>>

\* Mutated form: a write that could not be read back gives its claim up.
ReleasedWhenUncertain(r) ==
    /\ at[r].pc = "submitted"
    /\ Reaches(r, "releasing")
    /\ UNCHANGED <<sure, grants, claims, stored>>

\* The readback misses the memory, or recording fails: the claim is kept.
Uncertain(r) ==
    /\ at[r].pc = "submitted"
    /\ Finish(r)
    /\ UNCHANGED <<sure, grants, claims, stored>>

\* record_idempotency, after the readback.
RecordAnswer(r) ==
    LET k == at[r].key
    IN /\ at[r].pc = "submitted"
       /\ Holds(r, k)
       /\ claims' = [claims EXCEPT ![k].status = "recorded"]
       /\ Finish(r)
       /\ UNCHANGED <<sure, grants, stored>>

\* The call raises, or its process stops, between two of its steps.
HandlerStops(r) ==
    /\ at[r].pc /= "idle"
    /\ Finish(r)
    /\ UNCHANGED <<sure, grants, claims, stored>>

----------------------------------------------------------------------------

OAuth ==
    \/ \E i \in Consents : AuthorizeGet(i) \/ Deny(i) \/ \E j \in Codes : Allow(i, j)
    \/ \E j \in Pairs : \/ \E i \in Codes : Exchange(i, j)
                        \/ \E i \in Pairs : Refresh(i, j)
                        \/ Reuse(j) \/ Revoke(j)

Tool(r) ==
    \/ \E i \in Pairs, m \in Messages : Bearer(r, i, m)
    \/ ClaimKey(r) \/ ClaimTaken(r) \/ QuotaReached(r) \/ Submit(r) \/ SubmitRaises(r)
    \/ Release(r) \/ Uncertain(r) \/ RecordAnswer(r) \/ HandlerStops(r)

McpNext == OAuth \/ \E r \in Requests : Tool(r)

McpSpec == McpInit /\ [][McpNext]_mcpVars

----------------------------------------------------------------------------
(* Properties. *)

Pcs == {"idle", "calling", "claimed", "submitted", "releasing"}

\* The two rows of a pair exist together.
Paired(i) ==
    /\ pairs[i].access = "none" <=> pairs[i].family = Nobody
    /\ pairs[i].refresh = "none" <=> pairs[i].family = Nobody

\* The variables keep their types, and a row its family.
McpTypeOK ==
    /\ sure \in BOOLEAN
    /\ consents \in [Consents -> Consent]
    /\ codes \in [Codes -> Code]
    /\ pairs \in [Pairs -> Pair]
    /\ \A i \in Pairs : Paired(i)
    /\ claims \in [Keys -> Claim]
    /\ stored \in [Keys -> 0..2]
    /\ at \in [Requests -> [pc : Pcs, key : Keys \cup {Nobody}]]

\* Everything a human approves is used once, however often the client or the
\* browser repeats a request whose answer it did not get: one code from a
\* consent, one family from a code, and never two refresh tokens of a family
\* that could both be spent, so that every family is one chain.
GrantsAreSingleUse ==
    /\ \A i, j \in Codes :
          codes[i].status /= "none" /\ codes[j].status /= "none" /\ codes[i].of = codes[j].of
          => i = j
    /\ \A i, j \in Pairs :
          pairs[i].family = i /\ pairs[j].family = j /\ pairs[i].of = pairs[j].of => i = j
    /\ \A i, j \in Pairs :
          /\ pairs[i].refresh = "live" /\ pairs[j].refresh = "live"
          /\ pairs[i].family = pairs[j].family
          => i = j

\* Every token of the family was revoked.
Ended(f) ==
    /\ pairs[f].family = f
    /\ \A j \in Pairs : pairs[j].family = f
                        => pairs[j].access = "revoked" /\ pairs[j].refresh = "revoked"

\* A family that a revocation or a reuse ended has no live token ever again,
\* whichever of its tokens or its code is shown later.
EndedStaysEnded == [][\A f \in Pairs : Ended(f) => Ended(f)']_pairs

\* One call of memory_remember, retried as often as the client likes, at the
\* same time or with refreshed tokens of the family, writes one memory, whichever
\* step fails or crashes, if a commit that raises wrote nothing.
WrittenOnce == sure => \A k \in Keys : stored[k] <= 1

\* No consent, code or refresh token is used twice, and every row has its family.
GrantsAreSound == McpTypeOK /\ GrantsAreSingleUse

===============================================================================
