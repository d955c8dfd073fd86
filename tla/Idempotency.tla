---------------------------- MODULE Idempotency ----------------------------
(***************************************************************************)
(* The reservation protocol every protected mutation runs through: the     *)
(* idempotency table of the store (claim, record, release) and the life of *)
(* one WSGI request around it (app.py), from the claim to the answer.      *)
(*                                                                         *)
(* A request is one HTTP attempt.  A client retry, a duplicate delivered   *)
(* by a proxy and a delayed copy are all further requests with the same    *)
(* key and body, in any order and at the same time, in any worker process. *)
(* One request makes one claim, so the random claim id is the request.     *)
(***************************************************************************)
EXTENDS Naturals, FiniteSets

CONSTANTS
    Requests,   \* HTTP attempts
    Keys,       \* record keys workspace:operation:principal-scoped key
    Bodies,     \* request bodies, up to their canonical hash
    Free,       \* the record key has no row
    NoOne       \* an answer that replays no stored response

Flags == {"mutationStarted", "outcomeUncertain", "finalized"}

Stages == {"sent", "working", "mutated", "started", "closing", "settled", "dead"}

Kinds == {"none", "response", "replay", "conflict", "inProgress", "problem",
          "uncertain", "raised"}

\* A row: the claim of a request while pending, its stored response once final.
Reservation == [body : Bodies, by : Requests, final : BOOLEAN]

Answer == [kind : Kinds, by : Requests \cup {NoOne}]

ASSUME ConstantsAssumption ==
    /\ Free \notin Reservation
    /\ NoOne \notin Requests

VARIABLES
    call,       \* what each request carries
    table,      \* the matm_idempotency rows, durable
    stage,      \* where the worker is in the request
    claim,      \* the flags of the claim in the WSGI environ, volatile
    applied,    \* requests whose storage mutation committed
    answer      \* what the worker answers

vars == <<call, table, stage, claim, applied, answer>>

Key(r) == call[r].key
Body(r) == call[r].body

\* The row r writes when it claims its key, and the one it leaves there.
Pending(r) == [body |-> Body(r), by |-> r, final |-> FALSE]
Response(r) == [body |-> Body(r), by |-> r, final |-> TRUE]

\* The pending payload stored under the key is the one r wrote.
Owns(r) == table[Key(r)] = Pending(r)

TypeOK ==
    /\ call \in [Requests -> [key : Keys, body : Bodies]]
    /\ table \in [Keys -> Reservation \cup {Free}]
    /\ stage \in [Requests -> Stages]
    /\ claim \in [Requests -> SUBSET Flags]
    /\ applied \subseteq Requests
    /\ answer \in [Requests -> Answer]

Init ==
    /\ call \in [Requests -> [key : Keys, body : Bodies]]
    /\ table = [k \in Keys |-> Free]
    /\ stage = [r \in Requests |-> "sent"]
    /\ claim = [r \in Requests |-> {}]
    /\ applied = {}
    /\ answer = [r \in Requests |-> [kind |-> "none", by |-> NoOne]]

Goto(r, s) == stage' = [stage EXCEPT ![r] = s]

Say(r, kind, by) == answer' = [answer EXCEPT ![r] = [kind |-> kind, by |-> by]]

Flag(r, f) == claim' = [claim EXCEPT ![r] = @ \cup {f}]

----------------------------------------------------------------------------
(* claim_idempotency: one transaction per turn of the polling loop.        *)

Insert(r) == table' = [table EXCEPT ![Key(r)] = Pending(r)]

ClaimAcquire(r) ==
    /\ stage[r] = "sent"
    /\ table[Key(r)] = Free
    /\ Insert(r)
    /\ Goto(r, "working")
    /\ UNCHANGED <<call, claim, applied, answer>>

ClaimConflict(r) ==
    /\ stage[r] = "sent"
    /\ table[Key(r)] # Free
    /\ table[Key(r)].body # Body(r)
    /\ Say(r, "conflict", NoOne)
    /\ Goto(r, "settled")
    /\ UNCHANGED <<call, table, claim, applied>>

ClaimReplay(r) ==
    /\ stage[r] = "sent"
    /\ table[Key(r)] # Free
    /\ table[Key(r)].body = Body(r)
    /\ table[Key(r)].final
    /\ Say(r, "replay", table[Key(r)].by)
    /\ Goto(r, "settled")
    /\ UNCHANGED <<call, table, claim, applied>>

\* Mutated form: the polling loop has no deadline.
ClaimTimeoutNever(r) == FALSE

\* The claim of another request stays pending until the wait deadline.
ClaimTimeout(r) ==
    /\ stage[r] = "sent"
    /\ table[Key(r)] # Free
    /\ table[Key(r)].body = Body(r)
    /\ ~table[Key(r)].final
    /\ Say(r, "inProgress", NoOne)
    /\ Goto(r, "settled")
    /\ UNCHANGED <<call, table, claim, applied>>

\* The store raises before or after it committed the row: the request holds
\* no claim, so application() re-raises and the row, if any, stays.
ClaimRaises(r) ==
    /\ stage[r] = "sent"
    /\ \/ UNCHANGED table
       \/ table[Key(r)] = Free /\ Insert(r)
    /\ Say(r, "raised", NoOne)
    /\ Goto(r, "settled")
    /\ UNCHANGED <<call, claim, applied>>

----------------------------------------------------------------------------
(* The handler, between its claim and its answer.                          *)

\* Validation, quota or the store refuses: a problem, no mutation.
Refuse(r) ==
    /\ stage[r] = "working"
    /\ Say(r, "problem", NoOne)
    /\ Goto(r, "closing")
    /\ UNCHANGED <<call, table, claim, applied>>

Mutate(r) ==
    /\ stage[r] = "working"
    /\ applied' = applied \cup {r}
    /\ Goto(r, "mutated")
    /\ UNCHANGED <<call, table, claim, answer>>

\* _mark_idempotent_mutation_started, after the store call returned.
MarkStarted(r) ==
    /\ stage[r] = "mutated"
    /\ Flag(r, "mutationStarted")
    /\ Goto(r, "started")
    /\ UNCHANGED <<call, table, applied, answer>>

\* The readback does not show what was written: 500 problem.
ReadbackFails(r) ==
    /\ stage[r] = "started"
    /\ Say(r, "problem", NoOne)
    /\ Goto(r, "closing")
    /\ UNCHANGED <<call, table, claim, applied>>

\* record_idempotency updates the row only while it holds this claim.
Finalize(r) == table' = [table EXCEPT ![Key(r)] = Response(r)]

Record(r) ==
    /\ stage[r] = "started"
    /\ Owns(r)
    /\ Finalize(r)
    /\ Flag(r, "finalized")
    /\ Say(r, "response", r)
    /\ Goto(r, "closing")
    /\ UNCHANGED <<call, applied>>

\* Mutated form: the exception leaves the claims as they are.
RaisedUnmarked(r) ==
    /\ Say(r, "uncertain", NoOne)
    /\ Goto(r, "closing")
    /\ UNCHANGED <<call, claim>>

\* An exception reaches application(): every unfinished claim is preserved.
Raised(r) ==
    /\ Flag(r, "outcomeUncertain")
    /\ Say(r, "uncertain", NoOne)
    /\ Goto(r, "closing")
    /\ UNCHANGED call

\* The handler raises before its store call, or the store raises before or
\* after its commit.
MutationRaises(r) ==
    /\ stage[r] = "working"
    /\ applied' \in {applied, applied \cup {r}}
    /\ UNCHANGED table
    /\ Raised(r)

\* The update matches no row, or the store raises before or after its commit.
RecordRaises(r) ==
    /\ stage[r] = "started"
    /\ \/ UNCHANGED table
       \/ Owns(r) /\ Finalize(r)
    /\ UNCHANGED applied
    /\ Raised(r)

\* Mutated form: only a finalized or uncertain claim is kept.
ReleaseStarted(r) ==
    /\ stage[r] = "closing"
    /\ table' = IF claim[r] \subseteq {"mutationStarted"} /\ Owns(r)
                THEN [table EXCEPT ![Key(r)] = Free]
                ELSE table
    /\ Goto(r, "settled")
    /\ UNCHANGED <<call, claim, applied, answer>>

\* Mutated form: the row is deleted by key, whatever response it holds.
ReleaseByKey(r) ==
    /\ stage[r] = "closing"
    /\ table' = IF "mutationStarted" \notin claim[r] \/ "finalized" \in claim[r]
                THEN [table EXCEPT ![Key(r)] = Free]
                ELSE table
    /\ Goto(r, "settled")
    /\ UNCHANGED <<call, claim, applied, answer>>

\* _release_request_idempotency_claims, in the finally of application().
Release(r) ==
    /\ stage[r] = "closing"
    /\ table' = IF claim[r] = {} /\ Owns(r)
                THEN [table EXCEPT ![Key(r)] = Free]
                ELSE table
    /\ Goto(r, "settled")
    /\ UNCHANGED <<call, claim, applied, answer>>

\* The release itself fails: the reservation is left durable.
ReleaseFails(r) ==
    /\ stage[r] = "closing"
    /\ claim[r] = {}
    /\ Goto(r, "settled")
    /\ UNCHANGED <<call, table, claim, applied, answer>>

\* The worker process dies: the claim flags are lost, the rows are not.
Crash(r) ==
    /\ stage[r] \in {"sent", "working", "mutated", "started", "closing"}
    /\ Goto(r, "dead")
    /\ claim' = [claim EXCEPT ![r] = {}]
    /\ Say(r, "none", NoOne)
    /\ UNCHANGED <<call, table, applied>>

----------------------------------------------------------------------------
Serve(r) ==
    \/ ClaimAcquire(r) \/ ClaimConflict(r) \/ ClaimReplay(r) \/ ClaimTimeout(r)
    \/ Refuse(r) \/ Mutate(r) \/ MarkStarted(r)
    \/ ReadbackFails(r) \/ Record(r) \/ Release(r)

Fail(r) ==
    ClaimRaises(r) \/ MutationRaises(r) \/ RecordRaises(r) \/ ReleaseFails(r) \/ Crash(r)

Next == \E r \in Requests : Serve(r) \/ Fail(r)

Spec == Init /\ [][Next]_vars

\* A worker that is not killed runs its request to the end.
FairSpec == Spec /\ \A r \in Requests : WF_vars(Serve(r))

----------------------------------------------------------------------------
(* Properties                                                              *)

\* At most one request per key ever commits its mutation, whatever retries,
\* duplicates, exceptions and crashes surround it (claim_idempotency and the
\* release rule of application()).
AtMostOneEffect ==
    \A r, s \in applied : Key(r) = Key(s) => r = s

\* A committed mutation keeps its key reserved by the request that made it,
\* so no later request can start a second one.
EffectStaysReserved ==
    \A r \in applied : table[Key(r)] \in {Pending(r), Response(r)}

\* Whoever gets a stored response gets the response of the one request that
\* committed, for the very body it sent.
AnswersNameTheEffect ==
    \A r \in Requests :
        answer[r].kind \in {"response", "replay"} =>
            /\ answer[r].by \in applied
            /\ call[answer[r].by] = call[r]

\* While a worker runs between its claim and its answer, the key is its own.
ExclusiveHandler ==
    \A r, s \in Requests :
        /\ stage[r] \in {"working", "mutated", "started"}
        /\ stage[s] \in {"working", "mutated", "started"}
        /\ Key(r) = Key(s)
        => r = s

\* The row of a key changes only as the contract says: a response once stored
\* is never changed or dropped, and a pending claim is dropped only when the
\* mutation of its owner did not happen.
RowsAreFinal ==
    [][\A k \in Keys :
        /\ table[k] # Free
        /\ table'[k] # table[k]
        => \E r \in Requests :
              /\ table[k] = Pending(r)
              /\ table'[k] = Response(r) \/ (table'[k] = Free /\ r \notin applied)]_vars

\* The mutations that took effect under a key, and the keys with a response.
EffectOf(k) == {r \in applied : Key(r) = k}
StoredKeys == {k \in Keys : table[k] # Free /\ table[k].final}

C == INSTANCE MutationContract WITH
        effect <- [k \in Keys |-> EffectOf(k)],
        stored <- StoredKeys,
        told   <- [r \in Requests |-> answer[r].by]

\* The protocol implements the contract its clients are promised.
ImplementsContract == C!Contract

\* Every request that does not die is answered: no claim, pending for ever or
\* not, makes another request wait for ever (the polling loop has a deadline).
EveryRequestSettles ==
    \A r \in Requests : <>(stage[r] \in {"settled", "dead"})

\* However a request is retried, in parallel or after failures and deaths of
\* its workers, its mutation takes effect once, one worker at a time handles
\* its key, and every answer told is that of the effect.
OneEffectTrulyTold ==
    /\ TypeOK
    /\ AtMostOneEffect
    /\ AnswersNameTheEffect
    /\ ExclusiveHandler
=============================================================================
