---------------------------- MODULE UaiEditClaims ----------------------------
(***************************************************************************)
(* Edit claims on local .uai files (storage.py, *_uai_edit_claim of        *)
(* SQLiteStore, and the handlers of /api/matm/uai-memory/edit-claims):     *)
(* agents take a lease on a path, extend it, and complete or release it;   *)
(* the head of the path has the hash they agree on, a revision number and  *)
(* the claim that is active.                                               *)
(*                                                                         *)
(* Every store call first sweeps: it reads the claims whose lease has run  *)
(* out and marks them expired.  The sweep's SELECT is autocommitted on     *)
(* SQLite, and so are the reads after it when there was nothing to mark;   *)
(* on MySQL (snapshot) it fixes the snapshot of the plain SELECTs, while   *)
(* SELECT FOR UPDATE and UPDATE see the present rows.                      *)
(*                                                                         *)
(* A claim is named by the call that inserts it.                           *)
(***************************************************************************)
EXTENDS Naturals, FiniteSets

CONSTANTS
    Calls,          \* requests to the edit-claim routes
    NoClaim,
    Processes,      \* worker processes of the server
    Deployments,    \* databases and process counts to run with
    Operations,     \* the operations the clients ask for
    Agents, Paths,
    Hashes, NoHash, \* content hashes of the files
    Leases,         \* lease lengths, clamped by _uai_lease_seconds
    Horizon,        \* bound on the clock
    NoRequest, NoView, NoResult

AllOperations == {"acquire", "heartbeat", "complete", "release", "list"}

Request == [op : Operations, agent : Agents, path : Paths, hash : Hashes,
            claim : Calls, lease : Leases, process : Processes]

Statuses == {"none", "active", "completed", "released", "expired"}

\* A host chooses the database (snapshot: MySQL, otherwise SQLite) and how many
\* processes serve.
Deployment == [snapshot : BOOLEAN, processes : SUBSET Processes]

\* matm_uai_edit_claims: what of the row changes; the rest is in the request.
Claim == [status : Statuses, due : Nat, hash : Hashes \cup {NoHash}]

\* matm_uai_collaboration_heads; NoHash while the path is not tracked.
HeadRow == [hash : Hashes \cup {NoHash}, revision : Nat, active : Calls \cup {NoClaim}]

\* What a store call has read: the clock, the overdue claims, the active
\* claims, the head of its path.
View == [now : Nat, overdue : SUBSET Calls, active : SUBSET Calls, head : HeadRow]

\* What the store call of a handler returned, to be found again by readback.
Result == [status : Statuses, head : HeadRow]

Stages == {"idle", "lookup", "operate", "claimRead", "headRead", "claims", "heads", "done"}

ASSUME ConstantsAssumption ==
    /\ Operations \subseteq AllOperations
    /\ Deployments \subseteq Deployment
    /\ Leases \subseteq Nat \ {0}
    /\ Horizon \in Nat
    /\ NoClaim \notin Calls
    /\ NoHash \notin Hashes
    /\ NoRequest \notin Request
    /\ NoView \notin View
    /\ NoResult \notin Result

VARIABLES
    deployment,
    now,
    claim,      \* matm_uai_edit_claims
    head,       \* matm_uai_collaboration_heads
    events,     \* uai_edit_claim.completed events of the outbox
    request,    \* what each call asks for
    stage,      \* where the worker is in the handler
    view,       \* what its store call has read, NoView between store calls
    result,
    answer

tables == <<claim, head, events>>
world == <<deployment, now>>
vars == <<deployment, now, claim, head, events, request, stage, view, result, answer>>

TypeOK ==
    /\ deployment \in Deployments
    /\ now \in Nat
    /\ claim \in [Calls -> Claim]
    /\ head \in [Paths -> HeadRow]
    /\ events \subseteq Calls \X Hashes
    /\ request \in [Calls -> Request \cup {NoRequest}]
    /\ stage \in [Calls -> Stages]
    /\ view \in [Calls -> View \cup {NoView}]
    /\ result \in [Calls -> Result \cup {NoResult}]
    /\ answer \in [Calls -> {"none", "listed", "refused", "confirmed", "problem", "raised"}]

Init ==
    /\ deployment \in Deployments
    /\ now = 0
    /\ claim = [x \in Calls |-> [status |-> "none", due |-> 0, hash |-> NoHash]]
    /\ head = [p \in Paths |-> [hash |-> NoHash, revision |-> 0, active |-> NoClaim]]
    /\ events = {}
    /\ request = [c \in Calls |-> NoRequest]
    /\ stage = [c \in Calls |-> "idle"]
    /\ view = [c \in Calls |-> NoView]
    /\ result = [c \in Calls |-> NoResult]
    /\ answer = [c \in Calls |-> "none"]

----------------------------------------------------------------------------
(* Store calls                                                             *)

InStore(c) == view[c] # NoView

\* Mutated form: the threads of a process do not exclude each other.
UnlockedAlways(p) == TRUE

\* _LOCK: the store calls of one process exclude each other.
Unlocked(p) == \A c \in Calls : InStore(c) => request[c].process # p

Active == {x \in Calls : claim[x].status = "active"}

Overdue == {x \in Active : claim[x].due <= now}

\* What the first SELECT of a store call sees, or fixes for those after it.
Reading(p) == [now |-> now, overdue |-> Overdue, active |-> Active, head |-> head[p]]

PathOf(x) == request[x].path

Target(c) == IF request[c].op = "acquire" THEN c ELSE request[c].claim

Path(c) == PathOf(Target(c))

Goto(c, s) == stage' = [stage EXCEPT ![c] = s]

Say(c, a) ==
    /\ answer' = [answer EXCEPT ![c] = a]
    /\ view' = [view EXCEPT ![c] = NoView]
    /\ result' = [result EXCEPT ![c] = NoResult]
    /\ Goto(c, "done")

\* The requests a client can send now: for a claim, one that it has seen.  What
\* such a request does not carry is its claim's.
Requests(c) ==
    {q \in Request :
        /\ q.process \in deployment.processes
        /\ IF q.op = "acquire" THEN q.claim = c
           ELSE /\ claim[q.claim].status # "none"
                /\ q.path = PathOf(q.claim)
                /\ q.op # "complete" => q.hash = request[q.claim].hash}

\* A request comes, and its first store call starts.
Start(c) ==
    /\ stage[c] = "idle"
    /\ \E q \in Requests(c) :
          /\ Unlocked(q.process)
          /\ request' = [request EXCEPT ![c] = q]
          /\ view' = [view EXCEPT ![c] =
                Reading(IF q.op = "acquire" THEN q.path ELSE PathOf(q.claim))]
          /\ Goto(c, IF q.op = "acquire" THEN "operate" ELSE "lookup")
    /\ UNCHANGED <<world, tables, result, answer>>

\* The next store call of the handler starts.
Open(c) ==
    /\ stage[c] \in {"operate", "claims", "heads"}
    /\ ~InStore(c)
    /\ Unlocked(request[c].process)
    /\ view' = [view EXCEPT ![c] = Reading(Path(c))]
    /\ UNCHANGED <<world, tables, request, stage, result, answer>>

\* A statement raises (a lost connection, a lock timeout): rolled back.
Raise(c) ==
    /\ InStore(c)
    /\ Say(c, "raised")
    /\ UNCHANGED <<world, tables, request>>

\* _expire_uai_edit_claims_sql: the UPDATEs for the rows that were read.
SweptClaims(c) ==
    [x \in Calls |-> IF x \in view[c].overdue \cap Active
                     THEN [claim[x] EXCEPT !.status = "expired"] ELSE claim[x]]

SweptHeads(c) ==
    [p \in Paths |-> IF head[p].active \in view[c].overdue
                     THEN [head[p] EXCEPT !.active = NoClaim] ELSE head[p]]

----------------------------------------------------------------------------
(* uai_edit_claims, and the handlers that look a claim up before they act  *)

Lookup(c) ==
    /\ stage[c] = "lookup"
    /\ claim' = SweptClaims(c)
    /\ head' = SweptHeads(c)
    /\ IF request[c].op = "list" THEN Say(c, "listed")
       ELSE IF request[c].agent # request[request[c].claim].agent THEN Say(c, "refused")
       ELSE /\ view' = [view EXCEPT ![c] = NoView]
            /\ Goto(c, "operate")
            /\ UNCHANGED <<result, answer>>
    /\ UNCHANGED <<world, events, request>>

\* Autocommitted reads: nothing was swept, so there is no transaction yet.
ReadClaim(c) ==
    /\ stage[c] = "operate"
    /\ InStore(c)
    /\ request[c].op # "acquire"
    /\ ~deployment.snapshot /\ view[c].overdue = {}
    /\ view' = [view EXCEPT ![c].active = Active]
    /\ Goto(c, "claimRead")
    /\ UNCHANGED <<world, tables, request, result, answer>>

ReadHead(c) ==
    /\ stage[c] = "claimRead"
    /\ view' = [view EXCEPT ![c].head = head[Path(c)]]
    /\ Goto(c, "headRead")
    /\ UNCHANGED <<world, tables, request, result, answer>>

\* The call has read what it needs and goes on in one transaction.
Ready(c) ==
    \/ stage[c] = "headRead"
    \/ /\ stage[c] = "operate"
       /\ InStore(c)
       /\ request[c].op = "acquire" \/ deployment.snapshot \/ view[c].overdue # {}

\* The transaction returns what the handler is to confirm.
Return(c, status, row) ==
    /\ result' = [result EXCEPT ![c] = [status |-> status, head |-> row]]
    /\ view' = [view EXCEPT ![c] = NoView]
    /\ Goto(c, "claims")
    /\ UNCHANGED answer

----------------------------------------------------------------------------
(* acquire_uai_edit_claim                                                  *)

\* The head, inserted with the caller's hash if the path was not tracked.
TrackedHead(c) ==
    LET h == SweptHeads(c)[request[c].path] IN
    IF h.hash = NoHash THEN [hash |-> request[c].hash, revision |-> 0, active |-> NoClaim] ELSE h

\* The head is read FOR UPDATE, the row of its claim is not.
ClaimSeenActive(c) ==
    TrackedHead(c).active \in
        IF deployment.snapshot THEN view[c].active ELSE {x \in Calls : SweptClaims(c)[x].status = "active"}

\* Project or agent is missing, or the head is claimed, has another hash, or
\* the quota is used up.  What was written so far is committed.
RefuseAcquire(c) ==
    /\ Ready(c)
    /\ request[c].op = "acquire"
    /\ claim' = SweptClaims(c)
    /\ \/ head' = SweptHeads(c)
       \/ head' = [SweptHeads(c) EXCEPT ![request[c].path] = TrackedHead(c)]
    /\ Say(c, "refused")
    /\ UNCHANGED <<world, events, request>>

\* The claim of the head is not active, and the caller has the head's hash.
MayInsert(c) ==
    /\ Ready(c)
    /\ request[c].op = "acquire"
    /\ ~ClaimSeenActive(c)
    /\ TrackedHead(c).hash = request[c].hash

InsertedClaims(c) ==
    [SweptClaims(c) EXCEPT ![c] =
        [status |-> "active", due |-> view[c].now + request[c].lease, hash |-> NoHash]]

GrantAcquire(c) ==
    LET row == [TrackedHead(c) EXCEPT !.active = c] IN
    /\ MayInsert(c)
    /\ TrackedHead(c).active = NoClaim
    /\ claim' = InsertedClaims(c)
    /\ head' = [SweptHeads(c) EXCEPT ![request[c].path] = row]
    /\ Return(c, "active", row)
    /\ UNCHANGED <<world, events, request>>

\* The UPDATE ... WHERE active_claim_id IS NULL matches nothing, and the
\* early return commits the claim that was inserted before it.
LoseAcquire(c) ==
    /\ MayInsert(c)
    /\ TrackedHead(c).active # NoClaim
    /\ claim' = InsertedClaims(c)
    /\ head' = SweptHeads(c)
    /\ Say(c, "refused")
    /\ UNCHANGED <<world, events, request>>

----------------------------------------------------------------------------
(* heartbeat, complete, release                                            *)

\* Mutated form: the SELECT of the claim takes no lock on MySQL.
TargetSeenActiveUnlocked(c) == Target(c) \in view[c].active

\* The claim is read FOR UPDATE, or in the transaction of the sweep, or before.
TargetSeenActive(c) ==
    IF stage[c] = "headRead" THEN Target(c) \in view[c].active
    ELSE SweptClaims(c)[Target(c)].status = "active"

SeenHead(c) ==
    IF stage[c] = "headRead" \/ deployment.snapshot THEN view[c].head ELSE SweptHeads(c)[Path(c)]

MayChange(c) ==
    /\ TargetSeenActive(c)
    /\ SeenHead(c).active = Target(c)
    /\ request[c].op = "complete" => SeenHead(c).hash = request[Target(c)].hash

\* UPDATE ... WHERE claim_id = ? AND status = 'active'.
ChangedClaims(c, row) ==
    [SweptClaims(c) EXCEPT ![Target(c)] = IF @.status = "active" THEN row ELSE @]

\* Mutated form: the head is updated whatever its active claim is.
ChangedHeadsAnyClaim(c, row) == [SweptHeads(c) EXCEPT ![Path(c)] = row]

\* UPDATE ... WHERE head_id = ? AND active_claim_id = ?.
ChangedHeads(c, row) ==
    [SweptHeads(c) EXCEPT ![Path(c)] = IF @.active = Target(c) THEN row ELSE @]

\* The claim is not active, its head has another claim or another hash: what
\* the sweep wrote is committed.
RefuseChange(c) ==
    /\ Ready(c)
    /\ request[c].op # "acquire"
    /\ ~MayChange(c)
    /\ claim' = SweptClaims(c)
    /\ head' = SweptHeads(c)
    /\ Say(c, "refused")
    /\ UNCHANGED <<world, events, request>>

\* The head's copy of the lease follows the claim and is left out.
Heartbeat(c) ==
    /\ Ready(c)
    /\ request[c].op = "heartbeat"
    /\ MayChange(c)
    /\ claim' = ChangedClaims(c,
          [status |-> "active", due |-> view[c].now + request[c].lease, hash |-> NoHash])
    /\ head' = SweptHeads(c)
    /\ Return(c, "active", SeenHead(c))
    /\ UNCHANGED <<world, events, request>>

Complete(c) ==
    LET row == [hash |-> request[c].hash, revision |-> SeenHead(c).revision + 1,
                active |-> NoClaim]
    IN
    /\ Ready(c)
    /\ request[c].op = "complete"
    /\ MayChange(c)
    /\ claim' = ChangedClaims(c, [SweptClaims(c)[Target(c)] EXCEPT
                                     !.status = "completed", !.hash = request[c].hash])
    /\ head' = ChangedHeads(c, row)
    /\ events' = events \cup {<<Target(c), request[c].hash>>}
    /\ Return(c, "completed", row)
    /\ UNCHANGED <<world, request>>

Release(c) ==
    LET row == [SeenHead(c) EXCEPT !.active = NoClaim] IN
    /\ Ready(c)
    /\ request[c].op = "release"
    /\ MayChange(c)
    /\ claim' = ChangedClaims(c, [SweptClaims(c)[Target(c)] EXCEPT !.status = "released"])
    /\ head' = ChangedHeads(c, row)
    /\ Return(c, "released", row)
    /\ UNCHANGED <<world, events, request>>

----------------------------------------------------------------------------
(* _uai_claim_readback_visible                                             *)

\* The claim is in the list with the status that was returned.
FoundClaim(c) ==
    IF deployment.snapshot /\ result[c].status = "active"
    THEN Target(c) \in view[c].active \ view[c].overdue
    ELSE SweptClaims(c)[Target(c)].status = result[c].status

ConfirmClaim(c) ==
    /\ stage[c] = "claims"
    /\ InStore(c)
    /\ claim' = SweptClaims(c)
    /\ head' = SweptHeads(c)
    /\ result' = IF FoundClaim(c) THEN result ELSE [result EXCEPT ![c].status = "none"]
    /\ view' = [view EXCEPT ![c] = NoView]
    /\ Goto(c, "heads")
    /\ UNCHANGED <<world, events, request, answer>>

\* The head is as it was returned: hash, revision and active claim.
FoundHead(c) ==
    result[c].head =
        IF ~deployment.snapshot \/ view[c].head.active \in view[c].overdue
        THEN SweptHeads(c)[Path(c)] ELSE view[c].head

ConfirmHead(c) ==
    /\ stage[c] = "heads"
    /\ InStore(c)
    /\ claim' = SweptClaims(c)
    /\ head' = SweptHeads(c)
    /\ Say(c, IF result[c].status # "none" /\ FoundHead(c) THEN "confirmed" ELSE "problem")
    /\ UNCHANGED <<world, events, request>>

----------------------------------------------------------------------------
Tick ==
    /\ now < Horizon
    /\ now' = now + 1
    /\ UNCHANGED <<deployment, tables, request, stage, view, result, answer>>

Step(c) ==
    \/ Start(c) \/ Open(c) \/ Raise(c)
    \/ Lookup(c) \/ ReadClaim(c) \/ ReadHead(c)
    \/ RefuseAcquire(c) \/ GrantAcquire(c) \/ LoseAcquire(c)
    \/ RefuseChange(c) \/ Heartbeat(c) \/ Complete(c) \/ Release(c)
    \/ ConfirmClaim(c) \/ ConfirmHead(c)

Next == Tick \/ \E c \in Calls : Step(c)

Spec == Init /\ [][Next]_vars

----------------------------------------------------------------------------
(* Properties                                                              *)

ActiveOn(p) == {x \in Active : PathOf(x) = p}

OneProcess == \A p, q \in deployment.processes : p = q

\* At most one claim on a path is active, and the head names it; a head names
\* no claim that is closed: on SQLite, where every operation writes both tables
\* in one transaction that has read them, and where one process makes the calls.
HeadsNameTheActiveClaim ==
    ~deployment.snapshot \/ OneProcess =>
        \A p \in Paths :
            ActiveOn(p) = IF head[p].active = NoClaim THEN {} ELSE {head[p].active}

\* The half of it that holds on MySQL too: what a head names is an active claim
\* on its path.
NamedClaimsAreActive ==
    \A p \in Paths : head[p].active # NoClaim => head[p].active \in ActiveOn(p)

\* The two tables agree: what a head names is active, and where the reads of an
\* acquire are of one state, nothing else on the path is.
HeadsAgreeWithClaims == HeadsNameTheActiveClaim /\ NamedClaimsAreActive

\* Every completed claim has advanced its head by one revision, and nothing
\* else has: no completion is lost or counted twice.
RevisionsCountCompletions ==
    \A p \in Paths :
        head[p].revision =
            Cardinality({x \in Calls : claim[x].status = "completed" /\ PathOf(x) = p})

\* A head's hash is replaced only by the completion of the claim it named,
\* and only if it still was the hash that claim was based on.
CompletionsCompareAndSwap ==
    [][\A p \in Paths :
          /\ head[p].hash # NoHash
          /\ head'[p].hash # head[p].hash \/ head'[p].revision # head[p].revision
          => LET x == head[p].active IN
             /\ x \in Active
             /\ request[x].hash = head[p].hash
             /\ claim'[x] = [claim[x] EXCEPT !.status = "completed", !.hash = head'[p].hash]
             /\ head'[p].revision = head[p].revision + 1]_vars

\* A closed claim stays as it is, whatever late call still refers to it.
ClosedForGood ==
    [][\A x \in Calls :
          claim[x].status \in {"completed", "released", "expired"} => claim'[x] = claim[x]]_vars

\* A confirmed change is in the tables: the readback tells a call that lost a
\* race from one that won it.
ConfirmedChangesHappened ==
    \A c \in Calls :
        answer[c] = "confirmed" =>
            CASE request[c].op = "complete" ->
                    claim[Target(c)].status = "completed" /\ claim[Target(c)].hash = request[c].hash
              [] request[c].op = "release" -> claim[Target(c)].status = "released"
              [] OTHER -> claim[Target(c)].status # "none"

\* A path is granted while the lease of another claim on it has not run out,
\* and that was not completed or released.
GrantedInLease(p) ==
    /\ head'[p].active \notin {NoClaim, head[p].active}
    /\ \E x \in Calls \ {head'[p].active} :
          /\ claim[x].status \in {"active", "expired"}
          /\ PathOf(x) = p
          /\ claim[x].due > now

\* No path is granted during another's lease where one process, with its lock,
\* makes all the calls.
LeasesAreHonoured == [][OneProcess => \A p \in Paths : ~GrantedInLease(p)]_vars

\* Events of completions that did not take place, or not with that hash.
FalseEvents ==
    {e \in events : claim[e[1]].status # "completed" \/ claim[e[1]].hash # e[2]}

\* A completion in the outbox is one that took place: on MySQL, which locks the
\* row of the claim, and where one process makes all the calls.
EventsAreTrue == deployment.snapshot \/ OneProcess => FalseEvents = {}

\* The tables of claims, heads and events tell one story, with whichever
\* database and however many processes the parts hold for.
TablesAgree ==
    /\ TypeOK
    /\ HeadsAgreeWithClaims
    /\ RevisionsCountCompletions
    /\ ConfirmedChangesHappened
    /\ EventsAreTrue

\* A completion is a compare-and-swap, and it happens to a claim once.
ClosedByCompareAndSwap == CompletionsCompareAndSwap /\ ClosedForGood
=============================================================================
