----------------------------- MODULE AgentAccess -----------------------------
(***************************************************************************)
(* The credentials of the agents of one company (storage.py, SQLiteStore): *)
(* requests for a name and a scope, one-time invitations, tokens with      *)
(* their grants, replacement of a token by a successor, and the lifecycle  *)
(* of the company, which cuts across all of them.                          *)
(*                                                                         *)
(* A store call reads, decides, then writes in one transaction.  _LOCK     *)
(* excludes the other threads of its process, not the other processes.     *)
(* `held' is what a process has decided and not yet written.  Calls whose  *)
(* writes repeat what they read in a WHERE clause, and roll back when it   *)
(* no longer matches, are one step, as is a redemption, which takes the    *)
(* database's write lock before it reads.                                  *)
(*                                                                         *)
(* Ids are fresh; those of consumed intents are used again when no call    *)
(* refers to them.  Idempotency keys are left out: in these calls a known  *)
(* key only turns a call into an answer that changes nothing.              *)
(***************************************************************************)
EXTENDS Naturals

CONSTANTS
    Requests, NoRequest,    \* access requests
    Names, NoName,          \* normalised agent names
    Tokens, NoToken,        \* agent tokens, each with its grant
    Intents, NoIntent,      \* company closure intents
    Callers,                \* holders of a company master credential
    Processes,              \* processes that may serve the store
    Deployments,            \* which of them do, with the bounds for each choice:
                            \* the requests made, the tokens issued, the purposes
                            \* of closure
    MaxRounds               \* bound on the invitations issued for a request

Request == [status : {"none", "pending", "approved", "denied"},
            name : Names \cup {NoName},
            supersedes : Tokens \cup {NoToken},
            transfer : Tokens \cup {NoToken}]

\* One row per request: a new invitation replaces one that was revoked or
\* that expired.  round tells them apart, lapsed says expires_at has passed.
Invite == [status : {"none", "issued", "redeemed", "revoked", "expired"},
           round : Nat, lapsed : BOOLEAN, token : Tokens \cup {NoToken}]

\* A token and its grant: the status of the grant, activated_at, revoked_at
\* of the token, predecessor_token_id, and the request it was redeemed for.
Grants == {"none", "pending_activation", "active", "superseded", "revoked",
           "expired", "cancelled"}

Token == [grant : Grants, activated : BOOLEAN, dead : BOOLEAN,
          name : Names \cup {NoName}, pred : Tokens \cup {NoToken},
          request : Requests \cup {NoRequest}]

\* A replacement, under its successor.
Outcomes == {"none", "prepared", "confirmed", "canceled", "expired"}

Replacement == [status : Outcomes, lapsed : BOOLEAN]

CompanyStatus == {"active", "closed", "soft_deleted", "purged"}

Company == [status : CompanyStatus, pre_delete_status : CompanyStatus \cup {"none"},
            masters : BOOLEAN]

Purposes == {"close", "soft_delete", "permanent_purge"}

Intent == [purpose : Purposes \cup {"none"}, status : {"none", "pending"}]

Operations == Purposes \cup {"none", "request", "approved", "denied", "issue", "prepare",
                             "confirm", "canceled", "expired", "restore"}

Decision ==
    {d \in [op : Operations, request : Requests \cup {NoRequest}, round : Nat,
            name : Names \cup {NoName}, token : Tokens \cup {NoToken},
            from : Tokens \cup {NoToken}, intent : Intents \cup {NoIntent},
            status : CompanyStatus \cup {"none"}] :
        /\ d.op \in {"approved", "denied", "issue"} => d.request \in Requests
        /\ d.op \in {"prepare", "confirm", "canceled", "expired"} => d.token \in Tokens
        /\ d.op \in {"soft_delete", "restore"} => d.status # "none"}

ASSUME ConstantsAssumption ==
    /\ NoRequest \notin Requests
    /\ NoName \notin Names
    /\ NoToken \notin Tokens
    /\ NoIntent \notin Intents
    /\ Deployments \subseteq [processes : SUBSET Processes, requests : SUBSET Requests,
                              tokens : SUBSET Tokens, purposes : SUBSET Purposes]
    /\ MaxRounds \in Nat

VARIABLES
    company,
    intent,
    request,
    identity,       \* the names that have an identity
    invite,         \* by request
    token,
    replacement,    \* by successor
    caller,         \* the callers whose master credential was accepted
    deployment,
    held            \* what each process has decided to write

rows == <<request, identity, invite, token, replacement>>
vars == <<company, intent, request, identity, invite, token, replacement,
          caller, deployment, held>>

NoRow == [request |-> [status |-> "none", name |-> NoName,
                       supersedes |-> NoToken, transfer |-> NoToken],
          invite |-> [status |-> "none", round |-> 0, lapsed |-> FALSE, token |-> NoToken],
          token |-> [grant |-> "none", activated |-> FALSE, dead |-> FALSE,
                     name |-> NoName, pred |-> NoToken, request |-> NoRequest],
          replacement |-> [status |-> "none", lapsed |-> FALSE],
          intent |-> [purpose |-> "none", status |-> "none"]]

Free == [op |-> "none", request |-> NoRequest, round |-> 0, name |-> NoName,
         token |-> NoToken, from |-> NoToken, intent |-> NoIntent, status |-> "none"]

Init ==
    /\ company = [status |-> "active", pre_delete_status |-> "none", masters |-> TRUE]
    /\ intent = [i \in Intents |-> NoRow.intent]
    /\ request = [r \in Requests |-> NoRow.request]
    /\ identity = {}
    /\ invite = [r \in Requests |-> NoRow.invite]
    /\ token = [t \in Tokens |-> NoRow.token]
    /\ replacement = [t \in Tokens |-> NoRow.replacement]
    /\ caller = {}
    /\ deployment \in Deployments
    /\ held = [p \in Processes |-> Free]

workers == deployment.processes

\* authenticate_agent_token, save for the status of the company.
Live(t) == token[t].grant = "active" /\ ~token[t].dead

Known(t) == token[t].grant # "none"

\* Two updates: the token is revoked, and its grant moves if it is still `from'.
Ended(t, from, to) ==
    [token[t] EXCEPT !.dead = TRUE, !.grant = IF @ = from THEN to ELSE @]

\* Process p may enter the store: no thread of it is inside.
Unlocked(p) == p \in workers /\ held[p] = Free

Leave(p) == held' = [held EXCEPT ![p] = Free]

-----------------------------------------------------------------------------
(* The master credential is verified in a store call of its own, before    *)
(* the call it is for.                                                      *)

AuthenticateMaster(c) ==
    /\ \E p \in workers : Unlocked(p)
    /\ company.status = "active"
    /\ company.masters
    /\ caller' = caller \cup {c}
    /\ UNCHANGED <<company, intent, rows, deployment, held>>

\* Caller c, verified before, acts on process p.
Acts(c, p) == /\ c \in caller
              /\ Unlocked(p)
              /\ caller' = caller \ {c}

-----------------------------------------------------------------------------
(* Access requests.                                                        *)

Referenced(n, old, from) ==
    /\ \A t \in {old, from} \ {NoToken} : Known(t) /\ token[t].name = n
    /\ old # NoToken => Live(old)

NameFree(n) ==
    /\ n \notin identity
    /\ \A r \in Requests : request[r].status \in {"pending", "approved"} => request[r].name # n

ReadRequest(c, p, n, old, from) ==
    /\ Acts(c, p)
    /\ company.status # "purged"
    /\ Referenced(n, old, from)
    /\ (old = NoToken /\ from = NoToken) => NameFree(n)
    /\ held' = [held EXCEPT ![p] = [Free EXCEPT !.op = "request", !.name = n,
                                                !.token = old, !.from = from]]
    /\ UNCHANGED <<company, intent, rows, deployment>>

RequestAccess(p, r) ==
    /\ held[p].op = "request"
    /\ company.status # "purged"
    /\ r \in deployment.requests
    /\ request[r].status = "none"
    /\ request' = [request EXCEPT ![r] = [status |-> "pending", name |-> held[p].name,
                                          supersedes |-> held[p].token,
                                          transfer |-> held[p].from]]
    /\ Leave(p)
    /\ UNCHANGED <<company, intent, identity, invite, token, replacement, caller, deployment>>

ReadDecide(c, p, r, decision) ==
    /\ Acts(c, p)
    /\ request[r].status = "pending"
    /\ held' = [held EXCEPT ![p] = [Free EXCEPT !.op = decision, !.request = r,
                                                !.name = request[r].name]]
    /\ UNCHANGED <<company, intent, rows, deployment>>

\* The identity is inserted before the request is found to be decided.
Decide(p) ==
    LET r == held[p].request IN
    /\ held[p].op \in {"approved", "denied"}
    /\ company.status # "purged"
    /\ identity' = identity \cup (IF held[p].op = "approved" THEN {held[p].name} ELSE {})
    /\ request' = IF request[r].status = "pending"
                  THEN [request EXCEPT ![r].status = held[p].op] ELSE request
    /\ Leave(p)
    /\ UNCHANGED <<company, intent, invite, token, replacement, caller, deployment>>

-----------------------------------------------------------------------------
(* Invitations.                                                            *)

Issuable(r) ==
    \/ invite[r].status \in {"none", "revoked", "expired"}
    \/ invite[r].status = "issued" /\ invite[r].lapsed

\* The entry room of an invitation is sought in an active workspace, and
\* workspaces have the status of their company.
EntryAvailable == company.status = "active"

ReadIssue(c, p, r) ==
    /\ Acts(c, p)
    /\ request[r].status = "approved"
    /\ request[r].name \in identity
    /\ Issuable(r)
    /\ EntryAvailable
    /\ invite[r].round < MaxRounds
    /\ held' = [held EXCEPT ![p] = [Free EXCEPT !.op = "issue", !.request = r,
                                                !.round = invite[r].round]]
    /\ UNCHANGED <<company, intent, rows, deployment>>

\* An overdue invitation is closed even when no new one can be issued.
ExpireOnIssue(c, p, r) ==
    /\ Acts(c, p)
    /\ request[r].status = "approved"
    /\ invite[r].status = "issued"
    /\ invite[r].lapsed
    /\ invite' = [invite EXCEPT ![r].status = "expired"]
    /\ UNCHANGED <<company, intent, request, identity, token, replacement, deployment, held>>

\* The prior invitation is replaced by id and status: one issued since the
\* read makes the call raise.
IssueInvite(p) ==
    LET r == held[p].request IN
    /\ held[p].op = "issue"
    /\ company.status # "purged"
    /\ invite' = IF invite[r].round = held[p].round /\ Issuable(r)
                 THEN [invite EXCEPT ![r] = [status |-> "issued", round |-> @.round + 1,
                                             lapsed |-> FALSE, token |-> NoToken]]
                 ELSE invite
    /\ Leave(p)
    /\ UNCHANGED <<company, intent, request, identity, token, replacement, caller, deployment>>

LapseInvite(r) ==
    /\ invite[r].status = "issued"
    /\ ~invite[r].lapsed
    /\ invite' = [invite EXCEPT ![r].lapsed = TRUE]
    /\ UNCHANGED <<company, intent, request, identity, token, replacement,
                   caller, deployment, held>>

RevokeInvite(c, p, r) ==
    /\ Acts(c, p)
    /\ invite[r].status = "issued"
    /\ invite' = [invite EXCEPT ![r].status = "revoked"]
    /\ UNCHANGED <<company, intent, request, identity, token, replacement, deployment, held>>

ExpireOnRedeem(p, r) ==
    /\ Unlocked(p)
    /\ invite[r].status = "issued"
    /\ invite[r].lapsed
    /\ invite' = [invite EXCEPT ![r].status = "expired"]
    /\ UNCHANGED <<company, intent, request, identity, token, replacement,
                   caller, deployment, held>>

\* Mutated form: it is enough that the predecessor exists.
SupersedableIfKnown(old, n) == old # NoToken => Known(old) /\ token[old].name = n

\* The predecessor of a redemption must still be usable and is revoked.
Supersedable(old, n) == old # NoToken => Live(old) /\ token[old].name = n

Superseded(old, grant) ==
    [t \in Tokens |-> IF t = old THEN Ended(t, "active", grant) ELSE token[t]]

\* t is the id of the token the client proposes.
Redeem(p, r, t) ==
    LET old == request[r].supersedes IN
    /\ Unlocked(p)
    /\ invite[r].status = "issued"
    /\ ~invite[r].lapsed
    /\ request[r].status = "approved"
    /\ request[r].name \in identity
    /\ Supersedable(old, request[r].name)
    /\ t \in deployment.tokens
    /\ ~Known(t)
    /\ invite' = [invite EXCEPT ![r].status = "redeemed", ![r].token = t]
    /\ token' = [Superseded(old, "revoked") EXCEPT
                   ![t] = [grant |-> "active", activated |-> TRUE, dead |-> FALSE,
                           name |-> request[r].name, pred |-> old, request |-> r]]
    /\ UNCHANGED <<company, intent, request, identity, replacement, caller, deployment, held>>

RevokeToken(c, p, t) ==
    /\ Acts(c, p)
    /\ Known(t)
    /\ ~token[t].dead
    /\ token' = Superseded(t, "revoked")
    /\ UNCHANGED <<company, intent, request, identity, invite, replacement, deployment, held>>

-----------------------------------------------------------------------------
(* Replacement of a token by its human administrators.                     *)

Prepared(t) == {s \in Tokens : replacement[s].status = "prepared" /\ token[s].pred = t}

ReadPrepare(p, t, overdue) ==
    /\ Unlocked(p)
    /\ Live(t)
    /\ IF Prepared(t) = {} THEN overdue = NoToken
       ELSE overdue \in Prepared(t) /\ replacement[overdue].lapsed
    /\ held' = [held EXCEPT ![p] = [Free EXCEPT !.op = "prepare", !.token = t,
                                                !.from = overdue]]
    /\ UNCHANGED <<company, intent, rows, caller, deployment>>

\* The writes that end the pending successor s.
DroppedToken(s, grant) ==
    [t \in Tokens |-> IF t = s THEN Ended(t, "pending_activation", grant) ELSE token[t]]

DroppedReplacement(s, status) ==
    [t \in Tokens |-> IF t = s /\ replacement[t].status = "prepared"
                      THEN [replacement[t] EXCEPT !.status = status]
                      ELSE replacement[t]]

Prepare(p, s) ==
    LET t == held[p].token IN
    /\ held[p].op = "prepare"
    /\ company.status # "purged"
    /\ s \in deployment.tokens
    /\ ~Known(s)
    /\ token' = [DroppedToken(held[p].from, "expired") EXCEPT
                   ![s] = [grant |-> "pending_activation", activated |-> FALSE,
                           dead |-> FALSE, name |-> token[t].name, pred |-> t,
                           request |-> NoRequest]]
    /\ replacement' = [DroppedReplacement(held[p].from, "expired") EXCEPT
                         ![s] = [status |-> "prepared", lapsed |-> FALSE]]
    /\ Leave(p)
    /\ UNCHANGED <<company, intent, request, identity, invite, caller, deployment>>

LapseReplacement(s) ==
    /\ replacement[s].status = "prepared"
    /\ ~replacement[s].lapsed
    /\ replacement' = [replacement EXCEPT ![s].lapsed = TRUE]
    /\ UNCHANGED <<company, intent, request, identity, invite, token,
                   caller, deployment, held>>

\* Mutated form: the predecessor is not looked at.
ReadConfirmAnyPredecessor(p, s) ==
    /\ Unlocked(p)
    /\ replacement[s].status = "prepared"
    /\ ~replacement[s].lapsed
    /\ held' = [held EXCEPT ![p] = [Free EXCEPT !.op = "confirm", !.token = s]]
    /\ UNCHANGED <<company, intent, rows, caller, deployment>>

\* The proof shows the secret of the successor, not that it is unrevoked.
ReadConfirm(p, s) ==
    /\ Unlocked(p)
    /\ replacement[s].status = "prepared"
    /\ ~replacement[s].lapsed
    /\ Live(token[s].pred)
    /\ held' = [held EXCEPT ![p] = [Free EXCEPT !.op = "confirm", !.token = s]]
    /\ UNCHANGED <<company, intent, rows, caller, deployment>>

Confirm(p) ==
    LET s == held[p].token IN
    /\ held[p].op = "confirm"
    /\ token[s].grant = "pending_activation"
    /\ token' = [Superseded(token[s].pred, "superseded") EXCEPT
                   ![s].grant = "active", ![s].activated = TRUE]
    /\ replacement' = DroppedReplacement(s, "confirmed")
    /\ Leave(p)
    /\ UNCHANGED <<company, intent, request, identity, invite, caller, deployment>>

\* Another process was faster: no row matches and nothing is written.
ConfirmLost(p) ==
    /\ held[p].op = "confirm"
    /\ token[held[p].token].grant # "pending_activation"
    /\ Leave(p)
    /\ UNCHANGED <<company, intent, rows, caller, deployment>>

ReadCancel(p, s) ==
    /\ Unlocked(p)
    /\ replacement[s].status = "prepared"
    /\ Live(token[s].pred)
    /\ held' = [held EXCEPT ![p] = [Free EXCEPT !.op = "canceled", !.token = s]]
    /\ UNCHANGED <<company, intent, rows, caller, deployment>>

\* The status call and the confirm call close what is overdue.
ReadExpire(p, s) ==
    /\ Unlocked(p)
    /\ replacement[s].status = "prepared"
    /\ replacement[s].lapsed
    /\ held' = [held EXCEPT ![p] = [Free EXCEPT !.op = "expired", !.token = s]]
    /\ UNCHANGED <<company, intent, rows, caller, deployment>>

Drop(p) ==
    LET s == held[p].token IN
    /\ held[p].op \in {"canceled", "expired"}
    /\ company.status # "purged"
    /\ token' = DroppedToken(s, IF held[p].op = "canceled" THEN "cancelled" ELSE "expired")
    /\ replacement' = DroppedReplacement(s, held[p].op)
    /\ Leave(p)
    /\ UNCHANGED <<company, intent, request, identity, invite, caller, deployment>>

-----------------------------------------------------------------------------
(* The lifecycle of the company, by its human owners.                      *)

CreateIntent(p, i, purpose) ==
    /\ Unlocked(p)
    /\ company.status # "purged"
    /\ purpose \in deployment.purposes
    /\ purpose = "permanent_purge" => company.status \in {"closed", "soft_deleted"}
    /\ intent[i].status = "none"
    /\ \A q \in workers : held[q].intent # i
    /\ intent' = [intent EXCEPT ![i] = [purpose |-> purpose, status |-> "pending"]]
    /\ UNCHANGED <<company, rows, caller, deployment, held>>

ReadIntent(p, i) ==
    /\ Unlocked(p)
    /\ intent[i].status = "pending"
    /\ intent[i].purpose = "permanent_purge" => company.status \in {"closed", "soft_deleted"}
    /\ held' = [held EXCEPT ![p] = [Free EXCEPT !.op = intent[i].purpose, !.intent = i,
                                                !.status = company.status]]
    /\ UNCHANGED <<company, intent, rows, caller, deployment>>

\* A consumed intent is refused as one that never was.
Consume(i) == intent' = [intent EXCEPT ![i] = NoRow.intent]

\* Mutated form: open invitations are left to expire.
CloseTokensOnly(p) ==
    /\ held[p].op = "close"
    /\ company.status # "purged"
    /\ company' = [company EXCEPT !.status = "closed", !.masters = FALSE]
    /\ token' = [t \in Tokens |->
                   IF Known(t) THEN Ended(t, "active", "revoked") ELSE token[t]]
    /\ Consume(held[p].intent)
    /\ Leave(p)
    /\ UNCHANGED <<request, identity, invite, replacement, caller, deployment>>

Close(p) ==
    /\ held[p].op = "close"
    /\ company.status # "purged"
    /\ company' = [company EXCEPT !.status = "closed", !.masters = FALSE]
    /\ token' = [t \in Tokens |->
                   IF Known(t) THEN Ended(t, "active", "revoked") ELSE token[t]]
    /\ invite' = [r \in Requests |->
                    IF invite[r].status = "issued"
                    THEN [invite[r] EXCEPT !.status = "revoked"] ELSE invite[r]]
    /\ Consume(held[p].intent)
    /\ Leave(p)
    /\ UNCHANGED <<request, identity, replacement, caller, deployment>>

SoftDelete(p) ==
    /\ held[p].op = "soft_delete"
    /\ company.status # "purged"
    /\ company' = [company EXCEPT !.status = "soft_deleted",
                                  !.pre_delete_status = held[p].status]
    /\ Consume(held[p].intent)
    /\ Leave(p)
    /\ UNCHANGED <<rows, caller, deployment>>

ReadRestore(p) ==
    /\ Unlocked(p)
    /\ company.status = "soft_deleted"
    /\ held' = [held EXCEPT ![p] = [Free EXCEPT !.op = "restore",
                    !.status = IF company.pre_delete_status = "none" THEN "active"
                               ELSE company.pre_delete_status]]
    /\ UNCHANGED <<company, intent, rows, caller, deployment>>

Restore(p) ==
    /\ held[p].op = "restore"
    /\ company.status # "purged"
    /\ company' = [company EXCEPT !.status = held[p].status, !.pre_delete_status = "none"]
    /\ Leave(p)
    /\ UNCHANGED <<intent, rows, caller, deployment>>

\* Everything of the company is deleted.
Purge(p) ==
    /\ held[p].op = "permanent_purge"
    /\ company' = [status |-> "purged", pre_delete_status |-> "none", masters |-> FALSE]
    /\ intent' = [i \in Intents |-> NoRow.intent]
    /\ request' = [r \in Requests |-> NoRow.request]
    /\ identity' = {}
    /\ invite' = [r \in Requests |-> NoRow.invite]
    /\ token' = [t \in Tokens |-> NoRow.token]
    /\ replacement' = [t \in Tokens |-> NoRow.replacement]
    /\ Leave(p)
    /\ UNCHANGED <<caller, deployment>>

\* A call that had decided before the purge: its updates match no row and
\* its inserts refer to none.
FindNothing(p) ==
    /\ held[p].op \notin {"none", "confirm", "permanent_purge"}
    /\ company.status = "purged"
    /\ Leave(p)
    /\ UNCHANGED <<company, intent, rows, caller, deployment>>

-----------------------------------------------------------------------------
MasterStep(c, p) ==
    \/ \E n \in Names, old, from \in Tokens \cup {NoToken} : ReadRequest(c, p, n, old, from)
    \/ \E r \in Requests, d \in {"approved", "denied"} : ReadDecide(c, p, r, d)
    \/ \E r \in Requests : \/ ReadIssue(c, p, r)
                           \/ ExpireOnIssue(c, p, r)
                           \/ RevokeInvite(c, p, r)
    \/ \E t \in Tokens : RevokeToken(c, p, t)

InviteStep(p) ==
    \/ \E r \in Requests : RequestAccess(p, r) \/ ExpireOnRedeem(p, r)
    \/ Decide(p) \/ IssueInvite(p)
    \/ \E r \in Requests, t \in Tokens : Redeem(p, r, t)

ReplacementStep(p) ==
    \/ \E t \in Tokens, overdue \in Tokens \cup {NoToken} : ReadPrepare(p, t, overdue)
    \/ \E s \in Tokens : \/ Prepare(p, s) \/ ReadConfirm(p, s)
                         \/ ReadCancel(p, s) \/ ReadExpire(p, s)
    \/ Confirm(p) \/ ConfirmLost(p) \/ Drop(p)

CompanyStep(p) ==
    \/ \E i \in Intents, purpose \in Purposes : CreateIntent(p, i, purpose)
    \/ \E i \in Intents : ReadIntent(p, i)
    \/ Close(p) \/ SoftDelete(p) \/ ReadRestore(p) \/ Restore(p) \/ Purge(p)
    \/ FindNothing(p)

Next ==
    \/ \E c \in Callers : AuthenticateMaster(c) \/ \E p \in workers : MasterStep(c, p)
    \/ \E p \in workers : InviteStep(p) \/ ReplacementStep(p) \/ CompanyStep(p)
    \/ \E r \in Requests : LapseInvite(r)
    \/ \E s \in Tokens : LapseReplacement(s)

Spec == Init /\ [][Next]_vars

-----------------------------------------------------------------------------
(* Properties.                                                             *)

\* Every row and every pending decision has its shape.
TypeOK ==
    /\ company \in Company
    /\ intent \in [Intents -> Intent]
    /\ request \in [Requests -> Request]
    /\ identity \subseteq Names \cup {NoName}
    /\ invite \in [Requests -> Invite]
    /\ token \in [Tokens -> Token]
    /\ replacement \in [Tokens -> Replacement]
    /\ caller \subseteq Callers
    /\ deployment \in Deployments
    /\ held \in [Processes -> Decision]

\* One process serves the store.
Serialised == \A p, q \in workers : p = q

\* A request is redeemed for one token, however often its invitation is
\* reissued, retried or raced for (redeem_agent_invite, issue_agent_invite).
OneTokenPerRequest ==
    \A s, t \in Tokens : token[s].request = token[t].request /\ token[s].request # NoRequest
                            => s = t

\* The status of a replacement, which clients reconcile with after a lost
\* answer, says what became of both tokens (human_agent_token_replacement_status).
ReplacementRowsAreTrue ==
    \A s \in Tokens :
        /\ replacement[s].status = "prepared" => ~token[s].activated
        /\ replacement[s].status = "confirmed" =>
               token[s].activated /\ token[token[s].pred].dead
        /\ replacement[s].status \in {"canceled", "expired"} =>
               ~token[s].activated /\ token[s].dead

\* A token has one successor that was ever activated, by replacement or by
\* redemption, and is itself revoked (confirm_human_agent_token_replacement,
\* redeem_agent_invite).
OneSuccessor ==
    \A s, t \in Tokens :
        token[s].activated /\ token[s].pred # NoToken =>
            /\ token[token[s].pred].dead
            /\ token[t].activated /\ token[t].pred = token[s].pred => s = t

\* With one process, OneSuccessor holds.
OneSuccessorSerialised == Serialised => OneSuccessor

\* A name is asked for once unless the request refers to a token that bears
\* it (request_agent_access).
NamesAreHeldOnce ==
    LET open == {r \in Requests : /\ request[r].status \in {"pending", "approved"}
                                  /\ request[r].supersedes = NoToken
                                  /\ request[r].transfer = NoToken}
    IN  Serialised => \A q, r \in open : request[q].name = request[r].name => q = r

\* A closed company has no usable token and nothing that can become one:
\* no open invitation, and no pending successor of a live token.
ClosedHasNoCredential ==
    Serialised /\ company.status = "closed" =>
        /\ \A t \in Tokens : ~Live(t)
        /\ \A r \in Requests : invite[r].status # "issued"

\* A token that was revoked is not brought back through its successor: a
\* token is activated only while its predecessor can be used.
RevocationsHold ==
    [][Serialised =>
         \A s \in Tokens :
             ~token[s].activated /\ token'[s].activated /\ token'[s].pred # NoToken
                => Live(token'[s].pred)]_vars

\* Tokens are what the rows say of them, whatever is retried, raced for or
\* interleaved with a replacement: one token for a request, a true status for
\* every replacement, one successor for a token and one bearer of a name.
TokensAreSound ==
    /\ TypeOK
    /\ OneTokenPerRequest
    /\ ReplacementRowsAreTrue
    /\ OneSuccessorSerialised
    /\ NamesAreHeldOnce
=============================================================================
