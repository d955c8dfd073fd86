-------------------------- MODULE ConnectorPairing --------------------------
(***************************************************************************)
(* LocalEndpoint Connect against one company (storage.py, SQLiteStore): a  *)
(* desktop asks for a pairing, a human approves it, the desktop claims a   *)
(* code, exchanges it for a pending credential, activates it, and later    *)
(* rotates the credential; master, connector and company end the pairing.  *)
(*                                                                         *)
(* Every call takes the write lock of the database before it reads, so a   *)
(* transaction is one step.  Three calls authenticate their bearer in a    *)
(* transaction of its own before that: `caller' holds the credentials that *)
(* were accepted and whose call has not been carried out.                  *)
(*                                                                         *)
(* An approved code is asked for under one idempotency key; whether a key  *)
(* is stored follows from the statuses, and a retry changes nothing but    *)
(* what the desktop holds: `vault' is the credentials whose secret reached *)
(* it.  An answer may be lost.  Deadlines are flags that turn TRUE at any  *)
(* time.  A request has at most one pairing, so both go by the request.    *)
(***************************************************************************)
EXTENDS Naturals, FiniteSets

CONSTANTS
    PairingRequests,        \* pairing requests approved for the company
    Creds, NoCred,          \* connector credentials, issued in order
    NoOwner,                \* no request
    Existing,               \* the workspace the company has
    Elsewhere,              \* an agent of the same name, by invitation
    MaxCallers              \* bound on the calls authenticated and pending

ASSUME PairingConstants ==
    /\ Creds \subseteq Nat
    /\ NoCred \notin Creds
    /\ NoOwner \notin PairingRequests
    /\ Existing \notin PairingRequests
    /\ Elsewhere \notin PairingRequests
    /\ NoOwner # Elsewhere
    /\ MaxCallers \in Nat

VARIABLES
    request,        \* the request rows
    pairing,        \* the pairing rows
    cred,           \* the credential rows
    rotation,       \* the rotation rows, by successor
    company,        \* the status of the company
    identity,       \* whose pairing inserted the agent identity of the company
    workspaces,     \* the requests whose provisional workspace is committed
    agents,         \* the workspaces where the agent is registered
    vault,
    caller

ends == <<identity, workspaces, agents>>
pairingVars == <<request, pairing, cred, rotation, company, identity, workspaces,
                 agents, vault, caller>>

RequestStatus == {"none", "pending_human_approval", "approved",
                  "authorization_code_issued", "exchanged", "active", "canceled",
                  "expired", "authorization_code_expired", "purged"}

Request == [status : RequestStatus, mode : {"none", "existing", "new"}, late : BOOLEAN]

PairingStatus == {"none", "pending_activation", "active", "expired", "canceled",
                  "disconnected", "revoked", "purged"}

Pairing == [status : PairingStatus, current : Creds \cup {NoCred}, late : BOOLEAN]

CredStatus == {"none", "pending_activation", "active", "superseded", "expired",
               "canceled", "disconnected", "revoked", "purged"}

Cred == [status : CredStatus, pairing : PairingRequests \cup {NoOwner}]

RotationStatus == {"none", "pending_activation", "active", "expired"}

Rotation == [status : RotationStatus, pred : Creds \cup {NoCred}, late : BOOLEAN]

CompanyStatus == {"active", "soft_deleted", "closed"}

Calls == [op : {"rotate", "disconnect", "cancel"}, cred : Creds]

PairingInit ==
           /\ request = [r \in PairingRequests |-> [status |-> "none", mode |-> "none", late |-> FALSE]]
           /\ pairing = [r \in PairingRequests |-> [status |-> "none", current |-> NoCred, late |-> FALSE]]
           /\ cred = [c \in Creds |-> [status |-> "none", pairing |-> NoOwner]]
           /\ rotation = [c \in Creds |-> [status |-> "none", pred |-> NoCred, late |-> FALSE]]
           /\ company = "active"
           /\ identity = NoOwner
           /\ workspaces = {}
           /\ agents = {}
           /\ vault = {}
           /\ caller = {}

-----------------------------------------------------------------------------
(* The request.                                                            *)

Create(r) ==
    /\ request[r].status = "none"
    /\ request' = [request EXCEPT ![r].status = "pending_human_approval"]
    /\ UNCHANGED <<pairing, cred, rotation, company, ends, vault, caller>>

\* A call that finds its deadline passed writes that and nothing else.
ExpireRequest(r) ==
    /\ request[r].late
    /\ request' = [request EXCEPT ![r].status =
                      IF @ = "pending_human_approval" THEN "expired"
                      ELSE "authorization_code_expired"]
    /\ UNCHANGED <<pairing, cred, rotation, company, ends, vault, caller>>

\* The request of a pairing that was disconnected, revoked or that expired
\* keeps its status, and with it the name.
Reserving == {"approved", "authorization_code_issued", "exchanged", "active"}

NameFree(r) ==
    /\ identity = NoOwner
    /\ \A q \in PairingRequests \ {r} : request[q].status \notin Reserving

Approve(r) ==
    /\ request[r].status = "pending_human_approval"
    /\ \/ ExpireRequest(r)
       \/ /\ ~request[r].late
          /\ company = "active"
          /\ NameFree(r)
          /\ \E mode \in {"existing", "new"} :
                request' = [request EXCEPT ![r] =
                               [status |-> "approved", mode |-> mode, late |-> FALSE]]
          /\ UNCHANGED <<pairing, cred, rotation, company, ends, vault, caller>>

CancelRequest(r) ==
    /\ request[r].status = "pending_human_approval"
    /\ \/ ExpireRequest(r)
       \/ /\ ~request[r].late
          /\ request' = [request EXCEPT ![r].status = "canceled"]
          /\ UNCHANGED <<pairing, cred, rotation, company, ends, vault, caller>>

\* A claim before the approval is told to come back.
Claim(r) ==
    \/ /\ request[r].status \in {"pending_human_approval", "approved",
                                 "authorization_code_issued"}
       /\ ExpireRequest(r)
    \/ /\ request[r].status = "approved"
       /\ ~request[r].late
       /\ request' = [request EXCEPT ![r].status = "authorization_code_issued"]
       /\ UNCHANGED <<pairing, cred, rotation, company, ends, vault, caller>>

Fresh(c) ==
    /\ cred[c].status = "none"
    /\ \A d \in Creds : cred[d].status = "none" => c <= d

Heard(c) == vault' \in {vault, vault \cup {c}}

Exchange(r, c) ==
    /\ request[r].status = "authorization_code_issued"
    /\ \/ ExpireRequest(r)
       \/ /\ ~request[r].late
          /\ Fresh(c)
          /\ request' = [request EXCEPT ![r].status = "exchanged"]
          /\ pairing' = [pairing EXCEPT ![r] = [status |-> "pending_activation",
                                                current |-> c, late |-> FALSE]]
          /\ cred' = [cred EXCEPT ![c] = [status |-> "pending_activation", pairing |-> r]]
          /\ Heard(c)
          /\ UNCHANGED <<rotation, company, ends, caller>>

\* The exact retry derives the same secret, until the activation.
RetryExchange(r) ==
    /\ pairing[r].status = "pending_activation"
    /\ ~pairing[r].late
    /\ vault' = vault \cup {pairing[r].current}
    /\ UNCHANGED <<request, pairing, cred, rotation, company, ends, caller>>

-----------------------------------------------------------------------------
(* The activation of a pairing.  Its early returns commit what they wrote. *)

WorkspaceOf(r) == IF request[r].mode = "new" THEN r ELSE Existing

Presents(r, c) == c \in vault /\ cred[c].pairing = r

ExpirePending(r, c) ==
    /\ pairing[r].late
    /\ pairing' = [pairing EXCEPT ![r].status = "expired"]
    /\ cred' = [cred EXCEPT ![c].status = "expired"]
    /\ UNCHANGED <<request, rotation, company, ends, vault, caller>>

CommitWorkspace(r) ==
    /\ request[r].mode = "new" => r \notin workspaces
    /\ workspaces' = IF request[r].mode = "new" THEN workspaces \cup {r} ELSE workspaces

\* agent_name_unavailable, with the workspace or the identity committed.
RefuseName(r) ==
    /\ CommitWorkspace(r)
    /\ \/ identity # NoOwner /\ UNCHANGED identity
       \/ identity = NoOwner /\ WorkspaceOf(r) \in agents /\ identity' = r
    /\ UNCHANGED <<request, pairing, cred, rotation, company, agents, vault, caller>>

ActivateGrant(r, c) ==
    /\ CommitWorkspace(r)
    /\ identity = NoOwner
    /\ WorkspaceOf(r) \notin agents
    /\ identity' = r
    /\ agents' = agents \cup {WorkspaceOf(r)}
    /\ pairing' = [pairing EXCEPT ![r].status = "active"]
    /\ cred' = [cred EXCEPT ![c].status = "active"]
    /\ request' = [request EXCEPT ![r].status = "active"]
    /\ UNCHANGED <<rotation, company, vault, caller>>

Activate(r, c) ==
    /\ Presents(r, c)
    /\ pairing[r].status = "pending_activation"
    /\ cred[c].status = "pending_activation"
    /\ \/ ExpirePending(r, c)
       \/ /\ ~pairing[r].late
          /\ company = "active"
          /\ ActivateGrant(r, c) \/ RefuseName(r)

-----------------------------------------------------------------------------
(* Calls that authenticate first and are carried out later.                *)

Accepted(op, c) ==
    LET p == pairing[cred[c].pairing].status
    IN  /\ c \in vault
        /\ company = "active"
        /\ IF op = "cancel"
           THEN cred[c].status = "pending_activation" /\ p \in {"pending_activation", "active"}
           ELSE cred[c].status = "active" /\ p = "active"

Authenticate(op, c) ==
    /\ Accepted(op, c)
    /\ Cardinality(caller) < MaxCallers
    /\ caller' = caller \cup {[op |-> op, cred |-> c]}
    /\ UNCHANGED <<request, pairing, cred, rotation, company, ends, vault>>

\* The call ends, whether it changes anything or is refused.
Ends(op, c) ==
    /\ [op |-> op, cred |-> c] \in caller
    /\ caller' = caller \ {[op |-> op, cred |-> c]}

\* Mutated form: only a rotation that can still be activated blocks another.
RotationPendingOnTime(r) ==
    \E c \in Creds : /\ cred[c].pairing = r
                     /\ rotation[c].status = "pending_activation"
                     /\ ~rotation[c].late

RotationPending(r) ==
    \E c \in Creds : cred[c].pairing = r /\ rotation[c].status = "pending_activation"

\* Mutated form: the successor is the current credential from the start.
PrepareRotationAtOnce(c, d) ==
    LET r == cred[c].pairing
    IN  /\ Ends("rotate", c)
        /\ pairing[r].status = "active"
        /\ ~RotationPending(r)
        /\ Fresh(d)
        /\ cred' = [cred EXCEPT ![c].status = "superseded",
                                ![d] = [status |-> "active", pairing |-> r]]
        /\ rotation' = [rotation EXCEPT ![d] = [status |-> "active",
                                                pred |-> pairing[r].current, late |-> FALSE]]
        /\ pairing' = [pairing EXCEPT ![r].current = d]
        /\ Heard(d)
        /\ UNCHANGED <<request, company, ends>>

PrepareRotation(c, d) ==
    LET r == cred[c].pairing
    IN  /\ Ends("rotate", c)
        /\ pairing[r].status = "active"
        /\ ~RotationPending(r)
        /\ Fresh(d)
        /\ cred' = [cred EXCEPT ![d] = [status |-> "pending_activation", pairing |-> r]]
        /\ rotation' = [rotation EXCEPT ![d] = [status |-> "pending_activation",
                                                pred |-> pairing[r].current, late |-> FALSE]]
        /\ Heard(d)
        /\ UNCHANGED <<request, pairing, company, ends>>

Disconnect(c) ==
    LET r == cred[c].pairing
    IN  /\ Ends("disconnect", c)
        /\ pairing[r].status = "active"
        /\ pairing' = [pairing EXCEPT ![r].status = "disconnected"]
        /\ cred' = [d \in Creds |->
                      IF cred[d].pairing = r /\ cred[d].status \notin {"superseded", "expired"}
                      THEN [cred[d] EXCEPT !.status = "disconnected"] ELSE cred[d]]
        /\ UNCHANGED <<request, rotation, company, ends, vault>>

Cancel(c) ==
    LET r == cred[c].pairing
    IN  /\ Ends("cancel", c)
        /\ pairing[r].status = "pending_activation"
        /\ pairing' = [pairing EXCEPT ![r].status = "canceled"]
        /\ cred' = [d \in Creds |->
                      IF cred[d].pairing = r /\ cred[d].status = "pending_activation"
                      THEN [cred[d] EXCEPT !.status = "canceled"] ELSE cred[d]]
        /\ request' = [request EXCEPT ![r].status = "canceled"]
        /\ UNCHANGED <<rotation, company, ends, vault>>

\* The pairing or the rotations are not what the call needs, or its key was
\* used with another body.
RefuseCall(op, c) ==
    /\ Ends(op, c)
    /\ UNCHANGED <<request, pairing, cred, rotation, company, ends, vault>>

-----------------------------------------------------------------------------
(* The rotation.                                                           *)

\* The key is looked up before the status of the pairing.
RetryPrepare(c, d) ==
    /\ Ends("rotate", c)
    /\ cred[d].pairing = cred[c].pairing
    /\ rotation[d].status = "pending_activation"
    /\ ~rotation[d].late
    /\ Heard(d)
    /\ UNCHANGED <<request, pairing, cred, rotation, company, ends>>

\* Mutated form: the predecessor stays accepted.
ActivateRotationBoth(c) ==
    LET r == cred[c].pairing
    IN  /\ Presents(r, c)
        /\ rotation[c].status = "pending_activation"
        /\ cred[c].status = "pending_activation"
        /\ ~rotation[c].late
        /\ cred[rotation[c].pred].status = "active"
        /\ pairing[r].status = "active"
        /\ cred' = [cred EXCEPT ![c].status = "active"]
        /\ pairing' = [pairing EXCEPT ![r].current = c]
        /\ rotation' = [rotation EXCEPT ![c].status = "active"]
        /\ UNCHANGED <<request, company, ends, vault, caller>>

ActivateRotation(c) ==
    LET r == cred[c].pairing
        p == rotation[c].pred
    IN  /\ Presents(r, c)
        /\ rotation[c].status = "pending_activation"
        /\ cred[c].status = "pending_activation"
        /\ \/ /\ rotation[c].late
              /\ rotation' = [rotation EXCEPT ![c].status = "expired"]
              /\ cred' = [cred EXCEPT ![c].status = "expired"]
              /\ UNCHANGED pairing
           \/ /\ ~rotation[c].late
              /\ cred[p].status = "active"
              /\ pairing[r].status = "active"
              /\ cred' = [cred EXCEPT ![p].status = "superseded", ![c].status = "active"]
              /\ pairing' = [pairing EXCEPT ![r].current = c]
              /\ rotation' = [rotation EXCEPT ![c].status = "active"]
        /\ UNCHANGED <<request, company, ends, vault, caller>>

-----------------------------------------------------------------------------
(* The company, its master credential, and time.                           *)

\* Credentials that a revocation leaves as they are.
Ended == {"revoked", "superseded", "expired", "purged"}

Revocable == {"pending_activation", "active", "revoked"}

RevokedCreds(p) ==
    [d \in Creds |->
       IF p[cred[d].pairing] /\ cred[d].status \notin Ended
       THEN [cred[d] EXCEPT !.status = "revoked"] ELSE cred[d]]

Revoke(r) ==
    /\ pairing[r].status \in Revocable
    /\ company = "active"
    /\ pairing' = [pairing EXCEPT ![r].status = "revoked"]
    /\ cred' = RevokedCreds([q \in PairingRequests \cup {NoOwner} |-> q = r])
    /\ UNCHANGED <<request, rotation, company, ends, vault, caller>>

\* The credentials of every pairing, the pairings that have not ended.
CloseCompany ==
    /\ company # "closed"
    /\ company' = "closed"
    /\ pairing' = [r \in PairingRequests |->
                     IF pairing[r].status \in {"pending_activation", "active"}
                     THEN [pairing[r] EXCEPT !.status = "revoked"] ELSE pairing[r]]
    /\ cred' = RevokedCreds([q \in PairingRequests \cup {NoOwner} |-> q # NoOwner])
    /\ UNCHANGED <<request, rotation, ends, vault, caller>>

SoftDeleteCompany ==
    /\ company = "active"
    /\ company' = "soft_deleted"
    /\ UNCHANGED <<request, pairing, cred, rotation, ends, vault, caller>>

RestoreCompany ==
    /\ company = "soft_deleted"
    /\ company' = "active"
    /\ UNCHANGED <<request, pairing, cred, rotation, ends, vault, caller>>

\* An invitation for the name is redeemed, or the deprecated registration with
\* the workspace key is used.
TakeName ==
    /\ company = "active"
    /\ \/ identity = NoOwner /\ identity' = Elsewhere /\ UNCHANGED agents
       \/ agents' = agents \cup {Existing} /\ UNCHANGED identity
    /\ UNCHANGED <<request, pairing, cred, rotation, company, workspaces, vault, caller>>

DeadlinePasses ==
    /\ \/ \E r \in PairingRequests :
             /\ request[r].status \in {"pending_human_approval", "approved",
                                       "authorization_code_issued"}
             /\ ~request[r].late
             /\ request' = [request EXCEPT ![r].late = TRUE]
             /\ UNCHANGED <<pairing, rotation>>
       \/ \E r \in PairingRequests :
             /\ pairing[r].status = "pending_activation"
             /\ ~pairing[r].late
             /\ pairing' = [pairing EXCEPT ![r].late = TRUE]
             /\ UNCHANGED <<request, rotation>>
       \/ \E c \in Creds :
             /\ rotation[c].status = "pending_activation"
             /\ ~rotation[c].late
             /\ rotation' = [rotation EXCEPT ![c].late = TRUE]
             /\ UNCHANGED <<request, pairing>>
    /\ UNCHANGED <<cred, company, ends, vault, caller>>

\* expire_connector_pairings, at the head of most calls.
Due(r) == pairing[r].status = "pending_activation" /\ pairing[r].late

\* Mutated form: rotations are left to their activation.
RotationDueNever(c) == FALSE

RotationDue(c) == rotation[c].status = "pending_activation" /\ rotation[c].late

Sweep ==
    /\ request' = [r \in PairingRequests |->
          IF ~request[r].late THEN request[r]
          ELSE CASE request[r].status = "pending_human_approval" ->
                      [request[r] EXCEPT !.status = "expired"]
                 [] request[r].status \in {"approved", "authorization_code_issued"} ->
                      [request[r] EXCEPT !.status = "authorization_code_expired"]
                 [] OTHER -> request[r]]
    /\ pairing' = [r \in PairingRequests |->
          IF Due(r) THEN [pairing[r] EXCEPT !.status = "expired"] ELSE pairing[r]]
    /\ rotation' = [c \in Creds |->
          IF RotationDue(c) THEN [rotation[c] EXCEPT !.status = "expired"] ELSE rotation[c]]
    /\ cred' = [c \in Creds |->
          IF /\ cred[c].status = "pending_activation"
             /\ RotationDue(c) \/ Due(cred[c].pairing)
          THEN [cred[c] EXCEPT !.status = "expired"] ELSE cred[c]]
    /\ UNCHANGED <<company, ends, vault, caller>>

\* purge_abandoned_connector_pairings; ids are never used again.
Purge(r) ==
    /\ pairing[r].status \in {"canceled", "expired"}
    /\ pairing' = [pairing EXCEPT ![r].status = "purged", ![r].current = NoCred]
    /\ request' = [request EXCEPT ![r].status = "purged"]
    /\ cred' = [c \in Creds |-> IF cred[c].pairing = r
                                THEN [cred[c] EXCEPT !.status = "purged"] ELSE cred[c]]
    /\ rotation' = [c \in Creds |-> IF cred[c].pairing = r
                                    THEN [status |-> "none", pred |-> NoCred, late |-> FALSE]
                                    ELSE rotation[c]]
    /\ UNCHANGED <<company, ends, vault, caller>>

PairingNext ==
           \/ \E r \in PairingRequests : Create(r) \/ Approve(r) \/ CancelRequest(r) \/ Claim(r)
                                         \/ RetryExchange(r) \/ Revoke(r) \/ Purge(r)
           \/ \E r \in PairingRequests, c \in Creds : Exchange(r, c) \/ Activate(r, c)
           \/ \E op \in {"rotate", "disconnect", "cancel"}, c \in Creds :
                 Authenticate(op, c) \/ RefuseCall(op, c)
           \/ \E c, d \in Creds : PrepareRotation(c, d) \/ RetryPrepare(c, d)
           \/ \E c \in Creds : Disconnect(c) \/ Cancel(c) \/ ActivateRotation(c)
           \/ CloseCompany \/ SoftDeleteCompany \/ RestoreCompany \/ TakeName
           \/ DeadlinePasses \/ Sweep

PairingSpec == PairingInit /\ [][PairingNext]_pairingVars

\* Time passes, and calls that sweep first keep arriving: nothing else is
\* asked of the desktop or of the people.
FairPairingSpec == PairingSpec /\ WF_pairingVars(DeadlinePasses) /\ WF_pairingVars(Sweep)

-----------------------------------------------------------------------------
(* Properties.                                                             *)

\* The rows keep the shapes that the tables and the code give them.
PairingTypeOK ==
           /\ request \in [PairingRequests -> Request]
           /\ pairing \in [PairingRequests -> Pairing]
           /\ cred \in [Creds -> Cred]
           /\ rotation \in [Creds -> Rotation]
           /\ company \in CompanyStatus
           /\ identity \in PairingRequests \cup {NoOwner, Elsewhere}
           /\ workspaces \subseteq PairingRequests
           /\ agents \subseteq PairingRequests \cup {Existing}
           /\ vault \subseteq Creds
           /\ caller \subseteq Calls

Live(c) == cred[c].status \in {"pending_activation", "active"}

\* The credentials of a pairing follow its status however rotation,
\* disconnect, revocation, expiry and closing are interleaved: while it is
\* pending its first credential is the only live one, while it is active the
\* current credential is the only active one and a pending one is the
\* successor of the current in the one rotation that is pending, and when it
\* has ended none is live.
CredentialsFollowPairing ==
    \A c \in Creds : Live(c) =>
        LET r == cred[c].pairing
        IN  /\ r \in PairingRequests
            /\ \/ /\ pairing[r].status = "pending_activation"
                  /\ pairing[r].current = c
                  /\ cred[c].status = "pending_activation"
               \/ /\ pairing[r].status = "active"
                  /\ cred[c].status = "active" <=> c = pairing[r].current
                  /\ cred[c].status = "pending_activation" =>
                        /\ rotation[c].status = "pending_activation"
                        /\ rotation[c].pred = pairing[r].current
                        /\ \A d \in Creds :
                              cred[d].pairing = r /\ cred[d].status = "pending_activation"
                                 => d = c

\* However often answers are lost, the credential that an active pairing
\* accepts is one whose secret the desktop holds: a rotation whose activation
\* is answered or not never leaves the desktop without a way in.
NeverLockedOut ==
    \A r \in PairingRequests : pairing[r].status = "active" =>
        /\ pairing[r].current \in vault
        /\ cred[pairing[r].current] = [status |-> "active", pairing |-> r]

\* One desktop acts under the name: it is reserved for one request from the
\* approval on, and an active pairing owns the identity and the registration
\* in its workspace, although the name is taken again only at the activation,
\* and by then others may have taken it.
NameHasOneHolder ==
    \A r \in PairingRequests :
        /\ request[r].status \in Reserving =>
              \A q \in PairingRequests \ {r} : request[q].status \notin Reserving
        /\ pairing[r].status = "active" =>
              /\ identity = r
              /\ WorkspaceOf(r) \in agents
              /\ request[r].status = "active"

\* The credentials that are accepted, as the abstract grant sees them.
authority ==
    [r \in PairingRequests |->
       {c \in Creds : cred[c] = [status |-> "active", pairing |-> r]
                      /\ pairing[r].status = "active"}]

over == {r \in PairingRequests : pairing[r].status \notin {"none", "pending_activation", "active"}}

spent == {c \in Creds : cred[c].status \notin {"none", "pending_activation", "active"}}

Grant == INSTANCE ConnectorGrant WITH Requests <- PairingRequests

\* The protocol implements the grant: authority is given once, to one
\* credential, passes from one to the next, and what has lost it or has ended
\* never gets it again.
ImplementsGrant == Grant!GrantSpec

\* Nothing pending stays pending: every code, every provisional pairing and
\* every prepared rotation is used, ended or expired, without the desktop.
PendingIsResolved ==
    /\ \A r \in PairingRequests :
         /\ request[r].status \in {"pending_human_approval", "approved",
                                   "authorization_code_issued"}
              ~> request[r].status \notin {"pending_human_approval", "approved",
                                           "authorization_code_issued"}
         /\ pairing[r].status = "pending_activation"
              ~> pairing[r].status # "pending_activation"
    /\ \A c \in Creds : cred[c].status = "pending_activation"
                          ~> cred[c].status # "pending_activation"

\* The rows of a pairing agree, whichever of its calls, sweeps and closings
\* come between: its credentials follow its status, and its name is its own.
PairingsAreSound ==
    /\ PairingTypeOK
    /\ CredentialsFollowPairing
    /\ NameHasOneHolder
=============================================================================
