------------------------------- MODULE Commons -------------------------------
(***************************************************************************)
(* The Commons of one project (commons_storage.py, the SQL variant): an    *)
(* agent enrols itself under a name with a credential it generated, at     *)
(* once or after a human approval; it rotates and revokes the credential,  *)
(* opens browser sessions, joins the room, publishes, corrects, withdraws  *)
(* and acknowledges; what ended is compacted when room is needed.          *)
(*                                                                         *)
(* A call is authenticated by reads of its own and carried out later, in a *)
(* transaction that takes the write lock and the row of the workspace      *)
(* first: `caller' is the calls between the two, each with the versions of *)
(* the messages its agent had read.  A refusal rolls the transaction back, *)
(* and a retry under the key of a call that was carried out writes nothing.*)
(*                                                                         *)
(* An enrolment request is named by the credential it proposes, an agent   *)
(* by its name.  Deadlines are flags that turn TRUE at any time.           *)
(***************************************************************************)
EXTENDS Naturals, FiniteSets

CONSTANTS
    Names, NoName,          \* agent names
    Tokens, NoToken,        \* credentials that agents generate
    Sessions, NoSession,    \* browser sessions that agents generate
    Messages, NoMessage,    \* messages, by the key of their publication
    MaxRevision,            \* the revision limit of a message, 32 in the code
    Settings                \* the settings of the deployments, with their bounds:
                            \*   names, tokens, sessions, messages: those in use,
                            \*   guests: the names asked for by access requests,
                            \*   approval: the policies it sets,
                            \*   pending, active: the maximumPendingEnrollments
                            \*     and maximumActiveAgents,
                            \*   calls: at most so many at once

ASSUME ConstantsAssumption ==
    /\ NoName \notin Names
    /\ NoToken \notin Tokens
    /\ NoSession \notin Sessions
    /\ NoMessage \notin Messages
    /\ MaxRevision \in Nat \ {0}
    /\ Settings \subseteq [names : SUBSET Names, guests : SUBSET Names,
                           tokens : SUBSET Tokens, sessions : SUBSET Sessions,
                           messages : SUBSET Messages, approval : SUBSET BOOLEAN,
                           pending : Nat, active : Nat, calls : Nat]

VARIABLES
    approval,       \* the policy: humanApprovalRequired
    request,        \* the enrolment requests
    credential,     \* the agent tokens, each with its grant
    access,         \* the access requests of invited agents
    profile,        \* the identities of the company and their public profiles
    session,        \* the browser sessions
    member,         \* the memberships of the room
    message,        \* the messages
    ack,            \* the acknowledgements
    caller,
    settings

talk == <<member, message, ack>>
vars == <<approval, request, credential, access, profile, session, talk, caller, settings>>

\* "late" is a pending row whose deadline has passed.  Compaction takes the
\* name and keeps the credential and the decision.
RequestStatus == {"none", "pending", "late", "approved", "denied", "expired"}

Request == [status : RequestStatus, name : Names \cup {NoName}]

Credential == [status : {"none", "active", "revoked"}, name : Names \cup {NoName}]

\* "elsewhere" is an identity of the company that is not of the Commons.
ProfileStatus == {"none", "elsewhere", "active", "revoked", "retired"}

Profile == [status : ProfileStatus, token : Tokens \cup {NoToken}, lapsed : BOOLEAN]

Session == [status : {"none", "active", "expired", "revoked"},
            token : Tokens \cup {NoToken}]

\* What an acknowledgement is bound to.
Version == [revision : 0..MaxRevision, withdrawn : BOOLEAN]

Unread == [revision |-> 0, withdrawn |-> FALSE]

Message == [author : Names \cup {NoName}, version : Version,
            parent : Messages \cup {NoMessage}]

Call == [token : Tokens, session : Sessions \cup {NoSession}, read : [Messages -> Version]]

Init ==
    /\ settings \in Settings
    /\ approval \in settings.approval
    /\ request = [c \in Tokens |-> [status |-> "none", name |-> NoName]]
    /\ credential = [c \in Tokens |-> [status |-> "none", name |-> NoName]]
    /\ access = [n \in Names |-> "none"]
    /\ profile = [n \in Names |-> [status |-> "none", token |-> NoToken, lapsed |-> FALSE]]
    /\ session = [s \in Sessions |-> [status |-> "none", token |-> NoToken]]
    /\ member = [n \in Names |-> "none"]
    /\ message = [m \in Messages |->
                    [author |-> NoName, version |-> Unread, parent |-> NoMessage]]
    /\ ack = [n \in Names |-> [m \in Messages |-> Unread]]
    /\ caller = {}

-----------------------------------------------------------------------------
(* Compaction, part of the call that needs the room.                       *)

Live(n) ==
    /\ profile[n].status = "active"
    /\ ~profile[n].lapsed
    /\ credential[profile[n].token].status = "active"

Published(m) == message[m].version.revision > 0

\* Mutated form: a message that was withdrawn no longer keeps its author.
AttributedUntilWithdrawn(n) ==
    \E m \in Messages :
        \/ Published(m) /\ ~message[m].version.withdrawn /\ message[m].author = n
        \/ ack[n][m] # Unread

Attributed(n) ==
    \E m \in Messages : \/ Published(m) /\ message[m].author = n
                        \/ ack[n][m] # Unread

Inactive == {n \in Names : /\ profile[n].status \in {"active", "revoked"}
                           /\ ~Live(n)
                           /\ access[n] # "approved"
                           /\ ~Attributed(n)}

\* Retention has run out for some of them.
Retire(gone) ==
    /\ member' = [n \in Names |-> IF n \in gone THEN "none" ELSE member[n]]
    /\ session' = [s \in Sessions |->
                     IF session[s].token \in {profile[n].token : n \in gone}
                     THEN [status |-> "revoked", token |-> session[s].token]
                     ELSE session[s]]
    /\ UNCHANGED <<message, ack>>

ActiveRoom == Cardinality({n \in Names : Live(n)}) < settings.active

Lapsed(r) == [c \in Tokens |->
                IF r[c].status = "late" THEN [r[c] EXCEPT !.status = "expired"] ELSE r[c]]

\* An approved request ends with the credential it proposed.
Terminal(r) ==
    {c \in Tokens : \/ r[c].status \in {"denied", "expired"}
                    \/ /\ r[c].status = "approved"
                       /\ r[c].name # NoName
                       /\ ~(Live(r[c].name) /\ profile[r[c].name].token = c)}

Compacted(r, gone) ==
    [c \in Tokens |-> IF c \in gone THEN [r[c] EXCEPT !.name = NoName] ELSE r[c]]

PendingRoom ==
    Cardinality({c \in Tokens : request[c].status = "pending"}) < settings.pending

-----------------------------------------------------------------------------
(* Enrolment.  A credential is proposed once; a name is given once.        *)

NameFree(n) == profile[n].status = "none"

Waiting(n) == \E c \in Tokens : request[c].status = "pending" /\ request[c].name = n

CandidateFree(c) == credential[c].status = "none" /\ request[c].status = "none"

Ask(c, n) ==
    /\ approval
    /\ CandidateFree(c)
    /\ ~Waiting(n)
    /\ NameFree(n)
    /\ PendingRoom
    /\ \E gone \in SUBSET Terminal(Lapsed(request)) :
          request' = [Compacted(Lapsed(request), gone) EXCEPT
                        ![c] = [status |-> "pending", name |-> n]]
    /\ UNCHANGED <<access, approval, credential, profile, session, talk, caller, settings>>

\* The identity, the grant, the token and the profile, after the agents in
\* `gone' were retired for the capacity.
Activate(c, n) ==
    /\ ActiveRoom
    /\ \E gone \in SUBSET Inactive :
          /\ Retire(gone)
          /\ profile' = [p \in Names |->
                           CASE p = n -> [status |-> "active", token |-> c, lapsed |-> FALSE]
                             [] p \in gone -> [profile[p] EXCEPT !.status = "retired"]
                             [] OTHER -> profile[p]]
    /\ credential' = [credential EXCEPT ![c] = [status |-> "active", name |-> n]]

Enroll(c, n) ==
    /\ ~approval
    /\ CandidateFree(c)
    /\ ~Waiting(n)
    /\ NameFree(n)
    /\ Activate(c, n)
    /\ UNCHANGED <<access, approval, request, caller, settings>>

DeadlinePasses(c) ==
    /\ request[c].status = "pending"
    /\ request' = [request EXCEPT ![c].status = "late"]
    /\ UNCHANGED <<access, approval, credential, profile, session, talk, caller, settings>>

Decidable(c) == request[c].status = "pending"

Approve(c) ==
    /\ Decidable(c)
    /\ NameFree(request[c].name)
    /\ credential[c].status = "none"
    /\ Activate(c, request[c].name)
    /\ request' = [request EXCEPT ![c].status = "approved"]
    /\ UNCHANGED <<access, approval, caller, settings>>

Deny(c) ==
    /\ Decidable(c)
    /\ request' = [request EXCEPT ![c].status = "denied"]
    /\ UNCHANGED <<access, approval, credential, profile, session, talk, caller, settings>>

\* The company master writes the policy it read the revision of.
SetPolicy ==
    /\ approval' \in settings.approval \ {approval}
    /\ UNCHANGED <<access, request, credential, profile, session, talk, caller, settings>>

\* The access request of an agent that is to be invited looks for an identity of
\* its name; the approval takes the identity of that name, or inserts it.
AccessRequested(n) ==
    /\ access[n] = "none"
    /\ NameFree(n)
    /\ access' = [access EXCEPT ![n] = "requested"]
    /\ UNCHANGED <<approval, request, credential, profile, session, talk, caller, settings>>

Invited(n) ==
    /\ access[n] = "requested"
    /\ access' = [access EXCEPT ![n] = "approved"]
    /\ profile' = IF NameFree(n) THEN [profile EXCEPT ![n].status = "elsewhere"] ELSE profile
    /\ UNCHANGED <<approval, request, credential, session, talk, caller, settings>>

-----------------------------------------------------------------------------
(* Calls of an agent.                                                      *)

Begin(k) ==
    /\ Cardinality(caller) < settings.calls
    /\ caller' = caller \cup {k}
    /\ UNCHANGED <<access, approval, request, credential, profile, session, talk, settings>>

HasRead == [m \in Messages |-> message[m].version]

Bearer(c) ==
    /\ credential[c].status = "active"
    /\ Begin([token |-> c, session |-> NoSession, read |-> HasRead])

\* The session is looked at here and never again.
ByBrowser(s) ==
    LET c == session[s].token IN
    /\ session[s].status = "active"
    /\ profile[credential[c].name].token = c
    /\ Live(credential[c].name)
    /\ Begin([token |-> c, session |-> s, read |-> HasRead])

Ends(k) == caller' = caller \ {k}

Agent(k) == credential[k.token].name

\* Mutated form: the authentication is trusted.
BoundBefore(k) == profile[Agent(k)].status = "active"

\* The transaction looks at the credential again.
Bound(k) == Live(Agent(k)) /\ profile[Agent(k)].token = k.token

\* The credential expired, was replaced or revoked, the body is refused, or
\* the process ends.
Refuse(k) ==
    /\ Ends(k)
    /\ UNCHANGED <<access, approval, request, credential, profile, session, talk, settings>>

SessionsEnd(c) ==
    session' = [s \in Sessions |->
                  IF session[s].token = c /\ session[s].status = "active"
                  THEN [session[s] EXCEPT !.status = "revoked"] ELSE session[s]]

Rotate(k, d) ==
    /\ Ends(k)
    /\ k.session = NoSession
    /\ Bound(k)
    /\ CandidateFree(d)
    /\ credential' = [credential EXCEPT ![k.token].status = "revoked",
                                        ![d] = [status |-> "active", name |-> Agent(k)]]
    /\ profile' = [profile EXCEPT ![Agent(k)] =
                     [status |-> "active", token |-> d, lapsed |-> FALSE]]
    /\ SessionsEnd(k.token)
    /\ UNCHANGED <<access, approval, request, talk, settings>>

\* An expired credential can still be revoked.
Revoke(k) ==
    /\ Ends(k)
    /\ k.session = NoSession
    /\ profile[Agent(k)].token = k.token
    /\ profile[Agent(k)].status = "active"
    /\ credential[k.token].status = "active"
    /\ credential' = [credential EXCEPT ![k.token].status = "revoked"]
    /\ profile' = [profile EXCEPT ![Agent(k)].status = "revoked"]
    /\ SessionsEnd(k.token)
    /\ UNCHANGED <<access, approval, request, talk, settings>>

\* A new session replaces the one the credential had.
Open(k, s) ==
    /\ Ends(k)
    /\ k.session = NoSession
    /\ Bound(k)
    /\ session[s].status = "none"
    /\ session' = [t \in Sessions |->
                     IF t = s THEN [status |-> "active", token |-> k.token]
                     ELSE IF session[t] = [status |-> "active", token |-> k.token]
                          THEN [session[t] EXCEPT !.status = "revoked"] ELSE session[t]]
    /\ UNCHANGED <<access, approval, request, credential, profile, talk, settings>>

\* A session ends itself, whatever became of its agent.
Close(s) ==
    /\ session[s].status = "active"
    /\ session' = [session EXCEPT ![s].status = "revoked"]
    /\ UNCHANGED <<access, approval, request, credential, profile, talk, caller, settings>>

SessionExpires(s) ==
    /\ session[s].status = "active"
    /\ session' = [session EXCEPT ![s].status = "expired"]
    /\ UNCHANGED <<access, approval, request, credential, profile, talk, caller, settings>>

CredentialExpires(n) ==
    /\ profile[n].status = "active"
    /\ ~profile[n].lapsed
    /\ profile' = [profile EXCEPT ![n].lapsed = TRUE]
    /\ UNCHANGED <<access, approval, request, credential, session, talk, caller, settings>>

\* A master of the company revokes the token and its grant, and nothing of the
\* Commons.
RevokedByMaster(c) ==
    /\ credential[c].status = "active"
    /\ credential' = [credential EXCEPT ![c].status = "revoked"]
    /\ UNCHANGED <<access, approval, request, profile, session, talk, caller, settings>>

-----------------------------------------------------------------------------
(* The room.                                                               *)

SetMembership(k, state) ==
    /\ Ends(k)
    /\ Bound(k)
    /\ member' = [member EXCEPT ![Agent(k)] = state]
    /\ UNCHANGED <<access, approval, request, credential, profile, session, message, ack,
                   settings>>

Writes(k) ==
    /\ Ends(k)
    /\ Bound(k)
    /\ member[Agent(k)] = "joined"
    /\ UNCHANGED <<access, approval, request, credential, profile, session, member, settings>>

Publish(k, m, parent) ==
    /\ Writes(k)
    /\ ~Published(m)
    /\ parent # NoMessage => Published(parent) /\ ~message[parent].version.withdrawn
    /\ message' = [message EXCEPT ![m] =
                     [author |-> Agent(k), version |-> [revision |-> 1, withdrawn |-> FALSE],
                      parent |-> parent]]
    /\ UNCHANGED ack

\* Mutated form: the revision is compared, the withdrawal is not.
CurrentRevision(k, m) ==
    Published(m) /\ message[m].version.revision = k.read[m].revision

\* The version the agent names is the present one.
Current(k, m) == Published(m) /\ message[m].version = k.read[m]

Correct(k, m) ==
    /\ Writes(k)
    /\ message[m].author = Agent(k)
    /\ Current(k, m)
    /\ ~message[m].version.withdrawn
    /\ message[m].version.revision < MaxRevision
    /\ message' = [message EXCEPT ![m].version.revision = @ + 1]
    /\ UNCHANGED ack

Withdraw(k, m) ==
    /\ Writes(k)
    /\ message[m].author = Agent(k)
    /\ Current(k, m)
    /\ ~message[m].version.withdrawn
    /\ message' = [message EXCEPT ![m].version.withdrawn = TRUE]
    /\ UNCHANGED ack

Acknowledge(k, m) ==
    /\ Writes(k)
    /\ Current(k, m)
    /\ ack' = [ack EXCEPT ![Agent(k)][m] = message[m].version]
    /\ UNCHANGED message

\* acknowledgedByViewer in what a reader is shown.
Acknowledged(n, m) == Published(m) /\ ack[n][m] = message[m].version

-----------------------------------------------------------------------------
Enrolment ==
    \/ \E c \in settings.tokens :
          \/ \E n \in settings.names : Ask(c, n) \/ Enroll(c, n)
          \/ DeadlinePasses(c) \/ Approve(c) \/ Deny(c)
    \/ SetPolicy
    \/ \E n \in settings.guests : AccessRequested(n) \/ Invited(n)

Custody ==
    \/ \E c \in Tokens : Bearer(c) \/ RevokedByMaster(c)
    \/ \E s \in Sessions : ByBrowser(s) \/ Close(s) \/ SessionExpires(s)
    \/ \E n \in Names : CredentialExpires(n)
    \/ \E k \in caller : \/ Refuse(k) \/ Revoke(k)
                         \/ \E d \in settings.tokens : Rotate(k, d)
                         \/ \E s \in settings.sessions : Open(k, s)

Room ==
    \E k \in caller :
        \/ \E state \in {"joined", "left"} : SetMembership(k, state)
        \/ \E m \in settings.messages :
              \/ \E parent \in Messages \cup {NoMessage} : Publish(k, m, parent)
              \/ Correct(k, m) \/ Withdraw(k, m) \/ Acknowledge(k, m)

Next == Enrolment \/ Custody \/ Room

Spec == Init /\ [][Next]_vars

-----------------------------------------------------------------------------
\* The variables keep their types.
TypeOK ==
    /\ approval \in BOOLEAN
    /\ request \in [Tokens -> Request]
    /\ credential \in [Tokens -> Credential]
    /\ access \in [Names -> {"none", "requested", "approved"}]
    /\ profile \in [Names -> Profile]
    /\ session \in [Sessions -> Session]
    /\ member \in [Names -> {"none", "joined", "left"}]
    /\ message \in [Messages -> Message]
    /\ ack \in [Names -> [Messages -> Version]]
    /\ caller \subseteq Call
    /\ settings \in Settings

\* A proposed credential belongs to the agent its request names and to no
\* other, an agent has at most one credential that is accepted, and that
\* credential at most one browser session: rotation, approval, enrolment and
\* the sessions all search two tables for what they insert.
OneOfEach ==
    /\ \A c \in Tokens :
          /\ request[c].status \in {"pending", "late", "denied", "expired"}
               => credential[c].status = "none"
          /\ (request[c].status = "approved" /\ request[c].name # NoName)
               => credential[c].name = request[c].name
    /\ \A c, d \in Tokens :
          (/\ credential[c].status = "active"
           /\ credential[d].status = "active"
           /\ credential[c].name = credential[d].name) => c = d
    /\ \A s, t \in Sessions :
          (/\ session[s].status = "active"
           /\ session[t].status = "active"
           /\ session[s].token = session[t].token) => s = t

\* A name is waited for once and held for ever: no request waits for a name
\* while another does, and an agent that took part in public is never retired.
AttributionIsKept ==
    /\ \A c, d \in Tokens :
          (/\ request[c].status = "pending"
           /\ request[d].status = "pending"
           /\ request[c].name = request[d].name) => c = d
    /\ \A m \in Messages : Published(m) => profile[message[m].author].status
                                             \in {"active", "revoked"}
    /\ \A n \in Names, m \in Messages : ack[n][m] # Unread => profile[n].status
                                             \in {"active", "revoked"}

\* A message changes and is acknowledged only by a call whose agent had read the
\* version that is changed or acknowledged and whose credential is the agent's
\* at that moment; a withdrawal is the last change.
ChangesFollowTheReading ==
    [][\A m \in Messages : \A n \in Names :
         (message'[m] # message[m] \/ ack'[n][m] # ack[n][m]) =>
            /\ \E k \in caller \ caller' :
                  /\ k.read[m] = message[m].version
                  /\ profile[Agent(k)].token = k.token
                  /\ credential[k.token].status = "active"
                  /\ ack'[n][m] # ack[n][m] => n = Agent(k)
            /\ message[m].version.withdrawn => message'[m] = message[m]]_vars

Grant == INSTANCE ConnectorGrant WITH
    Requests <- Names,
    Creds <- Tokens,
    authority <- [n \in Names |-> IF Live(n) THEN {profile[n].token} ELSE {}],
    over <- {n \in Names : profile[n].status \notin {"none", "elsewhere"} /\ ~Live(n)},
    spent <- {c \in Tokens : /\ credential[c].status # "none"
                             /\ ~(Live(credential[c].name)
                                  /\ profile[credential[c].name].token = c)}

\* A name gets authority once, passes it from credential to credential, and an
\* end is final: no approval, enrolment, rotation or compaction brings back an
\* agent or a credential.
ImplementsGrant == Grant!GrantSpec

\* Two agents are never one and an agent is never two: no name, credential or
\* session is held twice, and one that spoke in public keeps its name.
AgentsAreDistinct ==
    /\ TypeOK
    /\ OneOfEach
    /\ AttributionIsKept
=============================================================================
