----------------------------- MODULE CommonsProofs -----------------------------
(***************************************************************************)
(* Proofs about Commons, for any number of names, credentials, sessions,   *)
(* messages and calls, and for any settings.  IInv adds to the checked     *)
(* invariants that the rows which name each other exist: a profile names a *)
(* credential of its own name, an accepted credential is the one its       *)
(* profile names, and a session and a call have a credential.              *)
(***************************************************************************)
EXTENDS Commons, TLAPS

\* A profile of the Commons names a credential that was issued under its name.
ProfilesHaveTokens ==
    \A n \in Names :
        /\ profile[n].status \in {"active", "revoked", "retired"} <=> profile[n].token \in Tokens
        /\ profile[n].token \in Tokens =>
              /\ credential[profile[n].token].status # "none"
              /\ credential[profile[n].token].name = n

\* A credential that was issued has a name, and the profile of that name names
\* it as long as it is accepted.
CredentialsHaveNames ==
    \A c \in Tokens :
        /\ credential[c].status = "none" <=> credential[c].name = NoName
        /\ credential[c].status = "active" => profile[credential[c].name].token = c

\* Sessions and calls belong to credentials that were issued.
SessionsHaveTokens ==
    \A s \in Sessions :
        /\ session[s].status # "none" <=> session[s].token \in Tokens
        /\ session[s].token \in Tokens => credential[session[s].token].status # "none"

CallsHaveAgents == \A k \in caller : credential[k.token].status # "none"

\* Compaction takes no name that is waited for.
RequestsHaveNames == \A c \in Tokens : request[c].status = "pending" => request[c].name \in Names

\* No one has read what is not published.
ReadsAreOld ==
    /\ \A m \in Messages : /\ ~Published(m) => message[m].version = Unread
                           /\ Published(m) => message[m].author \in Names
    /\ \A k \in caller, m \in Messages : ~Published(m) => k.read[m] = Unread

IInv ==
    /\ TypeOK
    /\ ProfilesHaveTokens
    /\ CredentialsHaveNames
    /\ SessionsHaveTokens
    /\ CallsHaveAgents
    /\ RequestsHaveNames
    /\ ReadsAreOld
    /\ OneOfEach
    /\ AttributionIsKept

-----------------------------------------------------------------------------
(* Facts about the state.                                                  *)

\* The settings bound what is in use.
LEMMA SettingsFit ==
    ASSUME IInv
    PROVE  /\ settings.names \subseteq Names /\ settings.guests \subseteq Names
           /\ settings.tokens \subseteq Tokens /\ settings.sessions \subseteq Sessions
           /\ settings.messages \subseteq Messages /\ settings.approval \subseteq BOOLEAN
  BY ConstantsAssumption DEF IInv, TypeOK

\* The agent of a call, and what a transaction that finds it bound knows.
LEMMA AgentOfCall ==
    ASSUME IInv, NEW k \in caller
    PROVE  /\ k.token \in Tokens /\ Agent(k) \in Names
           /\ Bound(k) => /\ profile[Agent(k)].token = k.token
                          /\ profile[Agent(k)].status = "active"
                          /\ credential[k.token].status = "active"
  <1>1. k.token \in Tokens
    BY DEF IInv, TypeOK, Call
  <1>2. Agent(k) \in Names
    BY <1>1 DEF IInv, CallsHaveAgents, CredentialsHaveNames, TypeOK, Credential, Agent
  <1> QED BY <1>1, <1>2 DEF Bound, Live

\* Nothing exists at the start.
LEMMA InitHolds == Init => IInv
  <1> SUFFICES ASSUME Init
               PROVE  IInv
    OBVIOUS
  <1>1. settings.approval \subseteq BOOLEAN /\ Unread \in Version
    BY ConstantsAssumption DEF Init, Unread, Version
  <1>2. TypeOK
    BY <1>1, ConstantsAssumption DEF Init, TypeOK, Request, RequestStatus, Credential, Profile,
         ProfileStatus, Session, Message
  <1>3. ~\E m \in Messages : Published(m)
    BY DEF Init, Published, Unread
  <1>4. /\ ProfilesHaveTokens /\ CredentialsHaveNames /\ SessionsHaveTokens
        /\ CallsHaveAgents /\ RequestsHaveNames
    BY ConstantsAssumption DEF Init, ProfilesHaveTokens, CredentialsHaveNames,
         SessionsHaveTokens, CallsHaveAgents, RequestsHaveNames
  <1>5. ReadsAreOld
    BY <1>3 DEF Init, ReadsAreOld
  <1>6. OneOfEach
    BY DEF Init, OneOfEach
  <1>7. AttributionIsKept
    BY <1>3 DEF Init, AttributionIsKept
  <1> QED BY <1>2, <1>4, <1>5, <1>6, <1>7 DEF IInv

-----------------------------------------------------------------------------
(* Steps that only begin, refuse and end.                                  *)

\* No credential, session or agent of the Commons is made; what is accepted
\* may end; and a new call belongs to a credential and has read what there is.
Winds ==
    /\ UNCHANGED <<request, message, ack>>
    /\ \A k \in caller' \ caller : credential[k.token].status # "none" /\ k.read = HasRead
    /\ \A c \in Tokens :
          /\ credential'[c].name = credential[c].name
          /\ \/ credential'[c].status = credential[c].status
             \/ credential[c].status = "active" /\ credential'[c].status = "revoked"
    /\ \A n \in Names :
          /\ profile'[n].token = profile[n].token
          /\ profile[n].lapsed => profile'[n].lapsed
          /\ \/ profile'[n].status = profile[n].status
             \/ profile[n].status = "active" /\ profile'[n].status = "revoked"
             \/ profile[n].status = "none" /\ profile'[n].status = "elsewhere"
    /\ \A s \in Sessions :
          /\ session'[s].token = session[s].token
          /\ \/ session'[s].status = session[s].status
             \/ session[s].status = "active" /\ session'[s].status \in {"revoked", "expired"}

\* Such a step keeps the invariant.
LEMMA WindsKeep ==
    ASSUME IInv, TypeOK', Winds
    PROVE  IInv'
  <1>1. ProfilesHaveTokens'
    BY DEF Winds, IInv, ProfilesHaveTokens
  <1>2. CredentialsHaveNames'
    <2>1. \A c \in Tokens : credential[c].status = "active" => credential[c].name \in Names
      BY DEF IInv, CredentialsHaveNames, TypeOK, Credential
    <2> QED BY <2>1 DEF Winds, IInv, CredentialsHaveNames
  <1>3. SessionsHaveTokens'
    BY DEF Winds, IInv, SessionsHaveTokens
  <1>4. CallsHaveAgents'
    BY DEF Winds, IInv, CallsHaveAgents, TypeOK, Call
  <1>5. RequestsHaveNames'
    BY DEF Winds, IInv, RequestsHaveNames
  <1>6. ReadsAreOld'
    <2>1. ASSUME NEW m \in Messages, ~Published(m)
          PROVE  message[m].version = Unread /\ HasRead[m] = Unread
      BY <2>1 DEF IInv, ReadsAreOld, HasRead
    <2>2. message' = message /\ \A m \in Messages : Published(m)' <=> Published(m)
      BY DEF Winds, Published
    <2>3. ASSUME NEW k \in caller', NEW m \in Messages, ~Published(m)
          PROVE  k.read[m] = Unread
      BY <2>1, <2>3 DEF Winds, IInv, ReadsAreOld
    <2> QED BY <2>1, <2>2, <2>3 DEF IInv, ReadsAreOld
  <1>7. OneOfEach'
    BY DEF Winds, IInv, OneOfEach
  <1>8. AttributionIsKept'
    BY DEF Winds, IInv, AttributionIsKept, ReadsAreOld, Published
  <1> QED BY <1>1, <1>2, <1>3, <1>4, <1>5, <1>6, <1>7, <1>8 DEF IInv

\* Steps that touch no credential, agent, session or message.
LEMMA AsideWinds ==
    ASSUME IInv,
           \/ SetPolicy
           \/ \E n \in Names : AccessRequested(n)
           \/ \E k \in caller : Refuse(k)
           \/ \E k \in caller, state \in {"joined", "left"} : SetMembership(k, state)
    PROVE  TypeOK' /\ Winds
  <1>1. /\ UNCHANGED <<request, credential, profile, session, message, ack, settings>>
        /\ caller' \subseteq caller
        /\ approval' \in BOOLEAN
        /\ access' \in [Names -> {"none", "requested", "approved"}]
        /\ member' \in [Names -> {"none", "joined", "left"}]
    <2>1. CASE SetPolicy
      BY <2>1, SettingsFit DEF SetPolicy, IInv, TypeOK, talk
    <2>2. CASE \E n \in Names : AccessRequested(n)
      BY <2>2 DEF AccessRequested, IInv, TypeOK, talk
    <2>3. CASE \E k \in caller : Refuse(k)
      BY <2>3 DEF Refuse, Ends, IInv, TypeOK, talk
    <2>4. CASE \E k \in caller, state \in {"joined", "left"} : SetMembership(k, state)
      BY <2>4, AgentOfCall DEF SetMembership, Ends, IInv, TypeOK
    <2> QED BY <2>1, <2>2, <2>3, <2>4
  <1> QED BY <1>1 DEF IInv, TypeOK, Winds

\* The identity of an invited agent takes a free name.
LEMMA InvitedWinds ==
    ASSUME IInv, NEW n \in Names, Invited(n)
    PROVE  TypeOK' /\ Winds
  <1>1. /\ access' \in [Names -> {"none", "requested", "approved"}]
        /\ UNCHANGED <<approval, request, credential, session, talk, caller, settings>>
    BY DEF Invited, IInv, TypeOK
  <1>2. profile' \in [Names -> Profile]
    BY DEF Invited, IInv, TypeOK, Profile, ProfileStatus
  <1>3. \A p \in Names :
           /\ profile'[p].token = profile[p].token /\ profile'[p].lapsed = profile[p].lapsed
           /\ \/ profile'[p].status = profile[p].status
              \/ profile[p].status = "none" /\ profile'[p].status = "elsewhere"
    BY DEF Invited, NameFree, IInv, TypeOK, Profile
  <1> QED BY <1>1, <1>2, <1>3 DEF IInv, TypeOK, Winds, talk

\* A call begins with a credential that was issued.
LEMMA CallWinds ==
    ASSUME IInv, \/ \E c \in Tokens : Bearer(c)
                 \/ \E s \in Sessions : ByBrowser(s)
    PROVE  TypeOK' /\ Winds
  <1>1. PICK c \in Tokens, s \in Sessions \cup {NoSession} :
           /\ Begin([token |-> c, session |-> s, read |-> HasRead])
           /\ credential[c].status # "none"
    <2>1. ASSUME NEW s \in Sessions, ByBrowser(s)
          PROVE  /\ session[s].token \in Tokens
                 /\ credential[session[s].token].status # "none"
                 /\ Begin([token |-> session[s].token, session |-> s, read |-> HasRead])
      BY <2>1 DEF ByBrowser, IInv, SessionsHaveTokens
    <2>2. ASSUME NEW c \in Tokens, Bearer(c)
          PROVE  /\ credential[c].status # "none"
                 /\ Begin([token |-> c, session |-> NoSession, read |-> HasRead])
      BY <2>2 DEF Bearer
    <2> QED BY <2>1, <2>2
  <1>2. HasRead \in [Messages -> Version]
    BY DEF HasRead, IInv, TypeOK, Message
  <1>3. /\ caller' = caller \cup {[token |-> c, session |-> s, read |-> HasRead]}
        /\ UNCHANGED <<access, approval, request, credential, profile, session, talk, settings>>
    BY <1>1 DEF Begin
  <1>4. [token |-> c, session |-> s, read |-> HasRead] \in Call
    BY <1>2 DEF Call
  <1> QED BY <1>1, <1>3, <1>4 DEF IInv, TypeOK, Winds, talk

\* A session ends by itself or by its time.
LEMMA SessionWinds ==
    ASSUME IInv, NEW s \in Sessions, Close(s) \/ SessionExpires(s)
    PROVE  TypeOK' /\ Winds
  <1>1. PICK end \in {"revoked", "expired"} :
           /\ session[s].status = "active"
           /\ session' = [session EXCEPT ![s].status = end]
           /\ UNCHANGED <<access, approval, request, credential, profile, talk, caller, settings>>
    BY DEF Close, SessionExpires
  <1>2. /\ session' \in [Sessions -> Session]
        /\ \A t \in Sessions : /\ session'[t].token = session[t].token
                               /\ \/ session'[t].status = session[t].status
                                  \/ session[t].status = "active" /\ session'[t].status = end
    BY <1>1 DEF IInv, TypeOK, Session
  <1> QED BY <1>1, <1>2 DEF IInv, TypeOK, Winds, talk

\* The sessions of a credential end with it.
LEMMA SessionsEndWinds ==
    ASSUME IInv, NEW c \in Tokens, SessionsEnd(c)
    PROVE  /\ session' \in [Sessions -> Session]
           /\ \A s \in Sessions :
                 /\ session'[s].token = session[s].token
                 /\ session'[s].status = IF session[s].token = c /\ session[s].status = "active"
                                         THEN "revoked" ELSE session[s].status
  BY DEF SessionsEnd, IInv, TypeOK, Session

\* A credential ends: its agent revokes it, a master does, or its time comes.
LEMMA CredentialWinds ==
    ASSUME IInv, \/ \E c \in Tokens : RevokedByMaster(c)
                 \/ \E n \in Names : CredentialExpires(n)
                 \/ \E k \in caller : Revoke(k)
    PROVE  TypeOK' /\ Winds
  <1>1. CASE \E c \in Tokens : RevokedByMaster(c)
    <2>1. PICK c \in Tokens :
             /\ credential[c].status = "active"
             /\ credential' = [credential EXCEPT ![c].status = "revoked"]
             /\ UNCHANGED <<access, approval, request, profile, session, talk, caller, settings>>
      BY <1>1 DEF RevokedByMaster
    <2>2. /\ credential' \in [Tokens -> Credential]
          /\ \A d \in Tokens : /\ credential'[d].name = credential[d].name
                               /\ credential'[d].status = IF d = c THEN "revoked"
                                                          ELSE credential[d].status
      BY <2>1 DEF IInv, TypeOK, Credential
    <2> QED BY <2>1, <2>2 DEF IInv, TypeOK, Winds, talk
  <1>2. CASE \E n \in Names : CredentialExpires(n)
    <2>1. PICK n \in Names :
             /\ profile' = [profile EXCEPT ![n].lapsed = TRUE]
             /\ UNCHANGED <<access, approval, request, credential, session, talk, caller,
                            settings>>
      BY <1>2 DEF CredentialExpires
    <2>2. /\ profile' \in [Names -> Profile]
          /\ \A p \in Names : /\ profile'[p].token = profile[p].token
                              /\ profile'[p].status = profile[p].status
                              /\ profile[p].lapsed => profile'[p].lapsed
      BY <2>1 DEF IInv, TypeOK, Profile
    <2> QED BY <2>1, <2>2 DEF IInv, TypeOK, Winds, talk
  <1>3. CASE \E k \in caller : Revoke(k)
    <2>1. PICK k \in caller : Revoke(k)
      BY <1>3
    <2>2. k.token \in Tokens /\ Agent(k) \in Names
      BY AgentOfCall
    <2>3. /\ session' \in [Sessions -> Session]
          /\ \A s \in Sessions :
                /\ session'[s].token = session[s].token
                /\ \/ session'[s].status = session[s].status
                   \/ session[s].status = "active" /\ session'[s].status = "revoked"
      BY <2>1, <2>2, SessionsEndWinds DEF Revoke
    <2>4. /\ credential' \in [Tokens -> Credential]
          /\ \A d \in Tokens : /\ credential'[d].name = credential[d].name
                               /\ credential'[d].status = IF d = k.token THEN "revoked"
                                                          ELSE credential[d].status
      BY <2>1, <2>2 DEF Revoke, IInv, TypeOK, Credential
    <2>5. /\ profile' \in [Names -> Profile]
          /\ \A p \in Names : /\ profile'[p].token = profile[p].token
                              /\ profile'[p].lapsed = profile[p].lapsed
                              /\ profile'[p].status = IF p = Agent(k) THEN "revoked"
                                                      ELSE profile[p].status
      BY <2>1, <2>2 DEF Revoke, IInv, TypeOK, Profile, ProfileStatus
    <2>6. /\ caller' \subseteq caller
          /\ profile[Agent(k)].status = "active" /\ credential[k.token].status = "active"
          /\ UNCHANGED <<access, approval, request, talk, settings>>
      BY <2>1 DEF Revoke, Ends
    <2> QED BY <2>2, <2>3, <2>4, <2>5, <2>6 DEF IInv, TypeOK, Winds, talk
  <1> QED BY <1>1, <1>2, <1>3

-----------------------------------------------------------------------------
(* The requests.                                                           *)

\* What a step does that changes requests only.
Requesting ==
    /\ UNCHANGED <<access, approval, credential, profile, session, talk, caller, settings>>
    /\ \/ \E c \in settings.tokens, n \in settings.names : Ask(c, n)
       \/ \E c \in settings.tokens : DeadlinePasses(c) \/ Deny(c)

\* A request is made for a credential that is free, under a name no other
\* request waits for; the others keep their names or are compacted.
LEMMA RequestMoves ==
    ASSUME IInv, Requesting
    PROVE  /\ request' \in [Tokens -> Request]
           /\ \A c \in Tokens :
                 \/ /\ request[c].status = "none" /\ credential[c].status = "none"
                    /\ request'[c].status = "pending" /\ request'[c].name \in Names
                    /\ ~Waiting(request'[c].name)
                    /\ \A d \in Tokens \ {c} : request'[d].status = "pending" =>
                          request[d].status = "pending" /\ request'[d].name = request[d].name
                 \/ /\ request'[c].status = "pending" => request[c].status = "pending"
                    /\ request'[c].status = "pending" => request'[c].name = request[c].name
                    /\ request'[c].name \in {request[c].name, NoName}
                    /\ request'[c].status = "approved" => request[c].status = "approved"
                    /\ request'[c].status # "none" => request[c].status # "none"
                    /\ request[c].status = "approved" => request'[c].status = "approved"
  <1>1. CASE \E c \in settings.tokens, n \in settings.names : Ask(c, n)
    <2>1. PICK c \in settings.tokens, n \in settings.names : Ask(c, n)
      BY <1>1
    <2>2. c \in Tokens /\ n \in Names
      BY SettingsFit
    <2>3. PICK gone \in SUBSET Terminal(Lapsed(request)) :
             request' = [Compacted(Lapsed(request), gone) EXCEPT
                           ![c] = [status |-> "pending", name |-> n]]
      BY <2>1 DEF Ask
    <2> DEFINE compacted == Compacted(Lapsed(request), gone)
               asked == [status |-> "pending", name |-> n]
    <2>4. ASSUME NEW d \in Tokens
          PROVE  /\ Lapsed(request)[d] \in Request
                 /\ Lapsed(request)[d].name = request[d].name
                 /\ Lapsed(request)[d].status = IF request[d].status = "late" THEN "expired"
                                                ELSE request[d].status
      BY DEF Lapsed, IInv, TypeOK, Request, RequestStatus
    <2>5. ASSUME NEW d \in Tokens
          PROVE  /\ compacted[d] \in Request
                 /\ compacted[d].name \in {request[d].name, NoName}
                 /\ compacted[d].status = Lapsed(request)[d].status
                 /\ compacted[d].status = "pending" => compacted[d].name = request[d].name
      BY <2>4 DEF Compacted, Terminal, Request
    <2>6. asked \in Request /\ compacted \in [Tokens -> Request]
      BY <2>2, <2>5 DEF Request, RequestStatus, Compacted
    <2>7. /\ request' \in [Tokens -> Request] /\ request'[c] = asked
          /\ \A d \in Tokens \ {c} : request'[d] = compacted[d]
      <3> HIDE DEF compacted, asked
      <3>1. request' = [compacted EXCEPT ![c] = asked]
        BY <2>3 DEF compacted, asked
      <3> QED BY <2>2, <2>6, <3>1
    <2>8. CandidateFree(c) /\ ~Waiting(n)
      BY <2>1 DEF Ask
    <2> HIDE DEF compacted
    <2> QED BY <2>2, <2>4, <2>5, <2>7, <2>8 DEF CandidateFree
  <1>2. CASE \E c \in settings.tokens : DeadlinePasses(c) \/ Deny(c)
    <2>1. PICK c \in Tokens, end \in {"late", "denied"} :
             /\ request[c].status = "pending"
             /\ request' = [request EXCEPT ![c].status = end]
      BY <1>2, SettingsFit DEF DeadlinePasses, Deny, Decidable
    <2> QED BY <2>1 DEF IInv, TypeOK, Request, RequestStatus
  <1> QED BY <1>1, <1>2 DEF Requesting

\* It keeps the invariant.
LEMMA RequestingKeeps ==
    ASSUME IInv, Requesting
    PROVE  IInv'
  <1>1. UNCHANGED <<access, approval, credential, profile, session, talk, caller, settings>>
    BY DEF Requesting
  <1>2. TypeOK'
    BY <1>1, RequestMoves DEF IInv, TypeOK, talk
  <1>3. /\ ProfilesHaveTokens' /\ CredentialsHaveNames' /\ SessionsHaveTokens'
        /\ CallsHaveAgents'
    BY <1>1 DEF IInv, ProfilesHaveTokens, CredentialsHaveNames, SessionsHaveTokens,
         CallsHaveAgents
  <1>4. RequestsHaveNames'
    BY RequestMoves DEF IInv, RequestsHaveNames
  <1>5. ReadsAreOld'
    BY <1>1 DEF IInv, ReadsAreOld, Published, talk
  <1>6. OneOfEach'
    <2>1. ASSUME NEW c \in Tokens
          PROVE  /\ request'[c].status \in {"pending", "late", "denied", "expired"}
                       => credential[c].status = "none"
                 /\ (request'[c].status = "approved" /\ request'[c].name # NoName)
                       => credential[c].name = request'[c].name
      <3>1. request[c] \in Request /\ request'[c] \in Request
        BY RequestMoves DEF IInv, TypeOK
      <3> QED BY <3>1, RequestMoves DEF IInv, OneOfEach, Request, RequestStatus
    <2> QED BY <1>1, <2>1 DEF IInv, OneOfEach
  <1>7. AttributionIsKept'
    <2>1. ASSUME NEW c \in Tokens, NEW d \in Tokens,
                 request'[c].status = "pending", request'[d].status = "pending",
                 request'[c].name = request'[d].name
          PROVE  c = d
      BY <2>1, RequestMoves DEF IInv, AttributionIsKept, Waiting
    <2> QED BY <1>1, <2>1 DEF IInv, AttributionIsKept, Published, talk
  <1> QED BY <1>2, <1>3, <1>4, <1>5, <1>6, <1>7 DEF IInv

-----------------------------------------------------------------------------
(* An agent is made.                                                       *)

\* Enrolment and approval, for the credential c and the name n.
Activates(c, n) ==
    \/ Enroll(c, n)
    \/ Approve(c) /\ n = request[c].name

\* The rows of the new agent, and what compaction takes from the others.
LEMMA ActivationMoves ==
    ASSUME IInv, NEW c \in Tokens, NEW n \in Names, Activates(c, n)
    PROVE  /\ credential[c].status = "none" /\ profile[n].status = "none"
           /\ credential' \in [Tokens -> Credential]
           /\ credential'[c].status = "active" /\ credential'[c].name = n
           /\ \A d \in Tokens \ {c} : credential'[d] = credential[d]
           /\ profile' \in [Names -> Profile]
           /\ profile'[n].status = "active" /\ profile'[n].token = c /\ ~profile'[n].lapsed
           /\ \A p \in Names \ {n} :
                 \/ profile'[p] = profile[p]
                 \/ /\ p \in Inactive
                    /\ profile'[p].token = profile[p].token
                    /\ profile'[p].status = "retired"
           /\ session' \in [Sessions -> Session]
           /\ \A s \in Sessions :
                 \/ session'[s] = session[s]
                 \/ /\ session[s].token \in Tokens
                    /\ session'[s].token = session[s].token
                    /\ session'[s].status = "revoked"
           /\ member' \in [Names -> {"none", "joined", "left"}]
           /\ request' \in [Tokens -> Request]
           /\ \A d \in Tokens : /\ request'[d].name = request[d].name
                                /\ d # c => request'[d].status = request[d].status
           /\ request'[c].status \in {"none", "approved"}
           /\ request'[c].status = "approved" => request'[c].name = n
           /\ access' = access /\ approval' = approval /\ message' = message /\ ack' = ack
           /\ caller' = caller /\ settings' = settings
  <1>1. /\ credential[c].status = "none" /\ profile[n].status = "none" /\ Activate(c, n)
        /\ \/ request[c].status = "none" /\ request' = request
           \/ /\ request[c].status = "pending" /\ request[c].name = n
              /\ request' = [request EXCEPT ![c].status = "approved"]
        /\ UNCHANGED <<access, approval, caller, settings>>
    BY DEF Activates, Enroll, Approve, NameFree, CandidateFree, Decidable
  <1>2. PICK gone \in SUBSET Inactive :
           /\ Retire(gone)
           /\ profile' = [p \in Names |->
                           CASE p = n -> [status |-> "active", token |-> c, lapsed |-> FALSE]
                             [] p \in gone -> [profile[p] EXCEPT !.status = "retired"]
                             [] OTHER -> profile[p]]
    BY <1>1 DEF Activate
  <1> DEFINE given == [status |-> "active", name |-> n]
             opened == [status |-> "active", token |-> c, lapsed |-> FALSE]
  <1>3. credential' = [credential EXCEPT ![c] = given]
    BY <1>1 DEF Activate
  <1>4. given \in Credential /\ opened \in Profile
    BY DEF Credential, Profile, ProfileStatus
  <1>5. n \notin gone /\ gone \subseteq Names
    BY <1>1, <1>2 DEF Inactive
  <1>6. /\ profile' \in [Names -> Profile] /\ profile'[n] = opened
        /\ \A p \in Names \ {n} :
              \/ profile'[p] = profile[p]
              \/ /\ p \in Inactive
                 /\ profile'[p].token = profile[p].token
                 /\ profile'[p].status = "retired"
    <2>1. ASSUME NEW p \in gone
          PROVE  /\ profile'[p] = [profile[p] EXCEPT !.status = "retired"]
                 /\ profile'[p] \in Profile
                 /\ profile'[p].token = profile[p].token
                 /\ profile'[p].status = "retired"
      BY <1>2, <1>5 DEF IInv, TypeOK, Profile, ProfileStatus
    <2>2. ASSUME NEW p \in Names \ (gone \cup {n})
          PROVE  profile'[p] = profile[p]
      BY <1>2
    <2>3. profile'[n] = opened
      BY <1>2, <1>5
    <2>4. \A p \in Names : profile'[p] \in Profile
      BY <1>4, <2>1, <2>2, <2>3 DEF IInv, TypeOK
    <2>5. profile' \in [Names -> Profile]
      BY <1>2, <2>4
    <2> QED BY <1>5, <2>1, <2>2, <2>3, <2>5
  <1>7. /\ session' \in [Sessions -> Session]
        /\ \A s \in Sessions :
              \/ session'[s] = session[s]
              \/ /\ session[s].token \in Tokens
                 /\ session'[s].token = session[s].token
                 /\ session'[s].status = "revoked"
    <2>1. \A p \in gone : profile[p].token \in Tokens
      BY <1>5 DEF Inactive, IInv, ProfilesHaveTokens
    <2>2. ASSUME NEW s \in Sessions
          PROVE  /\ session'[s] \in Session
                 /\ \/ session'[s] = session[s]
                    \/ /\ session[s].token \in Tokens
                       /\ session'[s].token = session[s].token
                       /\ session'[s].status = "revoked"
      <3>1. CASE session[s].token \in {profile[p].token : p \in gone}
        <4>1. session'[s] = [status |-> "revoked", token |-> session[s].token]
          BY <1>2, <3>1 DEF Retire
        <4> QED BY <2>1, <3>1, <4>1 DEF Session
      <3>2. CASE session[s].token \notin {profile[p].token : p \in gone}
        BY <1>2, <3>2 DEF Retire, IInv, TypeOK
      <3> QED BY <3>1, <3>2
    <2> QED BY <1>2, <2>2 DEF Retire
  <1>8. member' \in [Names -> {"none", "joined", "left"}] /\ UNCHANGED <<message, ack>>
    BY <1>2 DEF Retire, IInv, TypeOK
  <1>9. /\ credential' \in [Tokens -> Credential] /\ credential'[c] = given
        /\ \A d \in Tokens \ {c} : credential'[d] = credential[d]
    <2> HIDE DEF given
    <2> QED BY <1>3, <1>4 DEF IInv, TypeOK
  <1>10. /\ request' \in [Tokens -> Request]
         /\ \A d \in Tokens : /\ request'[d].name = request[d].name
                              /\ d # c => request'[d].status = request[d].status
         /\ request'[c].status \in {"none", "approved"}
         /\ request'[c].status = "approved" => request'[c].name = n
    <2>1. CASE request[c].status = "none" /\ request' = request
      BY <2>1 DEF IInv, TypeOK
    <2>2. CASE /\ request[c].name = n
               /\ request' = [request EXCEPT ![c].status = "approved"]
      BY <2>2 DEF IInv, TypeOK, Request, RequestStatus
    <2> QED BY <1>1, <2>1, <2>2
  <1> QED BY <1>1, <1>6, <1>7, <1>8, <1>9, <1>10

\* A new agent takes a free name and a free credential, and no name from an
\* agent that took part in public.
LEMMA ActivationKeeps ==
    ASSUME IInv, NEW c \in Tokens, NEW n \in Names, Activates(c, n)
    PROVE  IInv'
  <1>1. /\ credential[c].status = "none" /\ profile[n].status = "none"
        /\ credential'[c].status = "active" /\ credential'[c].name = n
        /\ \A d \in Tokens \ {c} : credential'[d] = credential[d]
        /\ profile'[n].status = "active" /\ profile'[n].token = c
        /\ profile[n].token \notin Tokens
        /\ UNCHANGED <<access, approval, message, ack, caller, settings>>
    BY ActivationMoves DEF IInv, ProfilesHaveTokens
  <1>2. \A p \in Names \ {n} :
           /\ profile'[p].token = profile[p].token
           /\ \/ profile'[p].status = profile[p].status
              \/ p \in Inactive /\ profile'[p].status = "retired"
    BY ActivationMoves
  <1>3. \A s \in Sessions :
           /\ session'[s].token = session[s].token
           /\ session'[s].status = "active" => session[s].status = "active"
           /\ session'[s].status # "none" <=> session[s].status # "none"
    BY ActivationMoves DEF IInv, SessionsHaveTokens
  <1>4. TypeOK'
    BY ActivationMoves DEF IInv, TypeOK
  <1>5. ProfilesHaveTokens'
    <2>1. \A p \in Names : profile[p].token # c
      BY <1>1 DEF IInv, ProfilesHaveTokens
    <2>2. \A p \in Inactive : profile[p].status \in {"active", "revoked"}
      BY DEF Inactive
    <2> QED BY <1>1, <1>2, <2>1, <2>2 DEF IInv, ProfilesHaveTokens
  <1>6. CredentialsHaveNames'
    <2>1. \A d \in Tokens : credential[d].status = "active" =>
             credential[d].name \in Names \ {n}
      BY <1>1 DEF IInv, CredentialsHaveNames, TypeOK, Credential
    <2>2. n # NoName
      BY ConstantsAssumption
    <2> QED BY <1>1, <1>2, <2>1, <2>2 DEF IInv, CredentialsHaveNames
  <1>7. SessionsHaveTokens'
    BY <1>1, <1>3 DEF IInv, SessionsHaveTokens
  <1>8. CallsHaveAgents'
    BY <1>1 DEF IInv, CallsHaveAgents, TypeOK, Call
  <1>9. \A d \in Tokens : /\ request'[d].name = request[d].name
                          /\ d # c => request'[d].status = request[d].status
                          /\ request'[c].status \in {"none", "approved"}
                          /\ request'[c].status = "approved" => request'[c].name = n
    BY ActivationMoves
  <1>10. RequestsHaveNames'
    BY <1>9 DEF IInv, RequestsHaveNames
  <1>11. ReadsAreOld'
    BY <1>1 DEF IInv, ReadsAreOld, Published
  <1>12. OneOfEach'
    <2>1. ASSUME NEW d \in Tokens
          PROVE  /\ request'[d].status \in {"pending", "late", "denied", "expired"}
                       => credential'[d].status = "none"
                 /\ (request'[d].status = "approved" /\ request'[d].name # NoName)
                       => credential'[d].name = request'[d].name
      BY <1>1, <1>9 DEF IInv, OneOfEach
    <2>2. ASSUME NEW d \in Tokens, NEW e \in Tokens, credential'[d].status = "active",
                 credential'[e].status = "active", credential'[d].name = credential'[e].name
          PROVE  d = e
      BY <1>6, <2>2 DEF CredentialsHaveNames
    <2> QED BY <1>3, <2>1, <2>2 DEF IInv, OneOfEach
  <1>13. AttributionIsKept'
    <2>1. ASSUME NEW d \in Tokens, NEW e \in Tokens, request'[d].status = "pending",
                 request'[e].status = "pending", request'[d].name = request'[e].name
          PROVE  d = e
      BY <1>9, <2>1 DEF IInv, AttributionIsKept
    <2>2. ASSUME NEW p \in Names, Attributed(p), profile[p].status \in {"active", "revoked"}
          PROVE  profile'[p].status \in {"active", "revoked"}
      BY <1>1, <1>2, <2>2 DEF Inactive
    <2>3. \A m \in Messages : /\ Published(m)' <=> Published(m)
                              /\ Published(m) => message[m].author \in Names
      BY <1>1 DEF Published, IInv, ReadsAreOld
    <2> QED BY <1>1, <2>1, <2>2, <2>3 DEF IInv, AttributionIsKept, Attributed
  <1> QED BY <1>4, <1>5, <1>6, <1>7, <1>8, <1>10, <1>11, <1>12, <1>13 DEF IInv

-----------------------------------------------------------------------------
(* A session is opened, a credential rotated.                              *)

\* A new session replaces the one of its credential.
LEMMA OpenKeeps ==
    ASSUME IInv, NEW k \in caller, NEW s \in Sessions, Open(k, s)
    PROVE  IInv'
  <1> DEFINE opened == [status |-> "active", token |-> k.token]
  <1>1. /\ k.token \in Tokens /\ credential[k.token].status = "active"
        /\ session[s].status = "none" /\ caller' \subseteq caller
        /\ UNCHANGED <<access, approval, request, credential, profile, talk, settings>>
    BY AgentOfCall DEF Open, Ends
  <1>2. opened \in Session
    BY <1>1 DEF Session
  <1>3. session'[s] = opened
    BY DEF Open
  <1>4. ASSUME NEW t \in Sessions \ {s}
        PROVE  /\ session'[t] \in Session
               /\ session'[t].token = session[t].token
               /\ session'[t].status # "none" <=> session[t].status # "none"
               /\ session'[t].status = "active" =>
                     session[t].status = "active" /\ session[t].token # k.token
    <2>1. session[t] \in Session
      BY DEF IInv, TypeOK
    <2>2. CASE session[t] = opened
      <3>1. session'[t] = [session[t] EXCEPT !.status = "revoked"]
        BY <2>2 DEF Open
      <3>2. session[t].status = "active"
        BY <2>2
      <3> HIDE DEF opened
      <3> QED BY <2>1, <3>1, <3>2 DEF Session
    <2>3. CASE session[t] # opened
      <3>1. session'[t] = session[t]
        BY <2>3 DEF Open
      <3>2. session[t].status = "active" => session[t].token # k.token
        BY <2>1, <2>3 DEF Session
      <3> HIDE DEF opened
      <3> QED BY <2>1, <3>1, <3>2
    <2> QED BY <2>2, <2>3
  <1>5. session'[s].status = "active" /\ session'[s].token = k.token /\ session'[s] \in Session
    BY <1>2, <1>3
  <1>6. TypeOK'
    <2>1. session' \in [Sessions -> Session]
      BY <1>4, <1>5 DEF Open
    <2> QED BY <1>1, <2>1 DEF IInv, TypeOK, talk
  <1>7. SessionsHaveTokens'
    BY <1>1, <1>4, <1>5 DEF IInv, SessionsHaveTokens
  <1>8. /\ ProfilesHaveTokens' /\ CredentialsHaveNames' /\ CallsHaveAgents'
        /\ RequestsHaveNames'
    BY <1>1 DEF IInv, ProfilesHaveTokens, CredentialsHaveNames, CallsHaveAgents,
         RequestsHaveNames
  <1>9. ReadsAreOld' /\ AttributionIsKept'
    BY <1>1 DEF IInv, ReadsAreOld, AttributionIsKept, Published, talk
  <1>10. OneOfEach'
    <2>1. ASSUME NEW t \in Sessions, NEW u \in Sessions, session'[t].status = "active",
                 session'[u].status = "active", session'[t].token = session'[u].token
          PROVE  t = u
      BY <1>4, <1>5, <2>1 DEF IInv, OneOfEach
    <2> QED BY <1>1, <2>1 DEF IInv, OneOfEach
  <1> QED BY <1>6, <1>7, <1>8, <1>9, <1>10 DEF IInv

\* The rows of an agent whose credential is rotated.
LEMMA RotationMoves ==
    ASSUME IInv, NEW k \in caller, NEW d \in Tokens, Rotate(k, d)
    PROVE  LET c == k.token
               n == credential[k.token].name
           IN  /\ c \in Tokens \ {d} /\ n \in Names /\ Live(n)
               /\ profile[n].token = c /\ profile[n].status = "active"
               /\ credential[c].status = "active"
               /\ credential[d].status = "none" /\ request[d].status = "none"
               /\ credential' \in [Tokens -> Credential]
               /\ credential'[c].status = "revoked" /\ credential'[c].name = n
               /\ credential'[d].status = "active" /\ credential'[d].name = n
               /\ \A e \in Tokens \ {c, d} : credential'[e] = credential[e]
               /\ profile' \in [Names -> Profile]
               /\ profile'[n].status = "active" /\ profile'[n].token = d
               /\ ~profile'[n].lapsed
               /\ \A p \in Names \ {n} : profile'[p] = profile[p]
               /\ session' \in [Sessions -> Session]
               /\ \A s \in Sessions :
                     /\ session'[s].token = session[s].token
                     /\ session'[s].status = "active" => session[s].status = "active"
                     /\ session'[s].status # "none" <=> session[s].status # "none"
               /\ caller' \subseteq caller
               /\ access' = access /\ approval' = approval /\ request' = request
               /\ talk' = talk /\ settings' = settings
  <1> DEFINE c == k.token
             n == Agent(k)
             given == [status |-> "active", name |-> n]
  <1>1. /\ c \in Tokens /\ n \in Names /\ Live(n) /\ profile[n].token = c
        /\ profile[n].status = "active" /\ credential[c].status = "active"
    BY AgentOfCall DEF Rotate, Bound
  <1>2. /\ credential[d].status = "none" /\ request[d].status = "none"
        /\ credential' = [credential EXCEPT ![c].status = "revoked", ![d] = given]
        /\ profile' = [profile EXCEPT ![n] = [status |-> "active", token |-> d,
                                             lapsed |-> FALSE]]
        /\ SessionsEnd(c) /\ caller' \subseteq caller
        /\ UNCHANGED <<access, approval, request, talk, settings>>
    BY DEF Rotate, CandidateFree, Ends
  <1>3. c # d
    BY <1>1, <1>2
  <1>4. /\ credential' \in [Tokens -> Credential]
        /\ credential'[c].status = "revoked" /\ credential'[c].name = n
        /\ credential'[d] = given
        /\ \A e \in Tokens \ {c, d} : credential'[e] = credential[e]
    <2>1. given \in Credential
      BY <1>1 DEF Credential
    <2>2. credential[c].name = n
      BY DEF Agent
    <2> HIDE DEF given, n, c
    <2> QED BY <1>1, <1>2, <1>3, <2>1, <2>2 DEF IInv, TypeOK, Credential
  <1>5. /\ session' \in [Sessions -> Session]
        /\ \A s \in Sessions :
              /\ session'[s].token = session[s].token
              /\ session'[s].status = "active" => session[s].status = "active"
              /\ session'[s].status # "none" <=> session[s].status # "none"
    BY <1>1, <1>2, SessionsEndWinds
  <1>6. /\ profile' \in [Names -> Profile]
        /\ profile'[n].status = "active" /\ profile'[n].token = d /\ ~profile'[n].lapsed
        /\ \A p \in Names \ {n} : profile'[p] = profile[p]
    <2> HIDE DEF n, c
    <2> QED BY <1>1, <1>2 DEF IInv, TypeOK, Profile, ProfileStatus
  <1> QED BY <1>1, <1>2, <1>3, <1>4, <1>5, <1>6 DEF Agent

\* A rotation keeps the invariant.
LEMMA RotationKeeps ==
    ASSUME IInv, NEW k \in caller, NEW d \in Tokens, Rotate(k, d)
    PROVE  IInv'
  <1> DEFINE c == k.token
             n == credential[k.token].name
  <1>1. /\ c \in Tokens \ {d} /\ n \in Names
        /\ profile[n].token = c /\ profile[n].status = "active"
        /\ credential[c].status = "active" /\ credential[c].name = n
        /\ credential[d].status = "none" /\ request[d].status = "none"
        /\ credential'[c].status = "revoked" /\ credential'[c].name = n
        /\ credential'[d].status = "active" /\ credential'[d].name = n
        /\ \A e \in Tokens \ {c, d} : credential'[e] = credential[e]
        /\ caller' \subseteq caller
        /\ UNCHANGED <<access, approval, request, talk, settings>>
    BY RotationMoves
  <1>2. /\ profile' \in [Names -> Profile]
        /\ profile'[n].status = "active" /\ profile'[n].token = d
        /\ \A p \in Names \ {n} : profile'[p] = profile[p]
    BY RotationMoves
  <1>3. /\ credential' \in [Tokens -> Credential]
        /\ session' \in [Sessions -> Session]
        /\ \A s \in Sessions :
              /\ session'[s].token = session[s].token
              /\ session'[s].status = "active" => session[s].status = "active"
              /\ session'[s].status # "none" <=> session[s].status # "none"
    BY RotationMoves
  <1> HIDE DEF c, n
  <1>4. TypeOK'
    BY <1>1, <1>2, <1>3 DEF IInv, TypeOK, talk
  <1>5. ProfilesHaveTokens'
    <2>1. \A p \in Names \ {n} : profile[p].token \notin {c, d}
      BY <1>1 DEF IInv, ProfilesHaveTokens
    <2> QED BY <1>1, <1>2, <2>1 DEF IInv, ProfilesHaveTokens
  <1>6. CredentialsHaveNames'
    <2>1. \A e \in Tokens \ {c, d} : credential[e].status = "active" =>
             credential[e].name \in Names \ {n}
      BY <1>1 DEF IInv, CredentialsHaveNames, TypeOK, Credential
    <2>2. n # NoName
      BY <1>1, ConstantsAssumption
    <2> QED BY <1>1, <1>2, <2>1, <2>2 DEF IInv, CredentialsHaveNames
  <1>7. SessionsHaveTokens'
    BY <1>1, <1>3 DEF IInv, SessionsHaveTokens
  <1>8. CallsHaveAgents'
    BY <1>1 DEF IInv, CallsHaveAgents, TypeOK, Call
  <1>9. RequestsHaveNames'
    BY <1>1 DEF IInv, RequestsHaveNames
  <1>10. ReadsAreOld'
    BY <1>1 DEF IInv, ReadsAreOld, Published, talk
  <1>11. OneOfEach'
    <2>1. ASSUME NEW e \in Tokens
          PROVE  /\ request'[e].status \in {"pending", "late", "denied", "expired"}
                       => credential'[e].status = "none"
                 /\ (request'[e].status = "approved" /\ request'[e].name # NoName)
                       => credential'[e].name = request'[e].name
      BY <1>1 DEF IInv, OneOfEach
    <2>2. ASSUME NEW e \in Tokens, NEW f \in Tokens, credential'[e].status = "active",
                 credential'[f].status = "active", credential'[e].name = credential'[f].name
          PROVE  e = f
      BY <1>6, <2>2 DEF CredentialsHaveNames
    <2> QED BY <1>3, <2>1, <2>2 DEF IInv, OneOfEach
  <1>12. AttributionIsKept'
    <2>1. \A p \in Names : profile[p].status \in {"active", "revoked"} =>
             profile'[p].status \in {"active", "revoked"}
      BY <1>2
    <2>2. \A m \in Messages : /\ Published(m)' <=> Published(m)
                              /\ Published(m) => message[m].author \in Names
      BY <1>1 DEF Published, IInv, ReadsAreOld, talk
    <2> QED BY <1>1, <2>1, <2>2 DEF IInv, AttributionIsKept, talk
  <1> QED BY <1>4, <1>5, <1>6, <1>7, <1>8, <1>9, <1>10, <1>11, <1>12 DEF IInv

-----------------------------------------------------------------------------
(* The room.                                                               *)

\* A call that writes about the message m.
WritesAbout(k, m) ==
    \/ \E parent \in Messages \cup {NoMessage} : Publish(k, m, parent)
    \/ Correct(k, m) \/ Withdraw(k, m) \/ Acknowledge(k, m)

\* Only m changes, for a reader who had read its present version, or only what
\* the caller acknowledges of it; a withdrawn message is left as it is.
LEMMA WriteMoves ==
    ASSUME IInv, NEW k \in caller, NEW m \in Messages, WritesAbout(k, m)
    PROVE  /\ Agent(k) \in Names
           /\ profile[Agent(k)].status = "active" /\ profile[Agent(k)].token = k.token
           /\ credential[k.token].status = "active"
           /\ k \notin caller' /\ caller' \subseteq caller
           /\ message' \in [Messages -> Message]
           /\ ack' \in [Names -> [Messages -> Version]]
           /\ \A q \in Messages \ {m} : message'[q] = message[q]
           /\ \A n \in Names, q \in Messages :
                 ack'[n][q] # ack[n][q] => n = Agent(k) /\ q = m
           /\ message'[m].version.revision > 0
           /\ message'[m].author = IF Published(m) THEN message[m].author ELSE Agent(k)
           /\ message[m].version.withdrawn => message'[m] = message[m]
           /\ k.read[m] = message[m].version
  <1>1. /\ k.token \in Tokens /\ Agent(k) \in Names
        /\ profile[Agent(k)].status = "active" /\ profile[Agent(k)].token = k.token
        /\ credential[k.token].status = "active"
        /\ caller' = caller \ {k}
    BY AgentOfCall DEF WritesAbout, Publish, Correct, Withdraw, Acknowledge, Writes, Ends
  <1>2. /\ message[m] \in Message /\ message[m].version \in Version
        /\ message[m].version.revision \in Nat
    BY ConstantsAssumption DEF IInv, TypeOK, Message, Version
  <1>3. CASE \E parent \in Messages \cup {NoMessage} : Publish(k, m, parent)
    <2>1. PICK parent \in Messages \cup {NoMessage} : Publish(k, m, parent)
      BY <1>3
    <2> DEFINE first == [revision |-> 1, withdrawn |-> FALSE]
               row == [author |-> Agent(k), version |-> first, parent |-> parent]
    <2>2. first \in Version /\ first.revision > 0
      BY ConstantsAssumption DEF Version
    <2>3. row \in Message /\ row.author = Agent(k) /\ row.version.revision > 0
      BY <1>1, <2>2 DEF Message
    <2>4. ~Published(m) /\ message' = [message EXCEPT ![m] = row] /\ ack' = ack
      BY <2>1 DEF Publish
    <2>5. message[m].version = Unread /\ k.read[m] = Unread
      BY <2>4 DEF IInv, ReadsAreOld
    <2> HIDE DEF row
    <2>6. /\ message' \in [Messages -> Message] /\ message'[m] = row
          /\ \A q \in Messages \ {m} : message'[q] = message[q]
      BY <2>3, <2>4 DEF IInv, TypeOK
    <2>7. ~message[m].version.withdrawn
      BY <2>5 DEF Unread
    <2> QED BY <1>1, <2>3, <2>4, <2>5, <2>6, <2>7 DEF IInv, TypeOK
  <1>4. CASE Correct(k, m)
    <2>1. /\ Published(m) /\ message[m].version = k.read[m]
          /\ ~message[m].version.withdrawn
          /\ message[m].version.revision < MaxRevision
          /\ message' = [message EXCEPT ![m].version.revision = @ + 1] /\ ack' = ack
      BY <1>4 DEF Correct, Current
    <2>2. /\ message'[m].author = message[m].author
          /\ message'[m].version.revision = message[m].version.revision + 1
          /\ message' \in [Messages -> Message]
          /\ \A q \in Messages \ {m} : message'[q] = message[q]
      <3> DEFINE next == [message[m].version EXCEPT !.revision = @ + 1]
                 row == [message[m] EXCEPT !.version = next]
      <3>1. /\ next \in Version
            /\ next.revision = message[m].version.revision + 1
        BY <1>2, <2>1, ConstantsAssumption DEF Version
      <3>2. message' = [message EXCEPT ![m] = row]
        BY <1>2, <2>1 DEF IInv, TypeOK
      <3> HIDE DEF next
      <3>3. row \in Message /\ row.author = message[m].author /\ row.version = next
        BY <1>2, <3>1 DEF Message
      <3> HIDE DEF row
      <3> QED BY <3>1, <3>2, <3>3 DEF IInv, TypeOK
    <2>3. message'[m].version.revision > 0
      BY <1>2, <2>2
    <2> QED BY <1>1, <2>1, <2>2, <2>3 DEF IInv, TypeOK
  <1>5. CASE Withdraw(k, m)
    <2>1. /\ Published(m) /\ message[m].version = k.read[m]
          /\ ~message[m].version.withdrawn
          /\ message' = [message EXCEPT ![m].version.withdrawn = TRUE] /\ ack' = ack
      BY <1>5 DEF Withdraw, Current
    <2>2. /\ message'[m].author = message[m].author
          /\ message'[m].version.revision = message[m].version.revision
          /\ message' \in [Messages -> Message]
          /\ \A q \in Messages \ {m} : message'[q] = message[q]
      BY <1>2, <2>1 DEF IInv, TypeOK, Message, Version
    <2> QED BY <1>1, <2>1, <2>2 DEF IInv, TypeOK, Published
  <1>6. CASE Acknowledge(k, m)
    <2>1. /\ Published(m) /\ message[m].version = k.read[m] /\ message' = message
          /\ ack' = [ack EXCEPT ![Agent(k)][m] = message[m].version]
      BY <1>6 DEF Acknowledge, Current
    <2>2. /\ ack' \in [Names -> [Messages -> Version]]
          /\ \A n \in Names, q \in Messages : ack'[n][q] # ack[n][q] => n = Agent(k) /\ q = m
      BY <1>1, <1>2, <2>1 DEF IInv, TypeOK
    <2> QED BY <1>1, <2>1, <2>2 DEF IInv, TypeOK, Published
  <1> QED BY <1>3, <1>4, <1>5, <1>6 DEF WritesAbout

\* An author and a reader are agents that are not retired.
LEMMA WriteKeeps ==
    ASSUME IInv, NEW k \in caller, NEW m \in Messages, WritesAbout(k, m)
    PROVE  IInv'
  <1>1. /\ Agent(k) \in Names /\ profile[Agent(k)].status = "active"
        /\ caller' \subseteq caller
        /\ message' \in [Messages -> Message] /\ ack' \in [Names -> [Messages -> Version]]
        /\ \A q \in Messages \ {m} : message'[q] = message[q]
        /\ \A n \in Names, q \in Messages : ack'[n][q] # ack[n][q] => n = Agent(k)
        /\ message'[m].version.revision > 0
        /\ message'[m].author = IF Published(m) THEN message[m].author ELSE Agent(k)
    BY WriteMoves
  <1>2. UNCHANGED <<access, approval, request, credential, profile, session, member, settings>>
    BY DEF WritesAbout, Publish, Correct, Withdraw, Acknowledge, Writes
  <1>3. TypeOK'
    BY <1>1, <1>2 DEF IInv, TypeOK
  <1>4. /\ ProfilesHaveTokens' /\ CredentialsHaveNames' /\ SessionsHaveTokens'
        /\ CallsHaveAgents' /\ RequestsHaveNames' /\ OneOfEach'
    BY <1>1, <1>2 DEF IInv, ProfilesHaveTokens, CredentialsHaveNames, SessionsHaveTokens,
         CallsHaveAgents, RequestsHaveNames, OneOfEach
  <1>5. \A q \in Messages : Published(q)' => /\ message'[q].author \in Names
                                             /\ \/ Published(q) /\ message'[q].author
                                                                    = message[q].author
                                                \/ message'[q].author = Agent(k)
    BY <1>1 DEF Published, IInv, ReadsAreOld
  <1>6. \A q \in Messages : ~Published(q)' => ~Published(q) /\ message'[q] = message[q]
    BY <1>1 DEF Published
  <1>7. ReadsAreOld'
    BY <1>1, <1>5, <1>6 DEF IInv, ReadsAreOld
  <1>8. AttributionIsKept'
    <2>1. ASSUME NEW n \in Names, NEW q \in Messages, ack'[n][q] # Unread
          PROVE  profile[n].status \in {"active", "revoked"}
      BY <1>1, <2>1 DEF IInv, AttributionIsKept
    <2>2. ASSUME NEW q \in Messages, Published(q)'
          PROVE  profile[message'[q].author].status \in {"active", "revoked"}
      BY <1>1, <1>5, <2>2 DEF IInv, AttributionIsKept
    <2> QED BY <1>2, <2>1, <2>2 DEF IInv, AttributionIsKept
  <1> QED BY <1>3, <1>4, <1>7, <1>8 DEF IInv

-----------------------------------------------------------------------------
(* Every step is of one of these kinds.                                    *)

\* The kinds that the lemmas above and the refinement are about.
LEMMA Steps ==
    ASSUME IInv, Next
    PROVE  \/ TypeOK' /\ Winds
           \/ Requesting
           \/ \E c \in Tokens, n \in Names : Activates(c, n)
           \/ \E k \in caller, s \in Sessions : Open(k, s)
           \/ \E k \in caller, d \in Tokens : Rotate(k, d)
           \/ \E k \in caller, m \in Messages : WritesAbout(k, m)
  <1>1. CASE Enrolment
    <2>1. ASSUME NEW c \in settings.tokens, NEW n \in settings.names, Ask(c, n)
          PROVE  Requesting
      BY <2>1 DEF Ask, Requesting
    <2>2. ASSUME NEW c \in settings.tokens, DeadlinePasses(c) \/ Deny(c)
          PROVE  Requesting
      BY <2>2 DEF DeadlinePasses, Deny, Requesting
    <2>3. ASSUME NEW c \in settings.tokens, NEW n \in settings.names, Enroll(c, n)
          PROVE  \E d \in Tokens, p \in Names : Activates(d, p)
      BY <2>3, SettingsFit DEF Activates
    <2>4. ASSUME NEW c \in settings.tokens, Approve(c)
          PROVE  \E d \in Tokens, p \in Names : Activates(d, p)
      <3>1. c \in Tokens /\ request[c].name \in Names
        BY <2>4, SettingsFit DEF Approve, Decidable, IInv, RequestsHaveNames
      <3> QED BY <2>4, <3>1 DEF Activates
    <2>5. ASSUME NEW n \in settings.guests, AccessRequested(n) \/ Invited(n)
          PROVE  TypeOK' /\ Winds
      BY <2>5, SettingsFit, AsideWinds, InvitedWinds
    <2>6. CASE SetPolicy
      BY <2>6, AsideWinds
    <2> QED BY <1>1, <2>1, <2>2, <2>3, <2>4, <2>5, <2>6 DEF Enrolment
  <1>2. CASE Custody
    <2>1. ASSUME NEW k \in caller, NEW d \in settings.tokens, Rotate(k, d)
          PROVE  \E e \in Tokens : Rotate(k, e)
      BY <2>1, SettingsFit
    <2>2. ASSUME NEW k \in caller, NEW s \in settings.sessions, Open(k, s)
          PROVE  \E t \in Sessions : Open(k, t)
      BY <2>2, SettingsFit
    <2>3. ASSUME NEW c \in Tokens, Bearer(c) \/ RevokedByMaster(c)
          PROVE  TypeOK' /\ Winds
      BY <2>3, CallWinds, CredentialWinds
    <2>4. ASSUME NEW s \in Sessions, ByBrowser(s) \/ Close(s) \/ SessionExpires(s)
          PROVE  TypeOK' /\ Winds
      BY <2>4, CallWinds, SessionWinds
    <2>5. ASSUME NEW n \in Names, CredentialExpires(n)
          PROVE  TypeOK' /\ Winds
      BY <2>5, CredentialWinds
    <2>6. ASSUME NEW k \in caller, Refuse(k) \/ Revoke(k)
          PROVE  TypeOK' /\ Winds
      BY <2>6, AsideWinds, CredentialWinds
    <2> QED BY <1>2, <2>1, <2>2, <2>3, <2>4, <2>5, <2>6 DEF Custody
  <1>3. CASE Room
    <2>1. ASSUME NEW k \in caller, NEW state \in {"joined", "left"}, SetMembership(k, state)
          PROVE  TypeOK' /\ Winds
      BY <2>1, AsideWinds
    <2>2. ASSUME NEW k \in caller, NEW m \in settings.messages,
                 \/ \E parent \in Messages \cup {NoMessage} : Publish(k, m, parent)
                 \/ Correct(k, m) \/ Withdraw(k, m) \/ Acknowledge(k, m)
          PROVE  \E q \in Messages : WritesAbout(k, q)
      BY <2>2, SettingsFit DEF WritesAbout
    <2> QED BY <1>3, <2>1, <2>2 DEF Room
  <1> QED BY <1>1, <1>2, <1>3 DEF Next

\* The strengthened invariant holds in every state.
THEOREM Invariant == Spec => []IInv
  <1>1. IInv /\ Next => IInv'
    BY Steps, WindsKeep, RequestingKeeps, ActivationKeeps, OpenKeeps, RotationKeeps, WriteKeeps
  <1>2. IInv /\ UNCHANGED vars => IInv'
    BY DEF vars, talk, IInv, TypeOK, ProfilesHaveTokens, CredentialsHaveNames,
         SessionsHaveTokens, CallsHaveAgents, RequestsHaveNames, ReadsAreOld, Published,
         OneOfEach, AttributionIsKept
  <1> QED BY InitHolds, <1>1, <1>2, PTL DEF Spec

\* Two agents are never one and an agent is never two: no name, credential or
\* session is held twice, and one that spoke in public keeps its name.
THEOREM AgentsStayApart == Spec => []AgentsAreDistinct
  <1>1. IInv => AgentsAreDistinct
    BY DEF IInv, AgentsAreDistinct
  <1> QED BY Invariant, <1>1, PTL

\* What a step that changes the message m, or what n acknowledges of it, has to
\* come from.
HadRead(m, n) ==
    /\ \E k \in caller \ caller' :
          /\ k.read[m] = message[m].version
          /\ profile[Agent(k)].token = k.token
          /\ credential[k.token].status = "active"
          /\ ack'[n][m] # ack[n][m] => n = Agent(k)
    /\ message[m].version.withdrawn => message'[m] = message[m]

\* A message changes and is acknowledged only by a call whose agent had read the
\* version that is changed or acknowledged and whose credential is the agent's
\* at that moment; a withdrawal is the last change.
THEOREM ReadingComesFirst == Spec => ChangesFollowTheReading
  <1>1. ASSUME IInv, [Next]_vars, NEW m \in Messages, NEW n \in Names,
               message'[m] # message[m] \/ ack'[n][m] # ack[n][m]
        PROVE  HadRead(m, n)
    <2>1. ~ UNCHANGED <<message, ack>> /\ Next
      BY <1>1 DEF vars, talk
    <2>2. PICK k \in caller, q \in Messages : WritesAbout(k, q)
      <3>1. ~(\/ Winds \/ Requesting
              \/ \E c \in Tokens, p \in Names : Activates(c, p)
              \/ \E k \in caller, s \in Sessions : Open(k, s)
              \/ \E k \in caller, d \in Tokens : Rotate(k, d))
        <4>1. ASSUME NEW c \in Tokens, NEW p \in Names, Activates(c, p)
              PROVE  message' = message /\ ack' = ack
          BY <1>1, <4>1, ActivationMoves
        <4>2. ASSUME NEW k \in caller, NEW d \in Tokens, Rotate(k, d)
              PROVE  message' = message /\ ack' = ack
          BY <4>2 DEF Rotate, talk
        <4>3. ASSUME NEW k \in caller, NEW s \in Sessions, Open(k, s)
              PROVE  message' = message /\ ack' = ack
          BY <4>3 DEF Open, talk
        <4>4. Winds \/ Requesting => message' = message /\ ack' = ack
          BY DEF Winds, Requesting, talk
        <4> QED BY <2>1, <4>1, <4>2, <4>3, <4>4
      <3> QED BY <1>1, <2>1, <3>1, Steps
    <2>3. /\ k \notin caller' /\ k.read[q] = message[q].version
          /\ profile[Agent(k)].token = k.token /\ credential[k.token].status = "active"
          /\ \A r \in Messages \ {q} : message'[r] = message[r]
          /\ ack'[n][m] # ack[n][m] => n = Agent(k) /\ m = q
          /\ message[q].version.withdrawn => message'[q] = message[q]
      BY <1>1, <2>2, WriteMoves
    <2>4. m = q
      BY <1>1, <2>3
    <2> QED BY <2>3, <2>4 DEF HadRead
  <1>2. ASSUME IInv, [Next]_vars
        PROVE  \A m \in Messages : \A n \in Names :
                  (message'[m] # message[m] \/ ack'[n][m] # ack[n][m]) => HadRead(m, n)
    BY <1>1, <1>2
  <1> QED BY Invariant, <1>2, PTL DEF Spec, ChangesFollowTheReading, HadRead

-----------------------------------------------------------------------------
(* The refinement.                                                         *)

\* What stands for the variables of the grant.
Authority == [n \in Names |-> IF Live(n) THEN {profile[n].token} ELSE {}]

Over == {n \in Names : profile[n].status \notin {"none", "elsewhere"} /\ ~Live(n)}

Spent == {c \in Tokens : /\ credential[c].status # "none"
                         /\ ~(Live(credential[c].name)
                              /\ profile[credential[c].name].token = c)}

\* Steps that end agents and credentials end their authority.
LEMMA WindsRefine ==
    ASSUME IInv, IInv', Winds
    PROVE  Grant!GrantNext
  <1>0. PICK ended \in SUBSET Names : ended = {n \in Names : Live(n) /\ ~Live(n)'}
    OBVIOUS
  <1>1. ASSUME NEW n \in Names
        PROVE  /\ Live(n)' => Live(n)
               /\ profile'[n].token = profile[n].token
               /\ profile'[n].status \in {"none", "elsewhere"} <=>
                     profile[n].status \in {"none", "elsewhere"}
    BY DEF Winds, Live, IInv, ProfilesHaveTokens
  <1>2. \A n \in Names : /\ Live(n) => profile[n].token \in Tokens
                         /\ Live(n) => credential[profile[n].token].name = n
                         /\ Live(n) => profile[n].status = "active"
    BY DEF Live, IInv, ProfilesHaveTokens
  <1>3. \A c \in Tokens : /\ credential'[c].name = credential[c].name
                          /\ credential[c].status # "none" => /\ credential'[c].status # "none"
                                                              /\ credential[c].name \in Names
    BY DEF Winds, IInv, CredentialsHaveNames, TypeOK, Credential
  <1>4. Authority' = [n \in Names |-> IF n \in ended THEN {} ELSE Authority[n]]
    BY <1>0, <1>1 DEF Authority
  <1>5. Over' = Over \cup ended
    BY <1>0, <1>1, <1>2 DEF Over
  <1>6. Spent \subseteq Spent' /\ Spent' \subseteq Tokens
    BY <1>1, <1>3 DEF Spent
  <1>7. \A n \in ended : Authority[n] \subseteq Spent'
    BY <1>0, <1>1, <1>2, <1>3 DEF Authority, Spent, Live
  <1>8. ASSUME NEW n \in Names, NEW c \in Authority'[n]
        PROVE  c \notin Spent'
    BY <1>1, <1>2, <1>3, <1>8 DEF Authority, Spent
  <1>9. Grant!End(ended)
    <2>1. Spent \cup UNION {Authority[n] : n \in ended} \subseteq Spent'
      BY <1>6, <1>7
    <2>2. Spent' \cap UNION {Authority'[n] : n \in Names} = {}
      BY <1>8
    <2> QED BY <1>4, <1>5, <1>6, <2>1, <2>2 DEF Grant!End, Grant!Withdraw, Authority, Over, Spent
  <1> QED BY <1>9 DEF Grant!GrantNext

\* Enrolment and approval give a new agent its authority.
LEMMA ActivationRefines ==
    ASSUME IInv, NEW c \in Tokens, NEW n \in Names, Activates(c, n)
    PROVE  Grant!GrantNext
  <1>1. /\ credential[c].status = "none" /\ profile[n].status = "none"
        /\ credential'[c].status = "active" /\ credential'[c].name = n
        /\ \A d \in Tokens \ {c} : credential'[d] = credential[d]
        /\ profile'[n].status = "active" /\ profile'[n].token = c /\ ~profile'[n].lapsed
    BY ActivationMoves
  <1>2. \A p \in Names \ {n} :
           \/ profile'[p] = profile[p]
           \/ p \in Inactive /\ profile'[p].token = profile[p].token
                             /\ profile'[p].status = "retired"
    BY ActivationMoves
  <1>3. Live(n)' /\ ~Live(n)
    BY <1>1 DEF Live
  <1>4. ASSUME NEW p \in Names \ {n}
        PROVE  /\ Live(p)' <=> Live(p)
               /\ profile'[p].token = profile[p].token
               /\ profile'[p].status \in {"none", "elsewhere"} <=>
                     profile[p].status \in {"none", "elsewhere"}
    <2>1. CASE profile'[p] = profile[p]
      <3>1. profile[p].status = "active" => profile[p].token \in Tokens \ {c}
        BY <1>1 DEF IInv, ProfilesHaveTokens
      <3> QED BY <1>1, <2>1, <3>1 DEF Live
    <2>2. CASE p \in Inactive /\ profile'[p].token = profile[p].token
                              /\ profile'[p].status = "retired"
      <3>1. ~Live(p) /\ profile[p].status \in {"active", "revoked"}
        BY <2>2 DEF Inactive
      <3> QED BY <2>2, <3>1 DEF Live
    <2> QED BY <1>2, <2>1, <2>2
  <1>5. Authority[n] = {} /\ Authority' = [Authority EXCEPT ![n] = {c}]
    BY <1>1, <1>3, <1>4 DEF Authority
  <1>6. n \notin Over /\ Over' = Over
    BY <1>1, <1>3, <1>4 DEF Over
  <1>7. c \notin Spent /\ Spent' = Spent
    <2>1. c \notin Spent /\ c \notin Spent'
      BY <1>1, <1>3 DEF Spent
    <2>2. ASSUME NEW d \in Tokens \ {c}
          PROVE  d \in Spent' <=> d \in Spent
      <3>1. credential'[d] = credential[d]
        BY <1>1
      <3>2. credential[d].status # "none" => credential[d].name \in Names
        BY DEF IInv, CredentialsHaveNames, TypeOK, Credential
      <3>3. CASE credential[d].name = n
        BY <1>1, <1>3, <3>1, <3>3 DEF Spent
      <3>4. CASE credential[d].name # n
        BY <1>4, <3>1, <3>2, <3>4 DEF Spent
      <3> QED BY <3>3, <3>4
    <2>3. Spent \subseteq Tokens /\ Spent' \subseteq Tokens
      BY DEF Spent
    <2> QED BY <2>1, <2>2, <2>3
  <1>8. Grant!Give(n, c)
    BY <1>5, <1>6, <1>7 DEF Grant!Give, Authority, Over, Spent
  <1> QED BY <1>8 DEF Grant!GrantNext

\* A rotation passes the authority to the new credential.
LEMMA RotationRefines ==
    ASSUME IInv, NEW k \in caller, NEW d \in Tokens, Rotate(k, d)
    PROVE  Grant!GrantNext
  <1> DEFINE c == k.token
  <1>0. PICK n \in Names : n = credential[k.token].name
    BY RotationMoves
  <1>1. /\ c \in Tokens \ {d} /\ n \in Names /\ Live(n)
        /\ profile[n].token = c /\ profile[n].status = "active"
        /\ credential[c].status = "active" /\ credential[c].name = n
        /\ credential[d].status = "none"
        /\ credential'[c].status = "revoked" /\ credential'[c].name = n
        /\ credential'[d].status = "active" /\ credential'[d].name = n
        /\ \A e \in Tokens \ {c, d} : credential'[e] = credential[e]
    BY <1>0, RotationMoves
  <1>2. /\ profile'[n].status = "active" /\ profile'[n].token = d /\ ~profile'[n].lapsed
        /\ \A p \in Names \ {n} : profile'[p] = profile[p]
    BY <1>0, RotationMoves
  <1> HIDE DEF c
  <1>3. Live(n)'
    BY <1>1, <1>2 DEF Live
  <1>4. ASSUME NEW p \in Names \ {n}
        PROVE  Live(p)' <=> Live(p)
    <2>1. profile[p].status = "active" => profile[p].token \in Tokens \ {c, d}
      BY <1>1 DEF IInv, ProfilesHaveTokens
    <2> QED BY <1>1, <1>2, <2>1 DEF Live
  <1>5. Authority[n] = {c} /\ Authority' = [Authority EXCEPT ![n] = {d}]
    BY <1>1, <1>2, <1>3, <1>4 DEF Authority
  <1>6. Over' = Over
    BY <1>1, <1>2, <1>3, <1>4 DEF Over
  <1>7. d \notin Spent /\ Spent' = Spent \cup {c}
    <2>1. d \notin Spent /\ d \notin Spent' /\ c \in Spent'
      BY <1>1, <1>2, <1>3 DEF Spent
    <2>2. ASSUME NEW e \in Tokens \ {c, d}
          PROVE  e \in Spent' <=> e \in Spent
      <3>1. credential'[e] = credential[e]
        BY <1>1
      <3>2. credential[e].status # "none" => credential[e].name \in Names
        BY DEF IInv, CredentialsHaveNames, TypeOK, Credential
      <3>3. CASE credential[e].name = n
        BY <1>1, <1>2, <3>1, <3>3 DEF Spent
      <3>4. CASE credential[e].name # n
        BY <1>2, <1>4, <3>1, <3>2, <3>4 DEF Spent
      <3> QED BY <3>3, <3>4
    <2>3. Spent \subseteq Tokens /\ Spent' \subseteq Tokens
      BY DEF Spent
    <2> QED BY <1>1, <2>1, <2>2, <2>3
  <1>8. Spent' \subseteq Tokens
    BY DEF Spent
  <1>9. Grant!Pass(n, c, d)
    BY <1>1, <1>5, <1>6, <1>7, <1>8 DEF Grant!Pass, Grant!Withdraw, Authority, Over, Spent
  <1> QED BY <1>1, <1>9 DEF Grant!GrantNext

\* The other steps touch no credential and no profile.
LEMMA QuietSteps ==
    ASSUME \/ UNCHANGED vars
           \/ Requesting
           \/ \E k \in caller, s \in Sessions : Open(k, s)
           \/ \E k \in caller, m \in Messages : WritesAbout(k, m)
    PROVE  UNCHANGED Grant!gvars
  <1>1. UNCHANGED <<profile, credential>>
    BY DEF vars, Requesting, Open, WritesAbout, Publish, Correct, Withdraw, Acknowledge, Writes
  <1> QED BY <1>1 DEF Grant!gvars, Live

\* A name gets authority once, passes it from credential to credential, and an
\* end is final: no approval, enrolment, rotation or compaction brings back an
\* agent or a credential.
THEOREM GrantIsKept == Spec => ImplementsGrant
  <1>1. Init => Grant!GrantInit
    BY DEF Init, Grant!GrantInit, Live
  <1>2. ASSUME IInv, IInv', [Next]_vars
        PROVE  [Grant!GrantNext]_(Grant!gvars)
    <2>1. CASE Next
      BY <1>2, <2>1, Steps, WindsRefine, ActivationRefines, RotationRefines, QuietSteps
    <2>2. CASE UNCHANGED vars
      BY <2>2, QuietSteps
    <2> QED BY <1>2, <2>1, <2>2
  <1> QED BY Invariant, <1>1, <1>2, PTL DEF Spec, ImplementsGrant, Grant!GrantSpec
=============================================================================
