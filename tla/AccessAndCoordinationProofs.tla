--------------------- MODULE AccessAndCoordinationProofs ---------------------
(***************************************************************************)
(* Part one: an agent's access, for any requests, agents and processes.    *)
(* Two inductive invariants: RowsInv, what the rows say of each other      *)
(* whatever processes serve the store, and SerialInv, which adds that what *)
(* a process decided still holds when it writes, true only while no other  *)
(* process is serving the store.  Part two: its inboxes and meeting rooms, *)
(* for any agents, rooms and workers, in one process and in several.       *)
(***************************************************************************)
EXTENDS AgentAccess, Coordination, FiniteSetTheorems, TLAPS

\* The rows and the decision of a call that has none are of their types.
LEMMA EmptyRows ==
    /\ NoRow.intent \in Intent
    /\ NoRow.request \in Request
    /\ NoRow.invite \in Invite
    /\ NoRow.token \in Token
    /\ NoRow.replacement \in Replacement
    /\ Free \in Decision
BY DEF NoRow, Intent, Request, Invite, Token, Replacement, Free, Decision,
       Grants, Outcomes, CompanyStatus, Operations, Purposes

\* Ending a token changes its grant and its revocation only.
LEMMA EndedRow ==
    ASSUME TypeOK, NEW t \in Tokens, NEW from \in Grants, NEW to \in Grants
    PROVE  /\ Ended(t, from, to) \in Token
           /\ Ended(t, from, to).dead
           /\ Ended(t, from, to).grant = IF token[t].grant = from THEN to ELSE token[t].grant
           /\ Ended(t, from, to).activated = token[t].activated
           /\ Ended(t, from, to).name = token[t].name
           /\ Ended(t, from, to).pred = token[t].pred
           /\ Ended(t, from, to).request = token[t].request
<1>1. token[t] \in Token
    BY DEF TypeOK
<1>2. QED
    BY <1>1 DEF Ended, Token

\* Superseding and dropping leave a table of tokens.
LEMMA EndedTokens ==
    ASSUME TypeOK, NEW x, NEW grant \in Grants
    PROVE  /\ Superseded(x, grant) \in [Tokens -> Token]
           /\ DroppedToken(x, grant) \in [Tokens -> Token]
<1>1. "active" \in Grants /\ "pending_activation" \in Grants
    BY DEF Grants
<1>2. QED
    BY <1>1, EndedRow DEF Superseded, DroppedToken, TypeOK

\* A new company has rows of their types.
LEMMA TypeInit == Init => TypeOK
BY EmptyRows DEF Init, TypeOK, Company, CompanyStatus

\* Every step writes rows of their types.
LEMMA TypeStep == TypeOK /\ [Next]_vars => TypeOK'
<1> SUFFICES ASSUME TypeOK, [Next]_vars PROVE TypeOK'
    OBVIOUS
<1> USE DEF TypeOK, rows, workers
<1>f. ASSUME NEW p \in Processes, Leave(p) PROVE held' \in [Processes -> Decision]
    BY <1>f DEF Leave, Free, Decision, Operations, Purposes
<1>w. \A p \in workers : p \in Processes
    BY ConstantsAssumption
<1>1. ASSUME NEW c \in Callers, AuthenticateMaster(c) PROVE TypeOK'
    BY <1>1 DEF AuthenticateMaster
<1>2. ASSUME NEW c \in Callers, NEW p \in workers, MasterStep(c, p) PROVE TypeOK'
  <2>1. ASSUME NEW n \in Names, NEW old \in Tokens \cup {NoToken},
              NEW from \in Tokens \cup {NoToken},
               ReadRequest(c, p, n, old, from)
        PROVE  TypeOK'
      BY <2>1, <1>w DEF ReadRequest, Acts, Free, Decision, Operations
  <2>2. ASSUME NEW r \in Requests, NEW d \in {"approved", "denied"}, ReadDecide(c, p, r, d)
        PROVE  TypeOK'
      BY <2>2, <1>w DEF ReadDecide, Acts, Free, Decision, Operations, Request
  <2>3. ASSUME NEW r \in Requests, ReadIssue(c, p, r) PROVE TypeOK'
      BY <2>3, <1>w DEF ReadIssue, EntryAvailable, Acts, Free, Decision, Operations, Invite
  <2>4. ASSUME NEW r \in Requests, ExpireOnIssue(c, p, r) PROVE TypeOK'
      BY <2>4 DEF ExpireOnIssue, Acts, Invite
  <2>5. ASSUME NEW r \in Requests, RevokeInvite(c, p, r) PROVE TypeOK'
      BY <2>5 DEF RevokeInvite, Acts, Invite
  <2>6. ASSUME NEW t \in Tokens, RevokeToken(c, p, t) PROVE TypeOK'
    <3>1. "revoked" \in Grants
        BY DEF Grants
    <3>2. token' \in [Tokens -> Token]
        BY <2>6, <3>1, EndedTokens DEF RevokeToken
    <3>3. QED
        BY <2>6, <3>2 DEF RevokeToken, Acts
  <2>7. QED
      BY <1>2, <2>1, <2>2, <2>3, <2>4, <2>5, <2>6 DEF MasterStep
<1>3. ASSUME NEW p \in workers, InviteStep(p) PROVE TypeOK'
  <2>1. ASSUME NEW r \in Requests, RequestAccess(p, r) PROVE TypeOK'
      BY <2>1, <1>w, <1>f DEF RequestAccess, Request, Decision
  <2>2. ASSUME NEW r \in Requests, ExpireOnRedeem(p, r) PROVE TypeOK'
      BY <2>2 DEF ExpireOnRedeem, Invite
  <2>3. ASSUME IssueInvite(p) PROVE TypeOK'
    <3>1. held' \in [Processes -> Decision]
        BY <2>3, <1>w, <1>f DEF IssueInvite
    <3>2. invite' \in [Requests -> Invite]
      <4> DEFINE r == held[p].request
      <4>1. r \in Requests
          BY <2>3, <1>w DEF IssueInvite, Decision
      <4>2. invite[r].round + 1 \in Nat
          BY <4>1 DEF Invite
      <4>3. [status |-> "issued", round |-> invite[r].round + 1, lapsed |-> FALSE,
             token |-> NoToken] \in Invite
          BY <4>2 DEF Invite
      <4>4. QED
          BY <2>3, <4>1, <4>3 DEF IssueInvite
    <3>3. QED
        BY <2>3, <3>1, <3>2 DEF IssueInvite
  <2>4. ASSUME NEW r \in Requests, NEW t \in Tokens, Redeem(p, r, t) PROVE TypeOK'
    <3>1. invite' \in [Requests -> Invite]
        BY <2>4 DEF Redeem, Invite
    <3>2. request[r] \in Request
        OBVIOUS
    <3>3. [grant |-> "active", activated |-> TRUE, dead |-> FALSE, name |-> request[r].name,
           pred |-> request[r].supersedes, request |-> r] \in Token
        BY <3>2 DEF Token, Request, Grants
    <3>4. token' \in [Tokens -> Token]
      <4>1. "revoked" \in Grants
          BY DEF Grants
      <4>2. Superseded(request[r].supersedes, "revoked") \in [Tokens -> Token]
          BY <4>1, EndedTokens
      <4>3. QED
          BY <2>4, <3>3, <4>2 DEF Redeem
    <3>5. QED
        BY <2>4, <3>1, <3>4 DEF Redeem
  <2>5. ASSUME Decide(p) PROVE TypeOK'
    <3>1. held' \in [Processes -> Decision]
        BY <2>5, <1>w, <1>f DEF Decide
    <3>2. identity' \subseteq Names \cup {NoName}
        BY <2>5, <1>w DEF Decide, Decision
    <3>3. request' \in [Requests -> Request]
      <4> DEFINE r == held[p].request
      <4>1. r \in Requests
          BY <2>5, <1>w DEF Decide, Decision
      <4>2. held[p].op \in {"approved", "denied"}
          BY <2>5 DEF Decide
      <4>3. [request EXCEPT ![r].status = held[p].op] \in [Requests -> Request]
          BY <4>1, <4>2 DEF Request
      <4>4. QED
          BY <2>5, <4>3 DEF Decide
    <3>4. QED
        BY <2>5, <3>1, <3>2, <3>3 DEF Decide
  <2>6. QED
      BY <1>3, <2>1, <2>2, <2>3, <2>4, <2>5 DEF InviteStep
<1>4. ASSUME NEW p \in workers, ReplacementStep(p) PROVE TypeOK'
  <2>1. ASSUME NEW t \in Tokens, NEW overdue \in Tokens \cup {NoToken},
               ReadPrepare(p, t, overdue)
        PROVE  TypeOK'
      BY <2>1, <1>w DEF ReadPrepare, Free, Decision, Operations
  <2>2. ASSUME NEW s \in Tokens, Prepare(p, s) PROVE TypeOK'
    <3>1. held' \in [Processes -> Decision]
        BY <2>2, <1>w, <1>f DEF Prepare
    <3>2. replacement' \in [Tokens -> Replacement]
        BY <2>2 DEF Prepare, DroppedReplacement, Replacement, Outcomes
    <3>3. token' \in [Tokens -> Token]
      <4> DEFINE t == held[p].token
      <4>1. t \in Tokens
          BY <2>2, <1>w DEF Prepare, Decision
      <4>2. token[t] \in Token
          BY <4>1
      <4>3. [grant |-> "pending_activation", activated |-> FALSE, dead |-> FALSE,
             name |-> token[t].name, pred |-> t, request |-> NoRequest] \in Token
          BY <4>1, <4>2 DEF Token, Grants
      <4>4. "expired" \in Grants
          BY DEF Grants
      <4>5. DroppedToken(held[p].from, "expired") \in [Tokens -> Token]
          BY <4>4, EndedTokens
      <4>6. QED
          BY <2>2, <4>3, <4>5 DEF Prepare
    <3>4. QED
        BY <2>2, <3>1, <3>2, <3>3 DEF Prepare
  <2>3. ASSUME NEW s \in Tokens, ReadConfirm(p, s) PROVE TypeOK'
      BY <2>3, <1>w DEF ReadConfirm, Free, Decision, Operations
  <2>4. ASSUME Confirm(p) PROVE TypeOK'
    <3>1. held' \in [Processes -> Decision]
        BY <2>4, <1>w, <1>f DEF Confirm
    <3>2. replacement' \in [Tokens -> Replacement]
        BY <2>4 DEF Confirm, DroppedReplacement, Replacement, Outcomes
    <3>3. token' \in [Tokens -> Token]
      <4> DEFINE s == held[p].token
                 new == Superseded(token[s].pred, "superseded")
      <4>1. "superseded" \in Grants /\ "active" \in Grants
          BY DEF Grants
      <4>2. s \in Tokens
          BY <2>4, <1>w DEF Confirm, Decision
      <4>3. new \in [Tokens -> Token]
          BY <4>1, EndedTokens
      <4>4. [new[s] EXCEPT !.grant = "active", !.activated = TRUE] \in Token
        <5> HIDE DEF new
        <5>1. new[s] \in Token
            BY <4>2, <4>3
        <5>2. QED
            BY <5>1, <4>1 DEF Token
      <4>5. token' = [new EXCEPT ![s] = [new[s] EXCEPT !.grant = "active",
                                                       !.activated = TRUE]]
        <5>1. token' = [new EXCEPT ![s].grant = "active", ![s].activated = TRUE]
            BY <2>4 DEF Confirm
        <5> HIDE DEF new
        <5>2. QED
            BY <5>1, <4>2, <4>3 DEF Token
      <4> HIDE DEF new
      <4>6. QED
          BY <4>2, <4>3, <4>4, <4>5
    <3>4. QED
        BY <2>4, <3>1, <3>2, <3>3 DEF Confirm
  <2>5. ASSUME ConfirmLost(p) PROVE TypeOK'
      BY <2>5, <1>w, <1>f DEF ConfirmLost
  <2>6. ASSUME Drop(p) PROVE TypeOK'
    <3>1. held' \in [Processes -> Decision]
        BY <2>6, <1>w, <1>f DEF Drop
    <3>2. replacement' \in [Tokens -> Replacement]
        BY <2>6 DEF Drop, DroppedReplacement, Replacement, Outcomes
    <3>3. token' \in [Tokens -> Token]
      <4>1. "cancelled" \in Grants /\ "expired" \in Grants
          BY DEF Grants
      <4>2. QED
          BY <2>6, <4>1, EndedTokens DEF Drop
    <3>4. QED
        BY <2>6, <3>1, <3>2, <3>3 DEF Drop
  <2>7. ASSUME NEW s \in Tokens, ReadCancel(p, s) \/ ReadExpire(p, s)
        PROVE  TypeOK'
    <3>1. CASE ReadCancel(p, s)
        BY <3>1, <1>w DEF ReadCancel, Free, Decision, Operations
    <3>2. CASE ReadExpire(p, s)
        BY <3>2, <1>w DEF ReadExpire, Free, Decision, Operations
    <3>3. QED
        BY <2>7, <3>1, <3>2
  <2>8. QED
      BY <1>4, <2>1, <2>2, <2>3, <2>4, <2>5, <2>6, <2>7 DEF ReplacementStep
<1>5. ASSUME NEW p \in workers, CompanyStep(p) PROVE TypeOK'
  <2>1. ASSUME NEW i \in Intents, NEW purpose \in Purposes, CreateIntent(p, i, purpose)
        PROVE  TypeOK'
      BY <2>1 DEF CreateIntent, Intent
  <2>2. ASSUME NEW i \in Intents, ReadIntent(p, i) PROVE TypeOK'
    <3>1. /\ company.status \in CompanyStatus /\ company.status # "none"
          /\ intent[i].purpose \in Purposes \cup {"none"}
        BY DEF Company, CompanyStatus, Intent
    <3>2. QED
        BY <2>2, <1>w, <3>1 DEF ReadIntent, Free, Decision, Operations, Purposes
  <2>3. ASSUME Close(p) PROVE TypeOK'
    <3>1. held' \in [Processes -> Decision]
        BY <2>3, <1>w, <1>f DEF Close
    <3>2. intent' \in [Intents -> Intent]
        BY <2>3, EmptyRows DEF Close, Consume
    <3>3. company' \in Company
        BY <2>3 DEF Close, Company, CompanyStatus
    <3>4. token' \in [Tokens -> Token]
      <4>1. "active" \in Grants /\ "revoked" \in Grants
          BY DEF Grants
      <4>2. QED
          BY <2>3, <4>1, EndedRow DEF Close
    <3>5. invite' \in [Requests -> Invite]
        BY <2>3 DEF Close, Invite
    <3>6. QED
        BY <2>3, <3>1, <3>2, <3>3, <3>4, <3>5 DEF Close
  <2>4. ASSUME SoftDelete(p) PROVE TypeOK'
    <3>1. held' \in [Processes -> Decision]
        BY <2>4, <1>w, <1>f DEF SoftDelete
    <3>2. intent' \in [Intents -> Intent]
        BY <2>4, EmptyRows DEF SoftDelete, Consume
    <3>3. company' \in Company
        BY <2>4, <1>w DEF SoftDelete, Company, CompanyStatus, Decision
    <3>4. QED
        BY <2>4, <3>1, <3>2, <3>3 DEF SoftDelete
  <2>5. ASSUME ReadRestore(p) PROVE TypeOK'
    <3>1. /\ "active" \in CompanyStatus
          /\ company.pre_delete_status # "none" => company.pre_delete_status \in CompanyStatus
        BY DEF Company, CompanyStatus
    <3>2. QED
        BY <2>5, <1>w, <3>1 DEF ReadRestore, Free, Decision, Operations
  <2>6. ASSUME Restore(p) PROVE TypeOK'
    <3>1. held' \in [Processes -> Decision]
        BY <2>6, <1>w, <1>f DEF Restore
    <3>2. held[p].status \in CompanyStatus
        BY <2>6, <1>w DEF Restore, Decision
    <3>3. QED
        BY <2>6, <3>1, <3>2 DEF Restore, Company
  <2>7. ASSUME Purge(p) PROVE TypeOK'
    <3>1. held' \in [Processes -> Decision]
        BY <2>7, <1>w, <1>f DEF Purge
    <3>2. QED
        BY <2>7, <3>1, EmptyRows DEF Purge, Company, CompanyStatus
  <2>8. ASSUME FindNothing(p) PROVE TypeOK'
      BY <2>8, <1>w, <1>f DEF FindNothing
  <2>9. QED
      BY <1>5, <2>1, <2>2, <2>3, <2>4, <2>5, <2>6, <2>7, <2>8 DEF CompanyStep
<1>6. ASSUME NEW r \in Requests, LapseInvite(r) PROVE TypeOK'
    BY <1>6 DEF LapseInvite, Invite
<1>7. ASSUME NEW s \in Tokens, LapseReplacement(s) PROVE TypeOK'
    BY <1>7 DEF LapseReplacement, Replacement
<1>8. CASE UNCHANGED vars
    BY <1>8 DEF vars
<1>9. QED
    BY <1>1, <1>2, <1>3, <1>4, <1>5, <1>6, <1>7, <1>8 DEF Next

-----------------------------------------------------------------------------
(* What an unfinished call may do to the rows of tokens.                   *)

\* A row of tokens keeps where it came from, and a revocation is final.
Descends(new) ==
    \A u \in Tokens : /\ new[u].activated = token[u].activated
                      /\ new[u].pred = token[u].pred
                      /\ new[u].request = token[u].request
                      /\ token[u].dead => new[u].dead

\* Superseding or revoking a token touches its grant if it was active.
LEMMA SupersededRows ==
    ASSUME TypeOK, NEW x, NEW grant \in Grants
    PROVE  LET new == Superseded(x, grant) IN
           /\ Descends(new)
           /\ \A u \in Tokens : new[u].grant = IF u = x /\ token[u].grant = "active"
                                               THEN grant ELSE token[u].grant
           /\ x \in Tokens => new[x].dead
<1>1. "active" \in Grants
    BY DEF Grants
<1>2. QED
    BY <1>1, EndedRow DEF Superseded, Descends

\* Dropping a successor touches its grant if it was pending.
LEMMA DroppedRows ==
    ASSUME TypeOK, NEW x, NEW grant \in Grants
    PROVE  LET new == DroppedToken(x, grant) IN
           /\ Descends(new)
           /\ \A u \in Tokens : new[u].grant = IF u = x /\ token[u].grant = "pending_activation"
                                               THEN grant ELSE token[u].grant
           /\ x \in Tokens => new[x].dead
<1>1. "pending_activation" \in Grants
    BY DEF Grants
<1>2. QED
    BY <1>1, EndedRow DEF DroppedToken, Descends

-----------------------------------------------------------------------------
(* The rows of a company, whatever the processes do to each other.         *)

\* A replacement is of a token that exists, and open while its grant is.
ReplacementsHaveSuccessors ==
    \A s \in Tokens :
        /\ replacement[s].status # "none" => Known(s) /\ token[s].pred \in Tokens
        /\ replacement[s].status = "prepared" <=> token[s].grant = "pending_activation"

\* A predecessor is never deleted from under its successor.
PredecessorsAreKnown ==
    \A s \in Tokens : token[s].pred # NoToken => Known(token[s].pred)

\* A redeemed token and its invitation name each other.
RedeemedTokens ==
    \A t \in Tokens : token[t].request # NoRequest =>
        /\ invite[token[t].request].status = "redeemed"
        /\ invite[token[t].request].token = t

\* A token that is to be replaced exists.
PreparationsAreOfTokens ==
    \A p \in Processes :
        held[p].op = "prepare" /\ company.status # "purged" => Known(held[p].token)

RowsInv ==
    /\ TypeOK
    /\ ReplacementsHaveSuccessors
    /\ PredecessorsAreKnown
    /\ RedeemedTokens
    /\ PreparationsAreOfTokens
    /\ ReplacementRowsAreTrue

\* A new company has no row that could disagree with another.
LEMMA RowsInit == Init => RowsInv
BY TypeInit
   DEF Init, RowsInv, NoRow, Free, ReplacementsHaveSuccessors, PredecessorsAreKnown,
       RedeemedTokens, PreparationsAreOfTokens, ReplacementRowsAreTrue

\* A step that leaves the rows of tokens and replacements keeps their facts.
LEMMA RowsKept ==
    ASSUME RowsInv, UNCHANGED <<token, replacement>>
    PROVE  /\ ReplacementsHaveSuccessors'
           /\ PredecessorsAreKnown'
           /\ ReplacementRowsAreTrue'
BY DEF RowsInv, ReplacementsHaveSuccessors, PredecessorsAreKnown, ReplacementRowsAreTrue, Known

\* A step that leaves the redeemed invitations keeps what they say.
LEMMA InvitesKept ==
    ASSUME RowsInv, UNCHANGED token, TypeOK',
           \A r \in Requests : invite[r].status = "redeemed" =>
                invite'[r].status = "redeemed" /\ invite'[r].token = invite[r].token
    PROVE  RedeemedTokens'
BY DEF RowsInv, TypeOK, RedeemedTokens, Token

\* Decisions made or dropped while tokens stay, or stay known.
LEMMA PreparationsKept ==
    ASSUME RowsInv, company.status = "purged" => company'.status = "purged",
           \A u \in Tokens : Known(u) => Known(u)',
           \A q \in Processes : held'[q].op = "prepare" => held'[q] = held[q]
    PROVE  PreparationsAreOfTokens'
<1> SUFFICES ASSUME NEW q \in Processes, held'[q].op = "prepare", company'.status # "purged"
             PROVE  Known(held[q].token)'
    BY DEF PreparationsAreOfTokens
<1>1. held'[q] = held[q] /\ Known(held[q].token) /\ held[q].token \in Tokens
    BY DEF RowsInv, TypeOK, Decision, PreparationsAreOfTokens
<1>2. QED
    BY <1>1 DEF Known

\* Whoever is inside a call that prepares has the other decisions alone.
LEMMA OthersKept ==
    ASSUME RowsInv, NEW p \in Processes, Leave(p) \/ held' = held
    PROVE  \A q \in Processes : held'[q].op = "prepare" => held'[q] = held[q]
BY DEF RowsInv, TypeOK, Leave, Free

\* The steps of the master credential's holders.
LEMMA MasterRows ==
    ASSUME RowsInv, TypeOK', NEW c \in Callers, NEW p \in Processes, MasterStep(c, p)
    PROVE  RowsInv'
<1> USE DEF rows
<1>1. ASSUME NEW n \in Names, NEW old \in Tokens \cup {NoToken},
            NEW from \in Tokens \cup {NoToken},
             ReadRequest(c, p, n, old, from)
      PROVE  RowsInv'
  <2>1. \A q \in Processes : held'[q].op = "prepare" => held'[q] = held[q]
      BY <1>1 DEF ReadRequest, RowsInv, TypeOK, Free
  <2>2. QED
      BY <1>1, <2>1, RowsKept, InvitesKept, PreparationsKept DEF ReadRequest, RowsInv, Known
<1>2. ASSUME NEW r \in Requests, NEW d \in {"approved", "denied"}, ReadDecide(c, p, r, d)
      PROVE  RowsInv'
  <2>1. \A q \in Processes : held'[q].op = "prepare" => held'[q] = held[q]
      BY <1>2 DEF ReadDecide, RowsInv, TypeOK, Free
  <2>2. QED
      BY <1>2, <2>1, RowsKept, InvitesKept, PreparationsKept DEF ReadDecide, RowsInv, Known
<1>3. ASSUME NEW r \in Requests, ReadIssue(c, p, r) PROVE RowsInv'
  <2>1. \A q \in Processes : held'[q].op = "prepare" => held'[q] = held[q]
      BY <1>3 DEF ReadIssue, RowsInv, TypeOK, Free
  <2>2. QED
      BY <1>3, <2>1, RowsKept, InvitesKept, PreparationsKept DEF ReadIssue, RowsInv, Known
<1>4. ASSUME NEW r \in Requests, ExpireOnIssue(c, p, r) \/ RevokeInvite(c, p, r)
      PROVE  RowsInv'
  <2>1. \A q \in Requests : invite[q].status = "redeemed" => invite'[q] = invite[q]
      BY <1>4 DEF ExpireOnIssue, RevokeInvite, RowsInv, TypeOK
  <2>2. QED
      BY <1>4, <2>1, RowsKept, InvitesKept, PreparationsKept
         DEF ExpireOnIssue, RevokeInvite, RowsInv, Known
<1>5. ASSUME NEW t \in Tokens, RevokeToken(c, p, t) PROVE RowsInv'
  <2>1. "revoked" \in Grants
      BY DEF Grants
  <2>2. /\ Descends(token')
        /\ \A u \in Tokens : token'[u].grant = IF u = t /\ token[u].grant = "active"
                                               THEN "revoked" ELSE token[u].grant
      BY <1>5, <2>1, SupersededRows DEF RevokeToken, RowsInv
  <2>3. UNCHANGED <<replacement, invite, company, held>>
      BY <1>5 DEF RevokeToken
  <2>4. ReplacementsHaveSuccessors'
      BY <2>2, <2>3 DEF RowsInv, ReplacementsHaveSuccessors, Descends, Known
  <2>5. PredecessorsAreKnown'
      BY <2>2 DEF RowsInv, PredecessorsAreKnown, Descends, Known, TypeOK, Token
  <2>6. RedeemedTokens'
      BY <2>2, <2>3 DEF RowsInv, RedeemedTokens, Descends
  <2>7. PreparationsAreOfTokens'
      BY <2>2, <2>3, PreparationsKept DEF Known
  <2>8. ReplacementRowsAreTrue'
      BY <2>2, <2>3 DEF RowsInv, ReplacementRowsAreTrue, ReplacementsHaveSuccessors, Descends
  <2>9. QED
      BY <2>4, <2>5, <2>6, <2>7, <2>8 DEF RowsInv
<1>6. QED
    BY <1>1, <1>2, <1>3, <1>4, <1>5 DEF MasterStep

\* The steps on requests, invitations and their redemption.
LEMMA InviteRows ==
    ASSUME RowsInv, TypeOK', NEW p \in Processes, InviteStep(p)
    PROVE  RowsInv'
<1> USE DEF rows
<1>1. ASSUME NEW r \in Requests, RequestAccess(p, r) PROVE RowsInv'
    BY <1>1, OthersKept, RowsKept, InvitesKept, PreparationsKept
       DEF RequestAccess, RowsInv, Known
<1>2. ASSUME NEW r \in Requests, ExpireOnRedeem(p, r) PROVE RowsInv'
  <2>1. \A q \in Requests : invite[q].status = "redeemed" => invite'[q] = invite[q]
      BY <1>2 DEF ExpireOnRedeem, RowsInv, TypeOK
  <2>2. QED
      BY <1>2, <2>1, RowsKept, InvitesKept, PreparationsKept DEF ExpireOnRedeem, RowsInv, Known
<1>3. ASSUME IssueInvite(p) PROVE RowsInv'
  <2>1. \A q \in Requests : invite[q].status = "redeemed" => invite'[q] = invite[q]
      BY <1>3 DEF IssueInvite, Issuable, RowsInv, TypeOK
  <2>2. QED
      BY <1>3, <2>1, OthersKept, RowsKept, InvitesKept, PreparationsKept
         DEF IssueInvite, RowsInv, Known
<1>4. ASSUME NEW r \in Requests, NEW t \in Tokens, Redeem(p, r, t) PROVE RowsInv'
  <2> DEFINE old == request[r].supersedes
             new == Superseded(old, "revoked")
  <2>1. "revoked" \in Grants
      BY DEF Grants
  <2>2. /\ Descends(new)
        /\ \A u \in Tokens : new[u].grant = IF u = old /\ token[u].grant = "active"
                                            THEN "revoked" ELSE token[u].grant
        /\ new \in [Tokens -> Token]
      BY <2>1, SupersededRows, EndedTokens DEF RowsInv
  <2>3. token' = [new EXCEPT ![t] = [grant |-> "active", activated |-> TRUE, dead |-> FALSE,
                      name |-> request[r].name, pred |-> old, request |-> r]]
      BY <1>4 DEF Redeem
  <2>4. /\ old \in Tokens \cup {NoToken}
        /\ old # NoToken => Known(old)
        /\ ~Known(t)
      BY <1>4 DEF Redeem, Supersedable, Live, Known, RowsInv, TypeOK, Request
  <2> HIDE DEF new, old
  <2>5. /\ UNCHANGED <<replacement, company, held>>
        /\ invite[r].status = "issued"
        /\ invite' = [invite EXCEPT ![r].status = "redeemed", ![r].token = t]
      BY <1>4 DEF Redeem
  <2>6. ReplacementsHaveSuccessors'
      BY <2>2, <2>3, <2>4, <2>5 DEF RowsInv, ReplacementsHaveSuccessors, Descends, Known
  <2>7. PredecessorsAreKnown'
      BY <2>2, <2>3, <2>4 DEF RowsInv, PredecessorsAreKnown, Descends, Known, TypeOK, Token
  <2>8. RedeemedTokens'
    <3>1. /\ invite'[r].status = "redeemed" /\ invite'[r].token = t
          /\ \A q \in Requests \ {r} : invite'[q] = invite[q]
        BY <2>5 DEF RowsInv, TypeOK, Invite
    <3>2. /\ token'[t].request = r
          /\ \A u \in Tokens \ {t} : token'[u].request = token[u].request
        BY <2>2, <2>3 DEF Descends
    <3>3. \A u \in Tokens : token[u].request \in Requests \cup {NoRequest}
        BY DEF RowsInv, TypeOK, Token
    <3>4. \A u \in Tokens : token[u].request # r
        BY <2>5, ConstantsAssumption DEF RowsInv, RedeemedTokens
    <3>5. QED
        BY <3>1, <3>2, <3>3, <3>4 DEF RowsInv, RedeemedTokens
  <2>9. PreparationsAreOfTokens'
      BY <2>2, <2>3, <2>5, PreparationsKept DEF Known
  <2>10. ReplacementRowsAreTrue'
    <3>1. \A u \in Tokens : replacement[u].status # "none" =>
              u # t /\ token[u].pred \in Tokens /\ token[u].pred # t
        BY <2>4, ConstantsAssumption
           DEF RowsInv, ReplacementsHaveSuccessors, PredecessorsAreKnown, Known
    <3>2. \A u \in Tokens \ {t} : token'[u] = new[u]
        BY <2>2, <2>3
    <3>3. QED
        BY <2>2, <2>5, <3>1, <3>2 DEF RowsInv, ReplacementRowsAreTrue, Descends
  <2>11. QED
      BY <2>6, <2>7, <2>8, <2>9, <2>10 DEF RowsInv
<1>5. ASSUME Decide(p) PROVE RowsInv'
    BY <1>5, OthersKept, RowsKept, InvitesKept, PreparationsKept DEF Decide, RowsInv, Known
<1>6. QED
    BY <1>1, <1>2, <1>3, <1>4, <1>5 DEF InviteStep

\* The steps that replace a token.
LEMMA ReplacementRows ==
    ASSUME RowsInv, TypeOK', NEW p \in Processes, ReplacementStep(p)
    PROVE  RowsInv'
<1> USE DEF rows
<1>1. ASSUME NEW t \in Tokens, NEW overdue \in Tokens \cup {NoToken}, ReadPrepare(p, t, overdue)
      PROVE  RowsInv'
  <2>1. PreparationsAreOfTokens'
    <3>1. /\ UNCHANGED <<token, company>> /\ Known(t)
          /\ held'[p].token = t
          /\ \A q \in Processes \ {p} : held'[q] = held[q]
      <4>1. /\ held' = [held EXCEPT ![p] = [Free EXCEPT !.op = "prepare", !.token = t,
                                                        !.from = overdue]]
            /\ UNCHANGED <<token, company>>
            /\ token[t].grant = "active"
          BY <1>1 DEF ReadPrepare, Live
      <4>2. QED
          BY <4>1 DEF RowsInv, TypeOK, Free, Known
    <3>2. QED
        BY <3>1 DEF PreparationsAreOfTokens, RowsInv, Known
  <2>2. QED
      BY <1>1, <2>1, RowsKept, InvitesKept DEF ReadPrepare, RowsInv
<1>2. ASSUME NEW s \in Tokens, Prepare(p, s) PROVE RowsInv'
  <2> DEFINE t == held[p].token
             x == held[p].from
             new == DroppedToken(x, "expired")
  <2>1. "expired" \in Grants
      BY DEF Grants
  <2>2. /\ Descends(new)
        /\ \A u \in Tokens : new[u].grant = IF u = x /\ token[u].grant = "pending_activation"
                                            THEN "expired" ELSE token[u].grant
        /\ x \in Tokens => new[x].dead
        /\ new \in [Tokens -> Token]
      BY <2>1, DroppedRows, EndedTokens DEF RowsInv
  <2>3. token' = [new EXCEPT ![s] = [grant |-> "pending_activation", activated |-> FALSE,
                      dead |-> FALSE, name |-> token[t].name, pred |-> t,
                      request |-> NoRequest]]
      BY <1>2 DEF Prepare
  <2>4. /\ t \in Tokens
        /\ Known(t)
        /\ ~Known(s)
      BY <1>2 DEF Prepare, RowsInv, TypeOK, Decision, PreparationsAreOfTokens
  <2> HIDE DEF new
  <2>5. \A u \in Tokens : replacement'[u].status =
            IF u = s THEN "prepared"
            ELSE IF u = x /\ replacement[u].status = "prepared" THEN "expired"
            ELSE replacement[u].status
      BY <1>2 DEF Prepare, DroppedReplacement, RowsInv, TypeOK, Replacement
  <2>6. UNCHANGED <<invite, company>> /\ Leave(p)
      BY <1>2 DEF Prepare
  <2> HIDE DEF t, x
  <2>7. ReplacementsHaveSuccessors'
      BY <2>2, <2>3, <2>4, <2>5 DEF RowsInv, ReplacementsHaveSuccessors, Descends, Known
  <2>8. PredecessorsAreKnown'
      BY <2>2, <2>3, <2>4 DEF RowsInv, PredecessorsAreKnown, Descends, Known, TypeOK, Token
  <2>9. RedeemedTokens'
      BY <2>2, <2>3, <2>6 DEF RowsInv, RedeemedTokens, Descends
  <2>10. PreparationsAreOfTokens'
      BY <2>2, <2>3, <2>6, OthersKept, PreparationsKept DEF Known
  <2>11. ReplacementRowsAreTrue'
    <3>1. \A u \in Tokens : replacement[u].status # "none" =>
              u # s /\ token[u].pred \in Tokens /\ token[u].pred # s
        BY <2>4, ConstantsAssumption
           DEF RowsInv, ReplacementsHaveSuccessors, PredecessorsAreKnown, Known
    <3>2. /\ \A u \in Tokens \ {s} : token'[u] = new[u]
          /\ ~token'[s].activated
        BY <2>2, <2>3
    <3>3. QED
        BY <2>2, <2>5, <3>1, <3>2 DEF RowsInv, ReplacementRowsAreTrue, Descends
  <2>12. QED
      BY <2>7, <2>8, <2>9, <2>10, <2>11 DEF RowsInv
<1>3. ASSUME NEW s \in Tokens, ReadConfirm(p, s) PROVE RowsInv'
  <2>1. \A q \in Processes : held'[q].op = "prepare" => held'[q] = held[q]
      BY <1>3 DEF ReadConfirm, RowsInv, TypeOK, Free
  <2>2. QED
      BY <1>3, <2>1, RowsKept, InvitesKept, PreparationsKept DEF ReadConfirm, RowsInv, Known
<1>4. ASSUME Confirm(p) PROVE RowsInv'
  <2> DEFINE s == held[p].token
             old == token[s].pred
             new == Superseded(old, "superseded")
  <2>1. "superseded" \in Grants
      BY DEF Grants
  <2>2. /\ Descends(new)
        /\ \A u \in Tokens : new[u].grant = IF u = old /\ token[u].grant = "active"
                                            THEN "superseded" ELSE token[u].grant
        /\ old \in Tokens => new[old].dead
        /\ new \in [Tokens -> Token]
      BY <2>1, SupersededRows, EndedTokens DEF RowsInv
  <2>3. token' = [new EXCEPT ![s].grant = "active", ![s].activated = TRUE]
      BY <1>4 DEF Confirm
  <2>4. /\ s \in Tokens
        /\ token[s].grant = "pending_activation"
        /\ replacement[s].status = "prepared"
        /\ old \in Tokens
      BY <1>4 DEF Confirm, RowsInv, TypeOK, Decision, ReplacementsHaveSuccessors
  <2> HIDE DEF new
  <2>5. \A u \in Tokens : replacement'[u].status =
            IF u = s THEN "confirmed" ELSE replacement[u].status
      BY <1>4, <2>4 DEF Confirm, DroppedReplacement, RowsInv, TypeOK, Replacement
  <2>6. UNCHANGED <<invite, company>> /\ Leave(p)
      BY <1>4 DEF Confirm
  <2> HIDE DEF s, old
  <2>7. /\ token'[s].grant = "active" /\ token'[s].activated
        /\ \A u \in Tokens : /\ token'[u].pred = token[u].pred
                             /\ token'[u].request = token[u].request
                             /\ (token[u].dead => token'[u].dead)
        /\ \A u \in Tokens \ {s} : token'[u] = new[u]
        /\ token'[old].dead
      BY <2>2, <2>3, <2>4 DEF Descends, Token
  <2>8. ReplacementsHaveSuccessors'
      BY <2>2, <2>4, <2>5, <2>7 DEF RowsInv, ReplacementsHaveSuccessors, Descends, Known
  <2>9. PredecessorsAreKnown'
      BY <2>2, <2>4, <2>7 DEF RowsInv, PredecessorsAreKnown, Descends, Known, TypeOK, Token
  <2>10. RedeemedTokens'
      BY <2>6, <2>7 DEF RowsInv, RedeemedTokens
  <2>11. PreparationsAreOfTokens'
      BY <2>2, <2>6, <2>7, OthersKept, PreparationsKept DEF Known
  <2>12. ReplacementRowsAreTrue'
    <3>1. token[s].pred = old
        BY DEF s, old
    <3>2. \A u \in Tokens \ {s} : token'[u].activated = token[u].activated
        BY <2>2, <2>7 DEF Descends
    <3>3. QED
        BY <2>4, <2>5, <2>7, <3>1, <3>2
           DEF RowsInv, ReplacementRowsAreTrue, ReplacementsHaveSuccessors
  <2>13. QED
      BY <2>8, <2>9, <2>10, <2>11, <2>12 DEF RowsInv
<1>5. ASSUME ConfirmLost(p) PROVE RowsInv'
    BY <1>5, OthersKept, RowsKept, InvitesKept, PreparationsKept DEF ConfirmLost, RowsInv, Known
<1>6. ASSUME Drop(p) PROVE RowsInv'
  <2> DEFINE s == held[p].token
             grant == IF held[p].op = "canceled" THEN "cancelled" ELSE "expired"
  <2>1. grant \in Grants /\ grant \notin {"none", "pending_activation"}
      BY DEF Grants
  <2>2. s \in Tokens
      BY <1>6 DEF Drop, RowsInv, TypeOK, Decision
  <2>3. /\ Descends(token')
        /\ \A u \in Tokens : token'[u].grant = IF u = s /\ token[u].grant = "pending_activation"
                                               THEN grant ELSE token[u].grant
        /\ token'[s].dead
      BY <1>6, <2>1, <2>2, DroppedRows DEF Drop, RowsInv
  <2>4. \A u \in Tokens : replacement'[u].status =
            IF u = s /\ replacement[u].status = "prepared" THEN held[p].op
            ELSE replacement[u].status
      BY <1>6 DEF Drop, DroppedReplacement, RowsInv, TypeOK, Replacement
  <2>5. /\ UNCHANGED <<invite, company>> /\ Leave(p)
        /\ held[p].op \in {"canceled", "expired"}
      BY <1>6 DEF Drop
  <2> HIDE DEF s, grant
  <2>6. ReplacementsHaveSuccessors'
      BY <2>1, <2>3, <2>4, <2>5 DEF RowsInv, ReplacementsHaveSuccessors, Descends, Known
  <2>7. PredecessorsAreKnown'
      BY <2>1, <2>3 DEF RowsInv, PredecessorsAreKnown, Descends, Known, TypeOK, Token
  <2>8. RedeemedTokens'
      BY <2>3, <2>5 DEF RowsInv, RedeemedTokens, Descends
  <2>9. PreparationsAreOfTokens'
      BY <2>1, <2>3, <2>5, OthersKept, PreparationsKept DEF Known
  <2>10. ReplacementRowsAreTrue'
    <3>1. \A u \in Tokens : replacement'[u].status \in {"none", "prepared"} =>
                            replacement'[u].status = replacement[u].status
        BY <2>4, <2>5
    <3>2. \A u \in Tokens : replacement[u].status = "confirmed" => token[u].pred \in Tokens
        BY DEF RowsInv, ReplacementsHaveSuccessors
    <3>3. QED
        BY <2>3, <2>4, <2>5, <3>1, <3>2 DEF RowsInv, ReplacementRowsAreTrue, Descends
  <2>11. QED
      BY <2>6, <2>7, <2>8, <2>9, <2>10 DEF RowsInv
<1>7. ASSUME NEW s \in Tokens, ReadCancel(p, s) \/ ReadExpire(p, s)
      PROVE  RowsInv'
  <2>1. \A q \in Processes : held'[q].op = "prepare" => held'[q] = held[q]
    <3>1. CASE ReadCancel(p, s)
        BY <3>1 DEF ReadCancel, RowsInv, TypeOK, Free
    <3>2. CASE ReadExpire(p, s)
        BY <3>2 DEF ReadExpire, RowsInv, TypeOK, Free
    <3>3. QED
        BY <1>7, <3>1, <3>2
  <2>2. QED
      BY <1>7, <2>1, RowsKept, InvitesKept, PreparationsKept
         DEF ReadCancel, ReadExpire, RowsInv, Known
<1>8. QED
    BY <1>1, <1>2, <1>3, <1>4, <1>5, <1>6, <1>7 DEF ReplacementStep

\* The lifecycle of the company.
LEMMA CompanyRows ==
    ASSUME RowsInv, TypeOK', NEW p \in Processes, CompanyStep(p)
    PROVE  RowsInv'
<1> USE DEF rows
<1>1. ASSUME NEW i \in Intents, NEW purpose \in Purposes, CreateIntent(p, i, purpose)
      PROVE  RowsInv'
    BY <1>1, RowsKept, InvitesKept, PreparationsKept DEF CreateIntent, RowsInv, Known
<1>2. ASSUME NEW i \in Intents, ReadIntent(p, i) PROVE RowsInv'
  <2>1. \A q \in Processes : held'[q].op = "prepare" => held'[q] = held[q]
    <3>1. intent[i].purpose \in Purposes \cup {"none"}
        BY DEF RowsInv, TypeOK, Intent
    <3>2. QED
        BY <1>2, <3>1 DEF ReadIntent, RowsInv, TypeOK, Free, Purposes
  <2>2. QED
      BY <1>2, <2>1, RowsKept, InvitesKept, PreparationsKept DEF ReadIntent, RowsInv, Known
<1>3. ASSUME Close(p) PROVE RowsInv'
  <2>1. "active" \in Grants /\ "revoked" \in Grants
      BY DEF Grants
  <2>2. /\ Descends(token')
        /\ \A u \in Tokens : token'[u].grant = IF token[u].grant = "active"
                                               THEN "revoked" ELSE token[u].grant
    <3>1. token' = [t \in Tokens |->
                      IF Known(t) THEN Ended(t, "active", "revoked") ELSE token[t]]
        BY <1>3 DEF Close
    <3>2. QED
        BY <2>1, <3>1, EndedRow DEF Descends, Known, RowsInv
  <2>3. /\ UNCHANGED replacement /\ Leave(p) /\ company.status # "purged"
        /\ \A q \in Requests : invite[q].status = "redeemed" => invite'[q] = invite[q]
      BY <1>3 DEF Close, RowsInv, TypeOK
  <2>4. ReplacementsHaveSuccessors'
      BY <2>2, <2>3 DEF RowsInv, ReplacementsHaveSuccessors, Descends, Known
  <2>5. PredecessorsAreKnown'
      BY <2>2 DEF RowsInv, PredecessorsAreKnown, Descends, Known, TypeOK, Token
  <2>6. RedeemedTokens'
    <3>1. \A u \in Tokens : token[u].request \in Requests \cup {NoRequest}
        BY DEF RowsInv, TypeOK, Token
    <3>2. QED
        BY <2>2, <2>3, <3>1 DEF RowsInv, RedeemedTokens, Descends
  <2>7. PreparationsAreOfTokens'
      BY <2>2, <2>3, OthersKept, PreparationsKept DEF Known
  <2>8. ReplacementRowsAreTrue'
    <3>1. \A u \in Tokens : replacement[u].status = "confirmed" => token[u].pred \in Tokens
        BY DEF RowsInv, ReplacementsHaveSuccessors
    <3>2. QED
        BY <2>2, <2>3, <3>1 DEF RowsInv, ReplacementRowsAreTrue, Descends
  <2>9. QED
      BY <2>4, <2>5, <2>6, <2>7, <2>8 DEF RowsInv
<1>4. ASSUME SoftDelete(p) \/ Restore(p) PROVE RowsInv'
  <2>1. /\ UNCHANGED <<token, replacement, invite>>
        /\ Leave(p)
        /\ company.status # "purged"
      BY <1>4 DEF SoftDelete, Restore
  <2>2. QED
      BY <2>1, OthersKept, RowsKept, InvitesKept, PreparationsKept DEF RowsInv, Known
<1>5. ASSUME ReadRestore(p) PROVE RowsInv'
  <2>1. \A q \in Processes : held'[q].op = "prepare" => held'[q] = held[q]
      BY <1>5 DEF ReadRestore, RowsInv, TypeOK, Free
  <2>2. QED
      BY <1>5, <2>1, RowsKept, InvitesKept, PreparationsKept DEF ReadRestore, RowsInv, Known
<1>6. ASSUME Purge(p) PROVE RowsInv'
    BY <1>6 DEF Purge, RowsInv, NoRow, ReplacementsHaveSuccessors, PredecessorsAreKnown,
                RedeemedTokens, PreparationsAreOfTokens, ReplacementRowsAreTrue
<1>7. ASSUME FindNothing(p) PROVE RowsInv'
    BY <1>7, OthersKept, RowsKept, InvitesKept, PreparationsKept DEF FindNothing, RowsInv, Known
<1>8. QED
    BY <1>1, <1>2, <1>3, <1>4, <1>5, <1>6, <1>7 DEF CompanyStep

\* Every step keeps the rows in agreement, whichever process takes it.
LEMMA RowsStep == RowsInv /\ [Next]_vars => RowsInv'
<1> SUFFICES ASSUME RowsInv, [Next]_vars PROVE RowsInv'
    OBVIOUS
<1>1. TypeOK'
    BY TypeStep DEF RowsInv
<1>2. \A p \in workers : p \in Processes
    BY ConstantsAssumption DEF RowsInv, TypeOK, workers
<1>3. ASSUME NEW c \in Callers, AuthenticateMaster(c) PROVE RowsInv'
    BY <1>1, <1>3, RowsKept, InvitesKept, PreparationsKept
       DEF AuthenticateMaster, RowsInv, rows, Known
<1>4. ASSUME NEW r \in Requests, LapseInvite(r) PROVE RowsInv'
  <2>1. \A q \in Requests : invite[q].status = "redeemed" => invite'[q] = invite[q]
      BY <1>4 DEF LapseInvite, RowsInv, TypeOK
  <2>2. QED
      BY <1>1, <1>4, <2>1, RowsKept, InvitesKept, PreparationsKept
         DEF LapseInvite, RowsInv, Known
<1>5. ASSUME NEW s \in Tokens, LapseReplacement(s) PROVE RowsInv'
  <2>1. \A u \in Tokens : replacement'[u].status = replacement[u].status
      BY <1>5 DEF LapseReplacement, RowsInv, TypeOK, Replacement
  <2>2. UNCHANGED <<token, invite, company, held>>
      BY <1>5 DEF LapseReplacement
  <2>3. RedeemedTokens' /\ PreparationsAreOfTokens'
      BY <1>1, <2>2, InvitesKept, PreparationsKept DEF Known
  <2>4. ReplacementsHaveSuccessors' /\ PredecessorsAreKnown' /\ ReplacementRowsAreTrue'
      BY <2>1, <2>2 DEF RowsInv, ReplacementsHaveSuccessors, PredecessorsAreKnown,
                        ReplacementRowsAreTrue, Known
  <2>5. QED
      BY <1>1, <2>3, <2>4 DEF RowsInv
<1>6. CASE UNCHANGED vars
    BY <1>1, <1>6, RowsKept, InvitesKept, PreparationsKept DEF vars, RowsInv, Known
<1>7. QED
    BY <1>1, <1>2, <1>3, <1>4, <1>5, <1>6, MasterRows, InviteRows, ReplacementRows, CompanyRows
       DEF Next

\* A redeemed request knows its one token.
LEMMA OneTokenFromRows == RowsInv => OneTokenPerRequest
BY DEF RowsInv, RedeemedTokens, OneTokenPerRequest, TypeOK, Token

\* The rows agree in every reachable state.
LEMMA RowsHold == Spec => []RowsInv
<1>1. QED
    BY RowsInit, RowsStep, PTL DEF Spec

\* In every reachable state the rows have their types.
THEOREM TypeCorrect == Spec => []TypeOK
<1>1. RowsInv => TypeOK
    BY DEF RowsInv
<1>2. QED
    BY <1>1, RowsHold, PTL

\* A request is redeemed for at most one token, on any number of processes.
THEOREM RequestsGiveOneToken == Spec => []OneTokenPerRequest
BY RowsHold, OneTokenFromRows, PTL

\* The status of a replacement tells what became of both tokens, on any
\* number of processes.
THEOREM ReplacementStatusIsTrue == Spec => []ReplacementRowsAreTrue
<1>1. RowsInv => ReplacementRowsAreTrue
    BY DEF RowsInv
<1>2. QED
    BY <1>1, RowsHold, PTL

-----------------------------------------------------------------------------
(* One process: what it decided still holds when it writes.                *)

\* The company is closed, or would be once restored.
Shut == \/ company.status = "closed"
        \/ company.status = "soft_deleted" /\ company.pre_delete_status = "closed"

\* No token can be used and no invitation be redeemed.
NothingOpen ==
    /\ \A t \in Tokens : ~Live(t)
    /\ \A r \in Requests : invite[r].status # "issued"

\* The status a restoration gives.
Restored == IF company.pre_delete_status = "none" THEN "active" ELSE company.pre_delete_status

\* What a call has read and will act upon is still so.
DecisionHolds(d) ==
    /\ d.op = "request" /\ d.token = NoToken /\ d.from = NoToken => NameFree(d.name)
    /\ d.op = "issue" => company.status = "active"
    /\ d.op = "confirm" => token[d.token].pred # NoToken /\ Live(token[d.token].pred)
    /\ d.op = "soft_delete" => d.status = company.status
    /\ d.op = "restore" => company.status = "soft_deleted" /\ d.status = Restored

DecisionsHold ==
    \A p \in Processes : /\ held[p].op # "none" => p \in workers
                         /\ DecisionHolds(held[p])

SerialInv ==
    Serialised => /\ DecisionsHold
                  /\ OneSuccessor
                  /\ Shut => NothingOpen
                  /\ NamesAreHeldOnce

\* Nothing is decided, activated or shut at first.
LEMMA SerialInit == Init => SerialInv
BY DEF Init, SerialInv, NoRow, Free, DecisionsHold, DecisionHolds, OneSuccessor, Shut,
       NamesAreHeldOnce

\* Nobody else is inside, so a call that ends leaves nobody inside.
LEMMA NobodyInside ==
    ASSUME TypeOK, Serialised, DecisionsHold, NEW p \in workers, UNCHANGED deployment,
           Leave(p) \/ (Unlocked(p) /\ held' = held)
    PROVE  DecisionsHold'
<1>1. p \in Processes
    BY ConstantsAssumption DEF TypeOK, workers
<1>2. \A q \in Processes : held'[q].op = "none"
    BY <1>1 DEF TypeOK, Serialised, DecisionsHold, Leave, Unlocked, Free
<1>3. QED
    BY <1>2 DEF DecisionsHold, DecisionHolds

\* A call that enters has the only decision.
LEMMA OneInside ==
    ASSUME TypeOK, Serialised, DecisionsHold, NEW p \in workers, UNCHANGED deployment,
           NEW d, DecisionHolds(d)', held' = [held EXCEPT ![p] = d]
    PROVE  DecisionsHold'
<1>1. p \in Processes
    BY ConstantsAssumption DEF TypeOK, workers
<1>2. held'[p] = d /\ p \in workers'
    BY <1>1 DEF TypeOK, workers
<1>3. \A q \in Processes \ {p} : held'[q].op = "none"
    BY <1>1 DEF TypeOK, Serialised, DecisionsHold
<1>4. DecisionHolds(held[p])'
    BY <1>2
<1>5. \A q \in Processes \ {p} : DecisionHolds(held[q])'
    BY <1>3 DEF DecisionHolds
<1>6. QED
    BY <1>2, <1>3, <1>4, <1>5 DEF DecisionsHold

\* No token is activated, none moves under another predecessor, and none
\* comes back from its revocation.
NoneActivated ==
    \A u \in Tokens :
        /\ token'[u].activated => token[u].activated /\ token'[u].pred = token[u].pred
        /\ Known(u) /\ token[u].dead => token'[u].dead

\* A step that activates no token gives no token another successor.
LEMMA SuccessorsKept ==
    ASSUME RowsInv, OneSuccessor, NoneActivated
    PROVE  OneSuccessor'
<1>1. \A u \in Tokens : token[u].pred # NoToken =>
                           token[u].pred \in Tokens /\ Known(token[u].pred)
    BY DEF RowsInv, PredecessorsAreKnown, TypeOK, Token
<1>2. QED
    BY <1>1 DEF OneSuccessor, NoneActivated

\* A step that shuts no company and opens nothing leaves it shut.
LEMMA ShutKept ==
    ASSUME Shut => NothingOpen, Shut' => Shut,
           \A t \in Tokens : Live(t)' => Live(t),
           \A r \in Requests : invite'[r].status = "issued" => invite[r].status = "issued"
    PROVE  Shut' => NothingOpen'
BY DEF NothingOpen

\* Names depend on the requests alone.
LEMMA NamesKept ==
    ASSUME Serialised, NamesAreHeldOnce, UNCHANGED request
    PROVE  NamesAreHeldOnce'
BY DEF NamesAreHeldOnce

\* A token is activated while its predecessor can be used.
Activations ==
    \A s \in Tokens : ~token[s].activated /\ token'[s].activated /\ token'[s].pred # NoToken
                         => Live(token'[s].pred)

\* A step that keeps tokens as they are, or weakens them.
LEMMA CalmStep ==
    ASSUME RowsInv, SerialInv, Serialised, UNCHANGED request,
           DecisionsHold', Shut' => Shut, NoneActivated,
           \A t \in Tokens : Live(t)' => Live(t),
           \A r \in Requests : invite'[r].status = "issued" => invite[r].status = "issued"
    PROVE  SerialInv' /\ Activations
BY SuccessorsKept, ShutKept, NamesKept DEF SerialInv, Activations, NoneActivated

\* A step that changes no row.
LEMMA RestStep ==
    ASSUME RowsInv, SerialInv, Serialised, UNCHANGED <<request, token, invite>>,
           DecisionsHold', Shut' => Shut
    PROVE  SerialInv' /\ Activations
<1>1. NoneActivated /\ \A t \in Tokens : Live(t)' => Live(t)
    BY DEF NoneActivated, Live
<1>2. QED
    BY <1>1, CalmStep

\* The steps of the master credential's holders.
LEMMA SerialMaster ==
    ASSUME RowsInv, SerialInv, Serialised, NEW c \in Callers, NEW p \in workers,
           MasterStep(c, p)
    PROVE  SerialInv' /\ Activations
<1> USE DEF rows
<1>1. TypeOK /\ DecisionsHold /\ OneSuccessor /\ NamesAreHeldOnce
    BY DEF RowsInv, SerialInv
<1>2. ASSUME NEW n \in Names, NEW old \in Tokens \cup {NoToken},
            NEW from \in Tokens \cup {NoToken},
             ReadRequest(c, p, n, old, from)
      PROVE  SerialInv' /\ Activations
  <2> DEFINE d == [Free EXCEPT !.op = "request", !.name = n, !.token = old, !.from = from]
  <2>1. /\ UNCHANGED <<company, request, identity, token, invite, deployment>>
        /\ held' = [held EXCEPT ![p] = d]
        /\ (old = NoToken /\ from = NoToken) => NameFree(n)
      BY <1>2 DEF ReadRequest
  <2>2. DecisionHolds(d)'
      BY <2>1 DEF DecisionHolds, Free, NameFree
  <2>3. DecisionsHold'
    <3> HIDE DEF d
    <3>1. QED
        BY <1>1, <2>1, <2>2, OneInside
  <2>4. QED
      BY <2>1, <2>3, RestStep DEF Shut
<1>3. ASSUME NEW r \in Requests, NEW decision \in {"approved", "denied"},
             ReadDecide(c, p, r, decision)
      PROVE  SerialInv' /\ Activations
  <2>d. PICK d : d = [Free EXCEPT !.op = decision, !.request = r, !.name = request[r].name]
      OBVIOUS
  <2>1. /\ UNCHANGED <<company, request, identity, token, invite, deployment>>
        /\ held' = [held EXCEPT ![p] = d]
      BY <1>3, <2>d DEF ReadDecide
  <2>2. DecisionHolds(d)'
      BY <2>d DEF DecisionHolds, Free
  <2>3. QED
      BY <1>1, <2>1, <2>2, OneInside, RestStep DEF Shut
<1>4. ASSUME NEW r \in Requests, ReadIssue(c, p, r) PROVE SerialInv' /\ Activations
  <2>d. PICK d : d = [Free EXCEPT !.op = "issue", !.request = r, !.round = invite[r].round]
      OBVIOUS
  <2>1. /\ UNCHANGED <<company, request, identity, token, invite, deployment>>
        /\ held' = [held EXCEPT ![p] = d]
        /\ company.status = "active"
      BY <1>4, <2>d DEF ReadIssue, EntryAvailable
  <2>2. DecisionHolds(d)'
      BY <2>1, <2>d DEF DecisionHolds, Free
  <2>3. DecisionsHold'
      BY <1>1, <2>1, <2>2, OneInside
  <2>4. QED
      BY <2>1, <2>3, RestStep DEF Shut
<1>5. ASSUME NEW r \in Requests, ExpireOnIssue(c, p, r) \/ RevokeInvite(c, p, r)
      PROVE  SerialInv' /\ Activations
  <2>1. /\ UNCHANGED <<company, request, token, deployment>>
        /\ Unlocked(p) /\ held' = held
        /\ \A q \in Requests : invite'[q].status = "issued" => invite[q].status = "issued"
      BY <1>1, <1>5 DEF ExpireOnIssue, RevokeInvite, Acts, TypeOK, Invite
  <2>2. DecisionsHold'
      BY <1>1, <2>1, NobodyInside
  <2>3. NoneActivated /\ \A t \in Tokens : Live(t)' => Live(t)
      BY <2>1 DEF NoneActivated, Live
  <2>4. QED
      BY <2>1, <2>2, <2>3, CalmStep DEF Shut
<1>6. ASSUME NEW t \in Tokens, RevokeToken(c, p, t) PROVE SerialInv' /\ Activations
  <2>1. /\ UNCHANGED <<company, request, invite, deployment>>
        /\ Unlocked(p) /\ held' = held
      BY <1>6 DEF RevokeToken, Acts
  <2>2. DecisionsHold'
      BY <1>1, <2>1, NobodyInside
  <2>3. "revoked" \in Grants
      BY DEF Grants
  <2>4. /\ Descends(token')
        /\ \A u \in Tokens : token'[u].grant = IF u = t /\ token[u].grant = "active"
                                               THEN "revoked" ELSE token[u].grant
      BY <1>1, <1>6, <2>3, SupersededRows DEF RevokeToken
  <2>5. NoneActivated /\ \A u \in Tokens : Live(u)' => Live(u)
      BY <2>4 DEF NoneActivated, Live, Descends
  <2>6. QED
      BY <2>1, <2>2, <2>5, CalmStep DEF Shut
<1>7. QED
    BY <1>2, <1>3, <1>4, <1>5, <1>6 DEF MasterStep

\* The steps on requests, invitations and their redemption.
LEMMA SerialInvite ==
    ASSUME RowsInv, SerialInv, Serialised, NEW p \in workers, InviteStep(p)
    PROVE  SerialInv' /\ Activations
<1> USE DEF rows
<1>1. /\ TypeOK /\ DecisionsHold /\ OneSuccessor /\ NamesAreHeldOnce /\ (Shut => NothingOpen)
      /\ p \in Processes /\ DecisionHolds(held[p])
    BY ConstantsAssumption DEF RowsInv, SerialInv, DecisionsHold, TypeOK, workers
<1>2. ASSUME NEW r \in Requests, RequestAccess(p, r) PROVE SerialInv' /\ Activations
  <2>1. /\ UNCHANGED <<company, token, invite, deployment>>
        /\ Leave(p)
        /\ held[p].op = "request"
        /\ request' = [request EXCEPT ![r] = [status |-> "pending", name |-> held[p].name,
                            supersedes |-> held[p].token, transfer |-> held[p].from]]
      BY <1>2 DEF RequestAccess
  <2>2. DecisionsHold'
      BY <1>1, <2>1, NobodyInside
  <2>3. NoneActivated /\ \A t \in Tokens : Live(t)' => Live(t)
      BY <2>1 DEF NoneActivated, Live
  <2>4. NamesAreHeldOnce'
    <3>1. /\ request'[r].name = held[p].name
          /\ request'[r].supersedes = held[p].token
          /\ request'[r].transfer = held[p].from
          /\ \A q \in Requests \ {r} : request'[q] = request[q]
        BY <1>1, <2>1 DEF TypeOK
    <3>2. held[p].token = NoToken /\ held[p].from = NoToken =>
              \A q \in Requests : request[q].status \in {"pending", "approved"} =>
                                      request[q].name # held[p].name
        BY <1>1, <2>1 DEF DecisionHolds, NameFree
    <3>3. QED
        BY <1>1, <3>1, <3>2 DEF NamesAreHeldOnce
  <2>5. QED
      BY <1>1, <2>1, <2>2, <2>3, <2>4, SuccessorsKept, ShutKept
         DEF SerialInv, Shut, Activations, NoneActivated
<1>3. ASSUME NEW r \in Requests, ExpireOnRedeem(p, r) PROVE SerialInv' /\ Activations
  <2>1. /\ UNCHANGED <<company, request, token, deployment>>
        /\ Unlocked(p) /\ held' = held
        /\ \A q \in Requests : invite'[q].status = "issued" => invite[q].status = "issued"
      BY <1>1, <1>3 DEF ExpireOnRedeem, TypeOK, Invite
  <2>2. DecisionsHold'
      BY <1>1, <2>1, NobodyInside
  <2>3. NoneActivated /\ \A t \in Tokens : Live(t)' => Live(t)
      BY <2>1 DEF NoneActivated, Live
  <2>4. QED
      BY <2>1, <2>2, <2>3, CalmStep DEF Shut
<1>4. ASSUME IssueInvite(p) PROVE SerialInv' /\ Activations
  <2>1. /\ UNCHANGED <<company, request, token, deployment>>
        /\ Leave(p)
        /\ held[p].op = "issue"
      BY <1>4 DEF IssueInvite
  <2>2. DecisionsHold'
      BY <1>1, <2>1, NobodyInside
  <2>3. ~Shut'
      BY <1>1, <2>1 DEF DecisionHolds, Shut
  <2>4. NoneActivated
      BY <2>1 DEF NoneActivated
  <2>5. QED
      BY <1>1, <2>1, <2>2, <2>3, <2>4, SuccessorsKept, NamesKept
         DEF SerialInv, Activations, NoneActivated
<1>5. ASSUME NEW r \in Requests, NEW t \in Tokens, Redeem(p, r, t)
      PROVE  SerialInv' /\ Activations
  <2> DEFINE old == request[r].supersedes
             new == Superseded(old, "revoked")
  <2>1. "revoked" \in Grants
      BY DEF Grants
  <2>2. /\ Descends(new)
        /\ old \in Tokens => new[old].dead
        /\ new \in [Tokens -> Token]
      BY <1>1, <2>1, SupersededRows, EndedTokens
  <2>3. /\ token' = [new EXCEPT ![t] = [grant |-> "active", activated |-> TRUE, dead |-> FALSE,
                         name |-> request[r].name, pred |-> old, request |-> r]]
        /\ UNCHANGED <<company, request, deployment, held>>
        /\ Unlocked(p)
        /\ invite[r].status = "issued"
        /\ ~Known(t)
        /\ old # NoToken => Live(old)
      BY <1>5 DEF Redeem, Supersedable
  <2>4. old \in Tokens \cup {NoToken}
      BY <1>1 DEF TypeOK, Request
  <2> HIDE DEF new, old
  <2>5. DecisionsHold'
      BY <1>1, <2>3, NobodyInside
  <2>6. ~Shut'
      BY <1>1, <2>3 DEF NothingOpen, Shut
  <2>7. /\ token'[t].activated /\ token'[t].pred = old
        /\ \A u \in Tokens \ {t} : /\ token'[u].activated = token[u].activated
                                   /\ token'[u].pred = token[u].pred
                                   /\ token[u].dead => token'[u].dead
        /\ old # NoToken => old # t /\ token'[old].dead
      BY <2>2, <2>3, <2>4 DEF Descends, Live, Known
  <2>8. OneSuccessor'
    <3>1. \A u \in Tokens : token[u].pred # NoToken => token[u].pred \in Tokens \ {t}
        BY <2>3 DEF RowsInv, PredecessorsAreKnown, TypeOK, Token
    <3>2. \A u \in Tokens : token[u].activated /\ token[u].pred # NoToken => token[u].pred # old
        BY <1>1, <2>3 DEF OneSuccessor, Live
    <3>3. QED
        BY <1>1, <2>4, <2>7, <3>1, <3>2 DEF OneSuccessor
  <2>9. Activations
      BY <2>3, <2>7 DEF Activations
  <2>10. QED
      BY <1>1, <2>3, <2>5, <2>6, <2>8, <2>9, NamesKept DEF SerialInv
<1>6. ASSUME Decide(p) PROVE SerialInv' /\ Activations
  <2>1. /\ UNCHANGED <<company, token, invite, deployment>>
        /\ Leave(p)
        /\ held[p].op \in {"approved", "denied"}
        /\ request' = IF request[held[p].request].status = "pending"
                      THEN [request EXCEPT ![held[p].request].status = held[p].op]
                      ELSE request
      BY <1>6 DEF Decide
  <2>2. DecisionsHold'
      BY <1>1, <2>1, NobodyInside
  <2>3. NoneActivated /\ \A t \in Tokens : Live(t)' => Live(t)
      BY <2>1 DEF NoneActivated, Live
  <2>4. NamesAreHeldOnce'
    <3>1. held[p].request \in Requests
        BY <1>1, <2>1 DEF TypeOK, Decision
    <3>2. QED
        BY <1>1, <2>1, <3>1 DEF NamesAreHeldOnce, TypeOK, Request
  <2>5. QED
      BY <1>1, <2>1, <2>2, <2>3, <2>4, SuccessorsKept, ShutKept
         DEF SerialInv, Shut, Activations, NoneActivated
<1>7. QED
    BY <1>2, <1>3, <1>4, <1>5, <1>6 DEF InviteStep

\* The steps that replace a token.
LEMMA SerialReplacement ==
    ASSUME RowsInv, SerialInv, Serialised, NEW p \in workers, ReplacementStep(p)
    PROVE  SerialInv' /\ Activations
<1> USE DEF rows
<1>1. /\ TypeOK /\ DecisionsHold /\ OneSuccessor /\ NamesAreHeldOnce /\ (Shut => NothingOpen)
      /\ p \in Processes /\ DecisionHolds(held[p])
    BY ConstantsAssumption DEF RowsInv, SerialInv, DecisionsHold, TypeOK, workers
<1>2. ASSUME NEW t \in Tokens, NEW overdue \in Tokens \cup {NoToken}, ReadPrepare(p, t, overdue)
      PROVE  SerialInv' /\ Activations
  <2>d. PICK d : d = [Free EXCEPT !.op = "prepare", !.token = t, !.from = overdue]
      OBVIOUS
  <2>1. /\ UNCHANGED <<company, request, identity, token, invite, deployment>>
        /\ held' = [held EXCEPT ![p] = d]
      BY <1>2, <2>d DEF ReadPrepare
  <2>2. DecisionHolds(d)'
      BY <2>d DEF DecisionHolds, Free
  <2>3. QED
      BY <1>1, <2>1, <2>2, OneInside, RestStep DEF Shut
<1>3. ASSUME NEW s \in Tokens, Prepare(p, s) PROVE SerialInv' /\ Activations
  <2> DEFINE t == held[p].token
             x == held[p].from
             new == DroppedToken(x, "expired")
  <2>1. "expired" \in Grants
      BY DEF Grants
  <2>2. /\ Descends(new)
        /\ \A u \in Tokens : new[u].grant = IF u = x /\ token[u].grant = "pending_activation"
                                            THEN "expired" ELSE token[u].grant
        /\ new \in [Tokens -> Token]
      BY <1>1, <2>1, DroppedRows, EndedTokens
  <2>3. /\ token' = [new EXCEPT ![s] = [grant |-> "pending_activation", activated |-> FALSE,
                        dead |-> FALSE, name |-> token[t].name, pred |-> t,
                        request |-> NoRequest]]
        /\ UNCHANGED <<company, request, invite, deployment>>
        /\ Leave(p)
        /\ ~Known(s)
      BY <1>3 DEF Prepare
  <2> HIDE DEF new, t, x
  <2>4. DecisionsHold'
      BY <1>1, <2>3, NobodyInside
  <2>5. NoneActivated /\ \A u \in Tokens : Live(u)' => Live(u)
      BY <2>2, <2>3 DEF NoneActivated, Live, Descends, Known
  <2>6. QED
      BY <2>3, <2>4, <2>5, CalmStep DEF Shut
<1>4. ASSUME NEW s \in Tokens, ReadConfirm(p, s) PROVE SerialInv' /\ Activations
  <2>d. PICK d : d = [Free EXCEPT !.op = "confirm", !.token = s]
      OBVIOUS
  <2>1. /\ UNCHANGED <<company, request, identity, token, invite, deployment>>
        /\ held' = [held EXCEPT ![p] = d]
        /\ replacement[s].status = "prepared"
        /\ Live(token[s].pred)
      BY <1>4, <2>d DEF ReadConfirm
  <2>2. token[s].pred # NoToken
      BY <2>1, ConstantsAssumption DEF RowsInv, ReplacementsHaveSuccessors
  <2>3. DecisionHolds(d)'
      BY <2>1, <2>2, <2>d DEF DecisionHolds, Free, Live
  <2>4. QED
      BY <1>1, <2>1, <2>3, OneInside, RestStep DEF Shut
<1>5. ASSUME Confirm(p) PROVE SerialInv' /\ Activations
  <2> DEFINE s == held[p].token
             old == token[s].pred
             new == Superseded(old, "superseded")
  <2>1. "superseded" \in Grants
      BY DEF Grants
  <2>2. /\ Descends(new)
        /\ old \in Tokens => new[old].dead
        /\ new \in [Tokens -> Token]
      BY <1>1, <2>1, SupersededRows, EndedTokens
  <2>3. /\ token' = [new EXCEPT ![s].grant = "active", ![s].activated = TRUE]
        /\ UNCHANGED <<company, request, invite, deployment>>
        /\ Leave(p)
        /\ held[p].op = "confirm"
        /\ token[s].grant = "pending_activation"
      BY <1>5 DEF Confirm
  <2>4. s \in Tokens /\ replacement[s].status = "prepared" /\ old \in Tokens
      BY <1>1, <2>3 DEF RowsInv, TypeOK, Decision, ReplacementsHaveSuccessors
  <2>5. Live(old)
      BY <1>1, <2>3 DEF DecisionHolds
  <2>6. token[s].pred = old
      OBVIOUS
  <2> HIDE DEF new, s, old
  <2>7. DecisionsHold'
      BY <1>1, <2>3, NobodyInside
  <2>8. ~Shut'
      BY <1>1, <2>3, <2>4, <2>5 DEF NothingOpen, Shut
  <2>9. /\ \A u \in Tokens : /\ token'[u].pred = token[u].pred
                             /\ u # s => token'[u].activated = token[u].activated
                             /\ token[u].dead => token'[u].dead
        /\ token'[old].dead
      BY <2>2, <2>3, <2>4 DEF Descends, Token
  <2>10. OneSuccessor'
    <3>1. \A u \in Tokens : token[u].pred # NoToken => token[u].pred \in Tokens
        BY <1>1 DEF TypeOK, Token
    <3>2. \A u \in Tokens : token[u].activated /\ token[u].pred # NoToken => token[u].pred # old
        BY <1>1, <2>5 DEF OneSuccessor, Live
    <3>3. QED
        BY <1>1, <2>4, <2>6, <2>9, <3>1, <3>2, ConstantsAssumption DEF OneSuccessor
  <2>11. Activations
      BY <2>5, <2>6, <2>9 DEF Activations
  <2>12. QED
      BY <1>1, <2>3, <2>7, <2>8, <2>10, <2>11, NamesKept DEF SerialInv
<1>6. ASSUME ConfirmLost(p) PROVE SerialInv' /\ Activations
    BY <1>1, <1>6, NobodyInside, RestStep DEF ConfirmLost, Shut
<1>7. ASSUME Drop(p) PROVE SerialInv' /\ Activations
  <2> DEFINE s == held[p].token
             grant == IF held[p].op = "canceled" THEN "cancelled" ELSE "expired"
  <2>1. grant \in Grants /\ grant # "active"
      BY DEF Grants
  <2>2. /\ UNCHANGED <<company, request, invite, deployment>>
        /\ Leave(p)
        /\ token' = DroppedToken(s, grant)
      BY <1>7 DEF Drop
  <2>3. /\ Descends(token')
        /\ \A u \in Tokens : token'[u].grant = IF u = s /\ token[u].grant = "pending_activation"
                                               THEN grant ELSE token[u].grant
      BY <1>1, <2>1, <2>2, DroppedRows
  <2> HIDE DEF s, grant
  <2>4. DecisionsHold'
      BY <1>1, <2>2, NobodyInside
  <2>5. NoneActivated /\ \A u \in Tokens : Live(u)' => Live(u)
      BY <2>1, <2>3 DEF NoneActivated, Live, Descends
  <2>6. QED
      BY <2>2, <2>4, <2>5, CalmStep DEF Shut
<1>8. ASSUME NEW s \in Tokens, ReadCancel(p, s) \/ ReadExpire(p, s)
      PROVE  SerialInv' /\ Activations
  <2>p. PICK status \in {"canceled", "expired"} :
            held' = [held EXCEPT ![p] = [Free EXCEPT !.op = status, !.token = s]]
      BY <1>8 DEF ReadCancel, ReadExpire
  <2>d. PICK d : d = [Free EXCEPT !.op = status, !.token = s]
      OBVIOUS
  <2>1. /\ UNCHANGED <<company, request, identity, token, invite, deployment>>
        /\ held' = [held EXCEPT ![p] = d]
      BY <1>8, <2>p, <2>d DEF ReadCancel, ReadExpire
  <2>2. DecisionHolds(d)'
      BY <2>d DEF DecisionHolds, Free
  <2>3. QED
      BY <1>1, <2>1, <2>2, OneInside, RestStep DEF Shut
<1>9. QED
    BY <1>2, <1>3, <1>4, <1>5, <1>6, <1>7, <1>8 DEF ReplacementStep

\* The lifecycle of the company.
LEMMA SerialCompany ==
    ASSUME RowsInv, SerialInv, Serialised, NEW p \in workers, CompanyStep(p)
    PROVE  SerialInv' /\ Activations
<1> USE DEF rows
<1>1. /\ TypeOK /\ DecisionsHold /\ OneSuccessor /\ NamesAreHeldOnce /\ (Shut => NothingOpen)
      /\ p \in Processes /\ DecisionHolds(held[p])
    BY ConstantsAssumption DEF RowsInv, SerialInv, DecisionsHold, TypeOK, workers
<1>2. ASSUME NEW i \in Intents, NEW purpose \in Purposes, CreateIntent(p, i, purpose)
      PROVE  SerialInv' /\ Activations
    BY <1>1, <1>2, NobodyInside, RestStep DEF CreateIntent, Shut
<1>3. ASSUME NEW i \in Intents, ReadIntent(p, i) PROVE SerialInv' /\ Activations
  <2>d. PICK d : d = [Free EXCEPT !.op = intent[i].purpose, !.intent = i,
                                  !.status = company.status]
      OBVIOUS
  <2>1. /\ UNCHANGED <<company, request, identity, token, invite, deployment>>
        /\ held' = [held EXCEPT ![p] = d]
      BY <1>3, <2>d DEF ReadIntent
  <2>2. /\ d.op \in Purposes \cup {"none"}
        /\ d.status = company.status
      BY <1>1, <2>d DEF Free, TypeOK, Intent
  <2>3. DecisionHolds(d)'
      BY <2>1, <2>2 DEF DecisionHolds, Purposes
  <2>4. QED
      BY <1>1, <2>1, <2>3, OneInside, RestStep DEF Shut
<1>4. ASSUME Close(p) PROVE SerialInv' /\ Activations
  <2>1. "active" \in Grants /\ "revoked" \in Grants
      BY DEF Grants
  <2>2. /\ UNCHANGED <<request, deployment>>
        /\ Leave(p)
        /\ token' = [t \in Tokens |->
                       IF Known(t) THEN Ended(t, "active", "revoked") ELSE token[t]]
        /\ invite' = [r \in Requests |->
                        IF invite[r].status = "issued"
                        THEN [invite[r] EXCEPT !.status = "revoked"] ELSE invite[r]]
      BY <1>4 DEF Close
  <2>3. /\ Descends(token')
        /\ \A u \in Tokens : ~Live(u)'
      BY <1>1, <2>1, <2>2, EndedRow DEF Descends, Known, Live
  <2>4. DecisionsHold'
      BY <1>1, <2>2, NobodyInside
  <2>5. NoneActivated
      BY <2>3 DEF NoneActivated, Descends
  <2>6. \A r \in Requests : invite'[r].status # "issued"
      BY <1>1, <2>2 DEF TypeOK, Invite
  <2>7. QED
      BY <1>1, <2>2, <2>3, <2>4, <2>5, <2>6, SuccessorsKept, NamesKept
         DEF SerialInv, NothingOpen, Activations, NoneActivated
<1>5. ASSUME SoftDelete(p) PROVE SerialInv' /\ Activations
  <2>1. /\ UNCHANGED <<request, token, invite, deployment>>
        /\ Leave(p)
        /\ held[p].op = "soft_delete"
        /\ company' = [company EXCEPT !.status = "soft_deleted",
                                      !.pre_delete_status = held[p].status]
      BY <1>5 DEF SoftDelete
  <2>2. Shut' => Shut
      BY <1>1, <2>1 DEF Shut, DecisionHolds, TypeOK, Company
  <2>3. QED
      BY <1>1, <2>1, <2>2, NobodyInside, RestStep
<1>6. ASSUME ReadRestore(p) PROVE SerialInv' /\ Activations
  <2>d. PICK d : d = [Free EXCEPT !.op = "restore", !.status = Restored]
      OBVIOUS
  <2>1. /\ UNCHANGED <<company, request, identity, token, invite, deployment>>
        /\ held' = [held EXCEPT ![p] = d]
        /\ company.status = "soft_deleted"
      BY <1>6, <2>d DEF ReadRestore, Restored
  <2>2. DecisionHolds(d)'
      BY <2>1, <2>d DEF DecisionHolds, Free, Restored
  <2>3. QED
      BY <1>1, <2>1, <2>2, OneInside, RestStep DEF Shut
<1>7. ASSUME Restore(p) PROVE SerialInv' /\ Activations
  <2>1. /\ UNCHANGED <<request, token, invite, deployment>>
        /\ Leave(p)
        /\ held[p].op = "restore"
        /\ company' = [company EXCEPT !.status = held[p].status, !.pre_delete_status = "none"]
      BY <1>7 DEF Restore
  <2>2. Shut' => Shut
      BY <1>1, <2>1 DEF Shut, DecisionHolds, Restored, TypeOK, Company
  <2>3. QED
      BY <1>1, <2>1, <2>2, NobodyInside, RestStep
<1>8. ASSUME Purge(p) PROVE SerialInv' /\ Activations
  <2>1. UNCHANGED deployment /\ Leave(p)
      BY <1>8 DEF Purge
  <2>2. DecisionsHold'
      BY <1>1, <2>1, NobodyInside
  <2>3. QED
      BY <1>8, <2>2
         DEF Purge, NoRow, SerialInv, OneSuccessor, Shut, NamesAreHeldOnce, Activations
<1>9. ASSUME FindNothing(p) PROVE SerialInv' /\ Activations
    BY <1>1, <1>9, NobodyInside, RestStep DEF FindNothing, Shut
<1>10. QED
    BY <1>2, <1>3, <1>4, <1>5, <1>6, <1>7, <1>8, <1>9 DEF CompanyStep

\* Nothing a decision depends on changes.
LEMMA DecisionsKept ==
    ASSUME DecisionsHold, UNCHANGED <<held, deployment, company, token, request, identity>>
    PROVE  DecisionsHold'
BY DEF DecisionsHold, DecisionHolds, workers, NameFree, Live, Restored

\* With one process every step keeps what was decided valid.
LEMMA SerialStep ==
    ASSUME RowsInv, SerialInv, Serialised, [Next]_vars
    PROVE  SerialInv' /\ Activations
<1>1. TypeOK /\ DecisionsHold
    BY DEF RowsInv, SerialInv
<1>2. ASSUME NEW c \in Callers, AuthenticateMaster(c) PROVE SerialInv' /\ Activations
    BY <1>1, <1>2, DecisionsKept, RestStep DEF AuthenticateMaster, rows, Shut
<1>3. ASSUME NEW r \in Requests, LapseInvite(r) PROVE SerialInv' /\ Activations
  <2>1. \A q \in Requests : invite'[q].status = "issued" => invite[q].status = "issued"
      BY <1>1, <1>3 DEF LapseInvite, TypeOK, Invite
  <2>2. UNCHANGED <<held, deployment, company, token, request, identity>>
      BY <1>3 DEF LapseInvite
  <2>3. NoneActivated /\ \A t \in Tokens : Live(t)' => Live(t)
      BY <2>2 DEF NoneActivated, Live
  <2>4. QED
      BY <1>1, <2>1, <2>2, <2>3, DecisionsKept, CalmStep DEF Shut
<1>4. ASSUME NEW s \in Tokens, LapseReplacement(s) PROVE SerialInv' /\ Activations
    BY <1>1, <1>4, DecisionsKept, RestStep DEF LapseReplacement, Shut
<1>5. CASE UNCHANGED vars
    BY <1>1, <1>5, DecisionsKept, RestStep DEF vars, Shut
<1>6. QED
    BY <1>2, <1>3, <1>4, <1>5, SerialMaster, SerialInvite, SerialReplacement, SerialCompany
       DEF Next

\* The processes that serve the store are chosen once.
LEMMA DeploymentStays == [Next]_vars => deployment' = deployment
<1> SUFFICES ASSUME [Next]_vars PROVE deployment' = deployment
    OBVIOUS
<1> USE DEF rows
<1>1. ASSUME NEW c, NEW p, MasterStep(c, p) PROVE deployment' = deployment
    BY <1>1 DEF MasterStep, ReadRequest, ReadDecide, ReadIssue, ExpireOnIssue, RevokeInvite,
                RevokeToken
<1>2. ASSUME NEW p, InviteStep(p) PROVE deployment' = deployment
    BY <1>2 DEF InviteStep, RequestAccess, Decide, ExpireOnRedeem, IssueInvite, Redeem
<1>3. ASSUME NEW p, ReplacementStep(p) PROVE deployment' = deployment
    BY <1>3 DEF ReplacementStep, ReadPrepare, Prepare, ReadConfirm, Confirm, ConfirmLost,
                Drop, ReadCancel, ReadExpire
<1>4. ASSUME NEW p, CompanyStep(p) PROVE deployment' = deployment
    BY <1>4 DEF CompanyStep, CreateIntent, ReadIntent, Close, SoftDelete, ReadRestore,
                Restore, Purge, FindNothing
<1>5. QED
    BY <1>1, <1>2, <1>3, <1>4 DEF Next, AuthenticateMaster, LapseInvite, LapseReplacement, vars

\* With one process the decisions hold in every reachable state.
LEMMA SerialHolds == Spec => [](RowsInv /\ SerialInv)
<1>1. RowsInv /\ SerialInv /\ [Next]_vars => (RowsInv /\ SerialInv)'
  <2> SUFFICES ASSUME RowsInv, SerialInv, [Next]_vars PROVE RowsInv' /\ SerialInv'
      OBVIOUS
  <2>1. RowsInv'
      BY RowsStep
  <2>2. Serialised' => Serialised
      BY DeploymentStays DEF Serialised, workers
  <2>3. SerialInv'
    <3>1. CASE Serialised
        BY <3>1, SerialStep
    <3>2. CASE ~Serialised
        BY <2>2, <3>2 DEF SerialInv
    <3>3. QED
        BY <3>1, <3>2
  <2>4. QED
      BY <2>1, <2>3
<1>2. QED
    BY <1>1, RowsInit, SerialInit, PTL DEF Spec

\* With one process, a token has at most one successor that was activated,
\* by replacement or by redemption, and it is revoked by then.
THEOREM TokensHaveOneSuccessor == Spec => []OneSuccessorSerialised
<1>1. SerialInv => OneSuccessorSerialised
    BY DEF SerialInv, OneSuccessorSerialised
<1>2. QED
    BY <1>1, SerialHolds, PTL

\* With one process, a name is asked for once unless a token bears it.
THEOREM NamesAreUnique == Spec => []NamesAreHeldOnce
<1>1. SerialInv => NamesAreHeldOnce
    BY DEF SerialInv, NamesAreHeldOnce
<1>2. QED
    BY <1>1, SerialHolds, PTL

\* With one process, a closed company has no usable token and no open
\* invitation, also after it was deleted and restored.
THEOREM ClosingEndsCredentials == Spec => []ClosedHasNoCredential
<1>1. SerialInv => ClosedHasNoCredential
    BY DEF SerialInv, ClosedHasNoCredential, Shut, NothingOpen
<1>2. QED
    BY <1>1, SerialHolds, PTL

\* With one process, no token is activated to succeed one that was revoked.
THEOREM RevokedTokensAreNotSucceeded == Spec => RevocationsHold
<1>1. RowsInv /\ SerialInv /\ [Next]_vars =>
        [Serialised => \A s \in Tokens :
            ~token[s].activated /\ token'[s].activated /\ token'[s].pred # NoToken
               => Live(token'[s].pred)]_vars
    BY SerialStep DEF Activations
<1>2. QED
    BY <1>1, SerialHolds, PTL DEF Spec, RevocationsHold

\* The rows of requests, tokens and replacements are sound on any deployment: the
\* last two parts speak of deployments that run one process.
THEOREM TokenRowsAreSound == Spec => []TokensAreSound
<1>1. /\ TypeOK /\ OneTokenPerRequest /\ ReplacementRowsAreTrue
      /\ OneSuccessorSerialised /\ NamesAreHeldOnce
      => TokensAreSound
    BY DEF TokensAreSound
<1>2. QED
    BY <1>1, TypeCorrect, RequestsGiveOneToken, ReplacementStatusIsTrue,
       TokensHaveOneSuccessor, NamesAreUnique, PTL

-----------------------------------------------------------------------------
(* Part two: inboxes and meeting rooms, for any agents, rooms and workers.     *)

Stamped(call) == call.op \in {"send", "post", "route"} /\ call.step = "write"

\* A call has the arguments of its operation, and what the sweep of another
\* step selected is gone.
CallIsSound(call) ==
    /\ call.step \in {"claim", "record"} => call.op = "ack"
    /\ call.step = "read" => ~call.wrote /\ call.op \in {"ack", "post", "route", "mark"}
    /\ call.step = "write" => ~call.wrote
    /\ call.step = "defaults" => call.op \in {"post", "route", "mark", "open"}
    /\ call.step # "purge" => call.due = {} /\ call.stale = {}
    /\ call.op = "open" => call.wrote \/ call.step = "write"
    /\ call.op \in {"ack", "page"} => ~call.wrote /\ call.agent \in Agents
    /\ call.op = "ack" => /\ call.item \in 1..MaxStamps /\ call.of \in Agents
                          /\ call.key \in Keys /\ call.status \in Statuses
                          /\ call.step \in {"claim", "read", "write", "record"} => call.of = call.agent
    /\ call.op = "send" /\ ~call.wrote => call.agent \in Agents /\ call.to # {}
    /\ call.op = "mark" /\ ~call.wrote => call.agent \in Agents
    /\ call.op \in {"post", "route", "mark"} /\ ~call.wrote => call.room \in Rooms
    /\ Stamped(call) => call.item \in 1..MaxStamps

CallsAreSound == \A w \in Workers : calls[w] # Idle => CallIsSound(calls[w])

\* Creation times given to a message or post that is not written yet.
Writing == {w \in Workers : calls[w] # Idle /\ Stamped(calls[w])}
Awaited == {calls[w].item : w \in Writing}
Given == (1..stamps) \ Awaited

\* A creation time is given once: nothing refers to one that is awaited.
StampsAreFresh ==
    /\ Awaited \subseteq 1..stamps
    /\ \A v, w \in Writing : calls[v].item = calls[w].item => v = w
    /\ DOMAIN messages \cup DOMAIN posts \subseteq Given
    /\ \A w \in Workers : calls[w] # Idle => calls[w].due \cup calls[w].stale \subseteq Given
    /\ walk # None => walk.must \cup ({walk.cursor} \ {None}) \subseteq Given

\* A message is for somebody, and says when it was read.
NotesAreSound ==
    \A m \in DOMAIN messages :
        /\ DOMAIN messages[m].notes # {}
        /\ \A a \in DOMAIN messages[m].notes :
              messages[m].notes[a].status # "unread" => messages[m].notes[a].readAt \in Times

\* What a sweep selected stays due: posts in any deployment.
StaleIsDue ==
    \A w \in Workers : calls[w] # Idle => calls[w].stale \cap DOMAIN posts \subseteq DuePosts

\* What a mark has read of its room is so.
MarkIsPresent(call) ==
    call.op = "mark" /\ call.step = "write" =>
        call.rows = InRoom(call.room) /\ call.item \in {0} \cup call.rows

\* The one process is inside one store call, and what that has read is so.
InsideIsAlone ==
    oneProcess =>
        /\ \A v, w \in Workers : Inside(v) /\ Inside(w) => v = w
        /\ \A w \in Workers : calls[w] # Idle =>
              /\ calls[w].due \subseteq DueMessages
              /\ MarkIsPresent(calls[w])
              /\ Stamped(calls[w]) => calls[w].item = stamps

\* In one process a read cursor names a post that is there, and every post that
\* no mark covered comes after it.
CursorsAreSound ==
    oneProcess =>
        \A a \in Agents, r \in Rooms :
            reads[a][r] # None =>
                /\ reads[a][r] \in InRoom(r)
                /\ \A p \in InRoom(r) \ covered[a] : p > reads[a][r]

\* What a walk has yet to show comes after its cursor.
FollowsInbox(x) ==
    LET present == x.must \cap DOMAIN messages IN
    /\ present \subseteq Unread(x.agent)
    /\ x.ended => present \subseteq x.got
    /\ x.cursor # None /\ x.cursor \in DOMAIN messages =>
          \A m \in present \ x.got : After(x.cursor, m)

\* Walks do so, and a page is of a walk.
WalkIsSound ==
    /\ \A w \in Workers : calls[w] # Idle /\ calls[w].op = "page" => walk \in Walk
    /\ walk # None => FollowsInbox(walk)

CoordinationInv ==
    /\ CoordinationTypeOK
    /\ CallsAreSound
    /\ StampsAreFresh
    /\ NotesAreSound
    /\ ReceiptsAreTrue
    /\ StaleIsDue
    /\ InsideIsAlone
    /\ CursorsAreSound
    /\ WalkIsSound

----------------------------------------------------------------------------
(* Operators                                                               *)

\* A set of naturals that is not empty has a least element.
LEMMA LeastNatural ==
    ASSUME NEW T, T \subseteq Nat, T # {}
    PROVE  \E x \in T : \A y \in T : x <= y
<1>1. \E R : IsWellFoundedOn(R, Nat) /\ \A x, y \in Nat : x < y => <<x, y>> \in R
  <2>1. \A x, y \in Nat : x < y => <<x, y>> \in OpToRel(<, Nat)
    BY DEF OpToRel
  <2>. QED  BY <2>1, NatLessThanWellFounded, Zenon
<1>2. PICK R : IsWellFoundedOn(R, Nat) /\ \A x, y \in Nat : x < y => <<x, y>> \in R
  BY <1>1
<1>3. IsWellFoundedOn(R, Nat)
  BY <1>2
<1>4. \E x \in T : \A y \in T : ~(<<y, x>> \in R)
  BY <1>3, WFMin, Zenon
<1>5. PICK x \in T : \A y \in T : ~(<<y, x>> \in R)
  BY <1>4
<1>6. \A y \in T : ~(y < x)
  BY <1>2, <1>5
<1>. QED  BY <1>6

\* A set below a bound has a greatest one, ...
LEMMA GreatestOf ==
    ASSUME NEW n \in Nat, NEW S, S \subseteq 0..n, S # {}
    PROVE  \E x \in S : \A y \in S : x >= y
<1>. DEFINE T == {n - x : x \in S}
<1>1. \A x \in S : n - x \in Nat
  OBVIOUS
<1>. HIDE DEF T
<1>5. T \subseteq Nat /\ T # {}
  BY <1>1 DEF T
<1>2. PICK m \in T : \A y \in T : m <= y
  BY <1>5, LeastNatural
<1>3. PICK x \in S : m = n - x
  BY <1>2 DEF T
<1>4. \A y \in S : n - y \in T
  BY DEF T
<1>. QED  BY <1>2, <1>3, <1>4

\* ... and Max is that.
LEMMA MaxIs ==
    ASSUME NEW n \in Nat, NEW S, S \subseteq 0..n, S # {}
    PROVE  Max(S) \in S /\ \A y \in S : Max(S) >= y
BY GreatestOf DEF Max

\* A partial function is a function on a part of its domain.
LEMMA PartialIs ==
    ASSUME NEW D, NEW R, NEW f
    PROVE  f \in Partial(D, R) <=> DOMAIN f \subseteq D /\ f \in [DOMAIN f -> R]
BY DEF Partial

\* A call is none or of its type.
LEMMA CallIs ==
    ASSUME CoordinationTypeOK, NEW w \in Workers
    PROVE  /\ calls[w] = Idle \/ calls[w] \in Call
           /\ Idle \notin Call
BY DEF CoordinationTypeOK, Idle, Call

\* What is due is there, and numbers are within their bound.
LEMMA TablesAre ==
    ASSUME CoordinationTypeOK
    PROVE  /\ DueMessages \subseteq DOMAIN messages /\ DuePosts \subseteq DOMAIN posts
           /\ DOMAIN messages \subseteq 1..MaxStamps /\ DOMAIN posts \subseteq 1..MaxStamps
           /\ MaxStamps \in Nat /\ Horizon \in Nat /\ lane.calls \in Nat
           /\ stamps \in 0..MaxStamps /\ now \in Nat
BY CoordinationAssumption DEF CoordinationTypeOK, DueMessages, DuePosts, Times

\* Some notification comes before all others in an inbox.
LEMMA FirstIs ==
    ASSUME CoordinationTypeOK, NEW S, S \subseteq DOMAIN messages, S # {}
    PROVE  \E m \in S : \A n \in S \ {m} : After(m, n)
<1>. DEFINE R == {m \in S : messages[m].required}
<1>1. S \subseteq 0..MaxStamps /\ R \subseteq 0..MaxStamps /\ MaxStamps \in Nat
  BY TablesAre
<1>2. \A m \in S : messages[m].required \in BOOLEAN
  BY DEF CoordinationTypeOK, Message
<1>3. CASE R # {}
  <2>1. PICK m \in R : \A n \in R : m >= n
    BY <1>1, <1>3, GreatestOf
  <2>2. ASSUME NEW n \in S \ {m}
        PROVE  After(m, n)
    <3>1. CASE n \in R
      <4>1. n < m
        BY <1>1, <2>1, <2>2, <3>1
      <4>2. messages[m].required = messages[n].required
        BY <1>2, <2>1, <3>1
      <4>. QED  BY <4>1, <4>2 DEF After
    <3>2. CASE n \notin R
      BY <1>2, <2>1, <2>2, <3>2 DEF After
    <3>. QED  BY <3>1, <3>2
  <2>. QED  BY <2>1, <2>2
<1>4. CASE R = {}
  <2>1. PICK m \in S : \A n \in S : m >= n
    BY <1>1, GreatestOf
  <2>2. ASSUME NEW n \in S \ {m}
        PROVE  After(m, n)
    <3>1. n < m
      BY <1>1, <2>1, <2>2
    <3>2. messages[m].required = messages[n].required
      BY <1>2, <1>4, <2>1, <2>2
    <3>. QED  BY <3>1, <3>2 DEF After
  <2>. QED  BY <2>1, <2>2
<1>. QED  BY <1>3, <1>4

----------------------------------------------------------------------------
(* What a step makes of its worker's call                                  *)

\* A call that a step may leave: what it has selected, stamped and read is
\* what is there.
NewCall(x) ==
    \/ x = Idle
    \/ /\ x \in Call /\ CallIsSound(x)
       /\ x.due \subseteq DueMessages /\ x.stale \subseteq DuePosts
       /\ Stamped(x) => x.item = stamps + 1 /\ stamps' = stamps + 1
       /\ MarkIsPresent(x)
       /\ x.op = "page" => walk' \in Walk

Takes(w) == May(w) /\ \E x : NewCall(x) /\ calls' = [calls EXCEPT ![w] = x]

\* A sweep leaves such a call.
LEMMA Sweeps ==
    ASSUME CoordinationTypeOK, NEW c \in Call, CallIsSound(c), c.step = "sweep",
           c.op = "page" => walk' \in Walk
    PROVE  NewCall(Sweeping(c))
<1>. DEFINE x == Sweeping(c)
<1>1. /\ DueMessages \subseteq 1..MaxStamps /\ DuePosts \subseteq 1..MaxStamps
  BY TablesAre
<1>2. /\ x \in Call /\ x.due = DueMessages /\ x.stale = DuePosts
      /\ x.step \in {"look", "purge"}
      /\ x.step = "look" => DueMessages = {} /\ DuePosts = {}
      /\ x.op = c.op
      /\ x.wrote = c.wrote /\ x.agent = c.agent /\ x.room = c.room /\ x.item = c.item
      /\ x.of = c.of /\ x.key = c.key /\ x.status = c.status /\ x.to = c.to
  BY <1>1 DEF Sweeping, Call, Steps
<1>. HIDE DEF x
<1>3. CallIsSound(x)
  BY <1>2 DEF CallIsSound, Stamped
<1>. QED  BY <1>2, <1>3 DEF NewCall, Stamped, MarkIsPresent, x

\* So does a step from one store call to the next.
LEMMA GoesOn ==
    ASSUME CoordinationInv, NEW w \in Workers, May(w), calls[w] # Idle,
           calls[w].step \notin {"purge", "sweep"},
           NEW s \in {"claim", "read", "record"}, Goto(w, s),
           calls[w].op = "ack" => calls[w].of = calls[w].agent,
           s \in {"claim", "record"} => calls[w].op = "ack",
           s = "read" => ~calls[w].wrote /\ calls[w].op \in {"ack", "post", "route", "mark"}
    PROVE  Takes(w)
<1>. DEFINE c == calls[w]
            x == [c EXCEPT !.step = s]
<1>1. c \in Call /\ CallIsSound(c)
  BY CallIs DEF CoordinationInv, CallsAreSound
<1>2. calls' = [calls EXCEPT ![w] = x]
  BY DEF Goto
<1>3. /\ x \in Call /\ x.step = s /\ x.op = c.op /\ x.due = c.due /\ x.stale = c.stale
      /\ x.wrote = c.wrote /\ x.agent = c.agent /\ x.room = c.room /\ x.item = c.item
      /\ x.of = c.of /\ x.key = c.key /\ x.status = c.status /\ x.to = c.to
  BY <1>1 DEF Call, Steps
<1>. HIDE DEF x
<1>4. CallIsSound(x)
  BY <1>1, <1>3 DEF CallIsSound, Stamped
<1>5. x.due = {} /\ x.stale = {} /\ x.op # "page"
  BY <1>1, <1>3 DEF CallIsSound
<1>6. NewCall(x)
  BY <1>3, <1>4, <1>5 DEF NewCall, Stamped, MarkIsPresent
<1>. QED  BY <1>2, <1>6 DEF Takes

\* A call that ends.
LEMMA Ends ==
    ASSUME NEW w \in Workers, May(w), End(w)
    PROVE  Takes(w)
BY DEF End, Takes, NewCall

\* A call that wrote is read back.
LEMMA ReadsBack ==
    ASSUME CoordinationTypeOK, NEW w \in Workers, May(w), AndReadback(w), calls[w] # Idle,
           calls[w].op \in {"send", "post", "route", "mark", "open"}
    PROVE  Takes(w)
<1>. DEFINE x == Readback(w)
<1>1. 0 \in Times /\ 0 \in 0..MaxStamps
  BY TablesAre DEF Times
<1>2. /\ x \in Call /\ x.step = "sweep" /\ x.op = calls[w].op /\ x.wrote
      /\ x.due = {} /\ x.stale = {}
  BY <1>1 DEF Readback, Blank, Call, Steps, Maybe
<1>. HIDE DEF x
<1>3. CallIsSound(x)
  BY <1>2 DEF CallIsSound, Stamped
<1>4. NewCall(x)
  BY <1>2, <1>3 DEF NewCall, Stamped, MarkIsPresent
<1>. QED  BY <1>4 DEF Takes, AndReadback, x

\* What arrives.
LEMMA Arrives ==
    ASSUME CoordinationInv, NEW w \in Workers, Arrive(w)
    PROVE  Takes(w)
<1>. USE DEF CoordinationInv
<1>1. 0 \in Times /\ 0 \in 0..MaxStamps
  BY TablesAre DEF Times
<1>2. ASSUME NEW c \in Call, CallIsSound(c), c.step = "sweep", Begin(w, Sweeping(c)),
             c.op = "page" => walk' \in Walk
      PROVE  Takes(w)
  BY <1>2, Sweeps DEF Begin, Takes
<1>3. ASSUME NEW a \in agents, BeginPage(w, a)
      PROVE  Takes(w)
  <2>. DEFINE c == [Blank EXCEPT !.op = "page", !.agent = a]
  <2>1. a \in Agents /\ Unread(a) \subseteq 1..MaxStamps
    BY TablesAre DEF CoordinationTypeOK, Unread
  <2>2. /\ c \in Call /\ c.step = "sweep" /\ c.op = "page" /\ ~c.wrote /\ c.agent = a
        /\ c.due = {} /\ c.stale = {}
    BY <1>1, <2>1 DEF Blank, Call, Steps, Maybe
  <2>3. walk' \in Walk
    <3>1. CASE walk' = [agent |-> a, cursor |-> None, must |-> Unread(a), got |-> {}, ended |-> FALSE]
      BY <2>1, <3>1 DEF Walk
    <3>2. CASE walk # None /\ UNCHANGED walk
      BY <3>2 DEF CoordinationTypeOK
    <3>. QED  BY <1>3, <3>1, <3>2 DEF BeginPage
  <2>4. Begin(w, Sweeping(c))
    BY <1>3 DEF BeginPage
  <2>. HIDE DEF c
  <2>5. CallIsSound(c)
    BY <2>1, <2>2 DEF CallIsSound, Stamped
  <2>. QED  BY <1>2, <2>2, <2>3, <2>4, <2>5
<1>4. ASSUME NEW a \in agents, NEW to \in Targets, NEW required \in BOOLEAN,
             SendRead(w, a, to, required)
      PROVE  Takes(w)
  <2>. DEFINE x == [Blank EXCEPT !.op = "send", !.step = "write", !.agent = a, !.item = stamps + 1,
                                 !.at = now, !.required = required,
                                 !.to = IF to = {} THEN agents \cup {a} ELSE to]
  <2>1. a \in Agents /\ to \subseteq Agents /\ agents \subseteq Agents /\ now \in Times
    BY CoordinationAssumption DEF CoordinationTypeOK
  <2>2. stamps' = stamps + 1 /\ stamps + 1 \in 1..MaxStamps /\ stamps + 1 \in 0..MaxStamps
    BY <1>4, TablesAre DEF SendRead
  <2>3. /\ x \in Call /\ x.step = "write" /\ x.op = "send" /\ ~x.wrote /\ x.agent = a
        /\ x.due = {} /\ x.stale = {} /\ x.to # {} /\ x.item = stamps + 1
    BY <1>1, <2>1, <2>2 DEF Blank, Call, Steps, Maybe
  <2>4. Begin(w, x)
    BY <1>4 DEF SendRead
  <2>. HIDE DEF x
  <2>5. CallIsSound(x)
    BY <2>1, <2>2, <2>3 DEF CallIsSound, Stamped
  <2>6. NewCall(x)
    BY <2>2, <2>3, <2>5 DEF NewCall, Stamped, MarkIsPresent
  <2>. QED  BY <2>4, <2>6 DEF Begin, Takes
<1>5. ASSUME NEW a \in agents, NEW m \in DOMAIN messages, NEW key \in Keys, NEW status \in Statuses,
             NEW of \in DOMAIN messages[m].notes, BeginAck(w, a, m, of, key, status)
      PROVE  Takes(w)
  <2>. DEFINE c == [Blank EXCEPT !.op = "ack", !.agent = a, !.item = m, !.of = of,
                                 !.key = key, !.status = status]
  <2>1. a \in Agents /\ m \in 1..MaxStamps /\ m \in 0..MaxStamps
    BY TablesAre DEF CoordinationTypeOK
  <2>2. of \in Agents
    <3>1. messages[m].notes \in Partial(Agents, Note)
      BY DEF CoordinationTypeOK, Message
    <3>. QED  BY <3>1, PartialIs
  <2>3. /\ c \in Call /\ c.step = "sweep" /\ c.op = "ack" /\ ~c.wrote /\ c.agent = a
        /\ c.due = {} /\ c.stale = {} /\ c.item = m /\ c.of = of /\ c.key = key /\ c.status = status
    BY <1>1, <2>1, <2>2 DEF Blank, Call, Steps, Maybe
  <2>4. Begin(w, Sweeping(c))
    BY <1>5 DEF BeginAck
  <2>. HIDE DEF c
  <2>5. CallIsSound(c)
    BY <2>1, <2>2, <2>3 DEF CallIsSound, Stamped
  <2>. QED  BY <1>2, <2>3, <2>4, <2>5
<1>6. ASSUME NEW r \in Rooms, BeginPost(w, r)
      PROVE  Takes(w)
  <2>. DEFINE c == [Blank EXCEPT !.op = "post", !.room = r, !.with = r]
  <2>1. /\ c \in Call /\ c.step = "sweep" /\ c.op = "post" /\ c.room = r
        /\ c.due = {} /\ c.stale = {}
    BY <1>1 DEF Blank, Call, Steps, Maybe
  <2>2. Begin(w, Sweeping(c))
    BY <1>6 DEF BeginPost
  <2>. HIDE DEF c
  <2>3. CallIsSound(c)
    BY <2>1 DEF CallIsSound, Stamped
  <2>. QED  BY <1>2, <2>1, <2>2, <2>3
<1>7. ASSUME NEW r \in Rooms, NEW destination \in Rooms, BeginRoute(w, r, destination)
      PROVE  Takes(w)
  <2>. DEFINE c == [Blank EXCEPT !.op = "route", !.room = r, !.with = destination]
  <2>1. /\ c \in Call /\ c.step = "sweep" /\ c.op = "route" /\ c.room = r
        /\ c.due = {} /\ c.stale = {}
    BY <1>1 DEF Blank, Call, Steps, Maybe
  <2>2. Begin(w, Sweeping(c))
    BY <1>7 DEF BeginRoute
  <2>. HIDE DEF c
  <2>3. CallIsSound(c)
    BY <2>1 DEF CallIsSound, Stamped
  <2>. QED  BY <1>2, <2>1, <2>2, <2>3
<1>8. ASSUME NEW a \in agents, NEW r \in Rooms, NEW p \in {0} \cup InRoom(r), BeginMark(w, a, r, p)
      PROVE  Takes(w)
  <2>. DEFINE c == [Blank EXCEPT !.op = "mark", !.agent = a, !.room = r, !.with = r, !.item = p]
  <2>1. a \in Agents /\ p \in 0..MaxStamps
    BY TablesAre DEF CoordinationTypeOK, InRoom
  <2>2. /\ c \in Call /\ c.step = "sweep" /\ c.op = "mark" /\ c.room = r /\ c.agent = a
        /\ c.due = {} /\ c.stale = {}
    BY <1>1, <2>1 DEF Blank, Call, Steps, Maybe
  <2>3. Begin(w, Sweeping(c))
    BY <1>8 DEF BeginMark
  <2>. HIDE DEF c
  <2>4. CallIsSound(c)
    BY <2>1, <2>2 DEF CallIsSound, Stamped
  <2>. QED  BY <1>2, <2>2, <2>3, <2>4
<1>9. ASSUME NEW r \in Rooms, OpenRead(w, r)
      PROVE  Takes(w)
  <2>. DEFINE x == [Blank EXCEPT !.op = "open", !.step = "write", !.missing = {r} \ rooms]
  <2>1. /\ x \in Call /\ x.step = "write" /\ x.op = "open" /\ ~x.wrote
        /\ x.due = {} /\ x.stale = {}
    BY <1>1 DEF Blank, Call, Steps, Maybe
  <2>2. Begin(w, x)
    BY <1>9 DEF OpenRead
  <2>. HIDE DEF x
  <2>3. CallIsSound(x)
    BY <2>1 DEF CallIsSound, Stamped
  <2>4. NewCall(x)
    BY <2>1, <2>3 DEF NewCall, Stamped, MarkIsPresent
  <2>. QED  BY <2>2, <2>4 DEF Begin, Takes
<1>. QED  BY <1>3, <1>4, <1>5, <1>6, <1>7, <1>8, <1>9 DEF Arrive

\* What the server does.
LEMMA Serves ==
    ASSUME CoordinationInv, NEW w \in Workers, Server(w)
    PROVE  Takes(w)
<1>. USE DEF CoordinationInv
<1>. DEFINE c == calls[w]
<1>1. c # Idle => c \in Call /\ CallIsSound(c)
  BY CallIs DEF CallsAreSound
<1>2. ASSUME NEW x, NewCall(x), May(w), calls' = [calls EXCEPT ![w] = x]
      PROVE  Takes(w)
  BY <1>2 DEF Takes
<1>3. c # Idle /\ c.op = "page" => walk \in Walk
  BY DEF WalkIsSound
<1>4. ASSUME NEW present, calls[w] # Idle, May(w), RoomsListed(w, present), ListsRooms(w) \/ c.step = "defaults",
             c.step \in {"look", "defaults"}
      PROVE  Takes(w)
  <2>1. CASE End(w)
    BY <1>4, <2>1, Ends
  <2>2. CASE ~c.wrote /\ Goto(w, "read")
    <3>1. c.op \in {"post", "route", "mark"}
      BY <1>1, <1>4, <2>2 DEF CallIsSound, ListsRooms
    <3>. QED  BY <1>4, <2>2, <3>1, GoesOn
  <2>. QED  BY <1>4, <2>1, <2>2 DEF RoomsListed
<1>5. ASSUME Sweep(w)
      PROVE  Takes(w)
  <2>1. c # Idle /\ May(w) /\ c.step = "sweep" /\ walk' = walk
    BY <1>5 DEF Sweep, At
  <2>2. CASE End(w)
    BY <2>1, <2>2, Ends
  <2>3. CASE calls' = [calls EXCEPT ![w] = Sweeping(@)]
    <3>1. calls' = [calls EXCEPT ![w] = Sweeping(c)]
      BY <2>3
    <3>2. NewCall(Sweeping(c))
      BY <1>1, <1>3, <2>1, Sweeps
    <3>. QED  BY <1>2, <2>1, <3>1, <3>2
  <2>. QED  BY <1>5, <2>2, <2>3 DEF Sweep
<1>6. ASSUME PurgeDue(w)
      PROVE  Takes(w)
  <2>1. c # Idle /\ May(w) /\ c.step = "purge" /\ walk' = walk
    BY <1>6 DEF PurgeDue, At
  <2>2. CASE End(w)
    BY <2>1, <2>2, Ends
  <2>3. CASE calls' = [calls EXCEPT ![w].step = "look", ![w].due = {}, ![w].stale = {}]
    <3>. DEFINE x == [c EXCEPT !.step = "look", !.due = {}, !.stale = {}]
    <3>1. calls' = [calls EXCEPT ![w] = x]
      BY <2>3
    <3>2. /\ x \in Call /\ x.step = "look" /\ x.op = c.op /\ x.due = {} /\ x.stale = {}
          /\ x.wrote = c.wrote /\ x.agent = c.agent /\ x.room = c.room /\ x.item = c.item
          /\ x.of = c.of /\ x.key = c.key /\ x.status = c.status /\ x.to = c.to
      BY <1>1, <2>1 DEF Call, Steps
    <3>. HIDE DEF x
    <3>3. CallIsSound(x)
      BY <1>1, <2>1, <3>2 DEF CallIsSound, Stamped
    <3>4. NewCall(x)
      BY <1>3, <2>1, <3>2, <3>3 DEF NewCall, Stamped, MarkIsPresent
    <3>. QED  BY <1>2, <2>1, <3>1, <3>4
  <2>. QED  BY <1>6, <2>2, <2>3 DEF PurgeDue
<1>7. ASSUME ListRooms(w)
      PROVE  Takes(w)
  <2>1. c # Idle /\ May(w) /\ c.step = "look" /\ ListsRooms(w)
    BY <1>7 DEF ListRooms, At
  <2>2. CASE RoomsListed(w, rooms)
    BY <1>4, <2>1, <2>2
  <2>3. CASE calls' = [calls EXCEPT ![w].step = "defaults", ![w].missing = Defaults \ rooms]
    <3>. DEFINE x == [c EXCEPT !.step = "defaults", !.missing = Defaults \ rooms]
    <3>1. calls' = [calls EXCEPT ![w] = x]
      BY <2>3
    <3>2. Defaults \ rooms \subseteq Rooms
      BY CoordinationAssumption
    <3>3. /\ x \in Call /\ x.step = "defaults" /\ x.op = c.op /\ x.due = c.due /\ x.stale = c.stale
          /\ x.wrote = c.wrote /\ x.agent = c.agent /\ x.room = c.room /\ x.item = c.item
          /\ x.of = c.of /\ x.key = c.key /\ x.status = c.status /\ x.to = c.to
      BY <1>1, <2>1, <3>2 DEF Call, Steps
    <3>. HIDE DEF x
    <3>4. x.op \in {"post", "route", "mark", "open"} /\ x.due = {} /\ x.stale = {}
      BY <1>1, <2>1, <3>3 DEF CallIsSound, ListsRooms
    <3>5. CallIsSound(x)
      BY <1>1, <2>1, <3>3, <3>4 DEF CallIsSound, Stamped
    <3>6. NewCall(x)
      BY <3>3, <3>4, <3>5 DEF NewCall, Stamped, MarkIsPresent
    <3>. QED  BY <1>2, <2>1, <3>1, <3>6
  <2>. QED  BY <1>7, <2>2, <2>3 DEF ListRooms
<1>8. ASSUME EnsureDefaults(w)
      PROVE  Takes(w)
  <2>1. c # Idle /\ May(w) /\ c.step = "defaults"
    BY <1>8 DEF EnsureDefaults, At
  <2>2. CASE End(w)
    BY <2>1, <2>2, Ends
  <2>3. CASE RoomsListed(w, rooms \cup calls[w].missing)
    BY <1>4, <2>1, <2>3
  <2>. QED  BY <1>8, <2>2, <2>3 DEF EnsureDefaults
<1>9. ASSUME Page(w)
      PROVE  Takes(w)
  BY <1>9, Ends DEF Page, At
<1>10. ASSUME Sees(w)
       PROVE  Takes(w)
  <2>1. c # Idle /\ May(w) /\ c.step = "look" /\ c.op = "ack"
    BY <1>10 DEF Sees, At
  <2>2. CASE End(w)
    BY <2>1, <2>2, Ends
  <2>3. CASE c.of = c.agent /\ Goto(w, "claim")
    BY <2>1, <2>3, GoesOn
  <2>. QED  BY <1>10, <2>2, <2>3 DEF Sees
<1>11. ASSUME Claim(w)
       PROVE  Takes(w)
  <2>1. c # Idle /\ May(w) /\ c.step = "claim"
    BY <1>11 DEF Claim, At
  <2>2. c.op = "ack" /\ ~c.wrote /\ c.of = c.agent
    BY <1>1, <2>1 DEF CallIsSound
  <2>3. CASE End(w)
    BY <2>1, <2>3, Ends
  <2>4. CASE Goto(w, "read")
    BY <2>1, <2>2, <2>4, GoesOn
  <2>. QED  BY <1>11, <2>3, <2>4 DEF Claim
<1>12. ASSUME AckRead(w)
       PROVE  Takes(w)
  <2>1. c # Idle /\ May(w) /\ c.step = "read" /\ c.op = "ack"
    BY <1>12 DEF AckRead, At
  <2>2. CASE End(w)
    BY <2>1, <2>2, Ends
  <2>3. CASE calls' = [calls EXCEPT ![w].step = "write", ![w].at = now]
    <3>. DEFINE x == [c EXCEPT !.step = "write", !.at = now]
    <3>1. calls' = [calls EXCEPT ![w] = x]
      BY <2>3
    <3>2. now \in Times
      BY DEF CoordinationTypeOK
    <3>3. /\ x \in Call /\ x.step = "write" /\ x.op = c.op /\ x.due = c.due /\ x.stale = c.stale
          /\ x.wrote = c.wrote /\ x.agent = c.agent /\ x.room = c.room /\ x.item = c.item
          /\ x.of = c.of /\ x.key = c.key /\ x.status = c.status /\ x.to = c.to
      BY <1>1, <2>1, <3>2 DEF Call, Steps
    <3>. HIDE DEF x
    <3>4. CallIsSound(x) /\ x.due = {} /\ x.stale = {}
      BY <1>1, <2>1, <3>3 DEF CallIsSound, Stamped
    <3>5. NewCall(x)
      BY <2>1, <3>3, <3>4 DEF NewCall, Stamped, MarkIsPresent
    <3>. QED  BY <1>2, <2>1, <3>1, <3>5
  <2>. QED  BY <1>12, <2>2, <2>3 DEF AckRead
<1>13. ASSUME AckWrite(w)
       PROVE  Takes(w)
  <2>1. c # Idle /\ May(w) /\ c.step = "write" /\ c.op = "ack"
    BY <1>13 DEF AckWrite, At
  <2>2. c.of = c.agent
    BY <1>1, <2>1 DEF CallIsSound
  <2>3. CASE End(w)
    BY <2>1, <2>3, Ends
  <2>4. CASE Goto(w, "record")
    BY <2>1, <2>2, <2>4, GoesOn
  <2>. QED  BY <1>13, <2>3, <2>4 DEF AckWrite
<1>14. ASSUME Record(w)
       PROVE  Takes(w)
  BY <1>14, Ends DEF Record, At
<1>15. ASSUME SendWrite(w) \/ PostWrite(w) \/ MarkWrite(w)
       PROVE  Takes(w)
  BY <1>15, ReadsBack DEF SendWrite, PostWrite, MarkWrite, At
<1>16. ASSUME PostRead(w)
       PROVE  Takes(w)
  <2>. DEFINE x == [c EXCEPT !.step = "write", !.item = stamps + 1, !.at = now]
  <2>1. /\ c # Idle /\ May(w) /\ c.step = "read" /\ c.op \in {"post", "route"}
        /\ calls' = [calls EXCEPT ![w] = x] /\ stamps < MaxStamps /\ stamps' = stamps + 1
    BY <1>16 DEF PostRead, At
  <2>2. now \in Times /\ stamps + 1 \in 1..MaxStamps /\ stamps + 1 \in 0..MaxStamps
    BY <2>1, TablesAre DEF CoordinationTypeOK
  <2>3. /\ x \in Call /\ x.step = "write" /\ x.op = c.op /\ x.due = c.due /\ x.stale = c.stale
        /\ x.wrote = c.wrote /\ x.agent = c.agent /\ x.room = c.room /\ x.item = stamps + 1
    BY <1>1, <2>1, <2>2 DEF Call, Steps
  <2>. HIDE DEF x
  <2>4. CallIsSound(x) /\ x.due = {} /\ x.stale = {}
    BY <1>1, <2>1, <2>2, <2>3 DEF CallIsSound, Stamped
  <2>5. NewCall(x)
    BY <2>1, <2>3, <2>4 DEF NewCall, Stamped, MarkIsPresent
  <2>. QED  BY <1>2, <2>1, <2>5
<1>17. ASSUME MarkRead(w)
       PROVE  Takes(w)
  <2>1. c # Idle /\ May(w) /\ c.step = "read" /\ c.op = "mark"
    BY <1>17 DEF MarkRead, At
  <2>2. CASE End(w)
    BY <2>1, <2>2, Ends
  <2>3. CASE ~End(w)
    <3>. DEFINE item == IF c.item = 0 /\ InRoom(c.room) # {} THEN Max(InRoom(c.room)) ELSE c.item
                x == [c EXCEPT !.step = "write", !.rows = InRoom(c.room), !.item = item]
    <3>1. calls' = [calls EXCEPT ![w] = x] /\ (c.item = 0 \/ c.item \in InRoom(c.room))
      BY <1>17, <2>3 DEF MarkRead
    <3>2. InRoom(c.room) \subseteq 1..MaxStamps /\ MaxStamps \in Nat
      BY TablesAre DEF InRoom
    <3>3. item \in {0} \cup InRoom(c.room)
      <4>1. InRoom(c.room) # {} => Max(InRoom(c.room)) \in InRoom(c.room)
        BY <3>2, MaxIs
      <4>. QED  BY <3>1, <4>1
    <3>4. item \in 0..MaxStamps
      BY <3>2, <3>3
    <3>. HIDE DEF item
    <3>5. /\ x \in Call /\ x.step = "write" /\ x.op = c.op /\ x.due = c.due /\ x.stale = c.stale
          /\ x.wrote = c.wrote /\ x.agent = c.agent /\ x.room = c.room /\ x.item = item
          /\ x.rows = InRoom(c.room)
      BY <1>1, <2>1, <3>2, <3>4 DEF Call, Steps
    <3>. HIDE DEF x
    <3>6. CallIsSound(x) /\ x.due = {} /\ x.stale = {}
      BY <1>1, <2>1, <3>5 DEF CallIsSound, Stamped
    <3>7. NewCall(x)
      BY <2>1, <3>3, <3>5, <3>6 DEF NewCall, Stamped, MarkIsPresent
    <3>. QED  BY <1>2, <2>1, <3>1, <3>7
  <2>. QED  BY <2>2, <2>3
<1>18. ASSUME OpenWrite(w)
       PROVE  Takes(w)
  <2>1. c # Idle /\ May(w) /\ c.op = "open"
    BY <1>18 DEF OpenWrite, At
  <2>. QED  BY <1>18, <2>1, Ends, ReadsBack DEF OpenWrite
<1>. QED
  BY <1>5, <1>6, <1>7, <1>8, <1>9, <1>10, <1>11, <1>12, <1>13, <1>14, <1>15, <1>16, <1>17, <1>18
  DEF Server

----------------------------------------------------------------------------
(* What a step makes of the tables                                         *)

\* Which steps write which table.
LEMMA Writers ==
    ASSUME NEW w \in Workers, Arrive(w) \/ Server(w)
    PROVE  /\ UNCHANGED <<oneProcess, lane, now, agents>>
           /\ UNCHANGED <<messages, receipts>> \/ PurgeDue(w) \/ AckWrite(w) \/ SendWrite(w)
           /\ UNCHANGED posts \/ PurgeDue(w) \/ PostWrite(w)
           /\ UNCHANGED reads \/ PurgeDue(w) \/ MarkWrite(w)
           /\ UNCHANGED covered \/ MarkWrite(w)
           /\ UNCHANGED walk \/ (\E a \in agents : BeginPage(w, a)) \/ Page(w) \/ AckWrite(w)
           /\ UNCHANGED stamps \/ (stamps < MaxStamps /\ stamps' = stamps + 1)
           /\ UNCHANGED rooms \/ PurgeDue(w) \/ EnsureDefaults(w) \/ OpenWrite(w)
           /\ UNCHANGED <<stored, pending>> \/ Claim(w) \/ AckRead(w) \/ Record(w)
           /\ UNCHANGED begun \/ (begun < lane.calls /\ begun' = begun + 1)
<1>1. CASE Arrive(w)
  BY <1>1 DEF Arrive, BeginPage, SendRead, BeginAck, BeginPost, BeginRoute, BeginMark, OpenRead, Begin,
     setting, direct, meeting
<1>2. CASE Server(w)
  <2>1. CASE Sweep(w) \/ PurgeDue(w) \/ ListRooms(w) \/ EnsureDefaults(w) \/ Page(w)
    BY <2>1 DEF Sweep, PurgeDue, ListRooms, EnsureDefaults, Page, setting, direct, meeting
  <2>2. CASE Sees(w) \/ Claim(w) \/ AckRead(w) \/ AckWrite(w) \/ Record(w)
    BY <2>2 DEF Sees, Claim, AckRead, AckWrite, Record, setting, direct, meeting
  <2>3. CASE \/ SendWrite(w) \/ PostRead(w) \/ PostWrite(w) \/ MarkRead(w) \/ MarkWrite(w)
             \/ OpenWrite(w)
    BY <2>3 DEF SendWrite, PostRead, PostWrite, MarkRead, MarkWrite, OpenWrite, setting, direct, meeting
  <2>. QED  BY <1>2, <2>1, <2>2, <2>3 DEF Server
<1>. QED  BY <1>1, <1>2

\* The call of a worker at a step.
LEMMA AtIs ==
    ASSUME CoordinationInv, NEW w \in Workers, NEW step, At(w, step)
    PROVE  /\ calls[w] # Idle /\ calls[w].step = step /\ May(w)
           /\ calls[w] \in Call /\ CallIsSound(calls[w])
BY CallIs DEF CoordinationInv, CallsAreSound, At

\* A deletion.
LEMMA PurgeIs ==
    ASSUME CoordinationInv, NEW w \in Workers, PurgeDue(w)
    PROVE  /\ calls[w] # Idle /\ calls[w].step = "purge"
           /\ DOMAIN messages' = DOMAIN messages \ calls[w].due
           /\ \A m \in DOMAIN messages' : messages'[m] = messages[m]
           /\ receipts' = {x \in receipts : x.message \notin calls[w].due}
           /\ DOMAIN posts' = DOMAIN posts \ calls[w].stale
           /\ \A p \in DOMAIN posts' : posts'[p] = posts[p]
<1>1. calls[w] # Idle /\ calls[w].step = "purge"
  BY AtIs DEF PurgeDue
<1>2. /\ messages' = Without(messages, calls[w].due)
      /\ posts' = Without(posts, calls[w].stale)
      /\ receipts' = {x \in receipts : x.message \notin calls[w].due}
  BY DEF PurgeDue
<1>3. DOMAIN messages' = DOMAIN messages \ calls[w].due /\ DOMAIN posts' = DOMAIN posts \ calls[w].stale
  BY <1>2 DEF Without
<1>4. /\ \A m \in DOMAIN messages' : messages'[m] = messages[m]
      /\ \A p \in DOMAIN posts' : posts'[p] = posts[p]
  BY <1>2, <1>3 DEF Without
<1>. QED  BY <1>1, <1>2, <1>3, <1>4

\* An acknowledgement: its receipt, and its notification that says the same.
LEMMA AckIs ==
    ASSUME CoordinationInv, NEW w \in Workers, AckWrite(w)
    PROVE  LET c == calls[w] IN
           /\ c # Idle /\ c \in Call /\ c.op = "ack" /\ c.step = "write"
           /\ c.of = c.agent /\ c.item \in 1..MaxStamps /\ c.of \in Agents /\ c.status \in Statuses
           /\ UNCHANGED posts
           /\ \/ UNCHANGED <<messages, receipts, walk>>
              \/ /\ c.item \in DOMAIN messages /\ c.of \in DOMAIN messages[c.item].notes
                 /\ DOMAIN messages' = DOMAIN messages
                 /\ \A m \in DOMAIN messages : m # c.item => messages'[m] = messages[m]
                 /\ messages'[c.item] = [messages[c.item] EXCEPT !.notes =
                       [messages[c.item].notes EXCEPT ![c.of] = [status |-> c.status, readAt |-> c.at]]]
                 /\ receipts' = receipts \cup {[message |-> c.item, target |-> c.of,
                                                consumer |-> c.agent, status |-> c.status]}
                 /\ walk' = IF walk # None /\ walk.agent = c.of /\ c.status # "unread"
                            THEN [walk EXCEPT !.must = @ \ {c.item}] ELSE walk
<1>. DEFINE c == calls[w]
<1>1. /\ c # Idle /\ c \in Call /\ c.op = "ack" /\ c.step = "write" /\ CallIsSound(c)
  BY AtIs DEF AckWrite
<1>2. c.of = c.agent /\ c.item \in 1..MaxStamps /\ c.of \in Agents /\ c.status \in Statuses
  BY <1>1 DEF CallIsSound
<1>3. UNCHANGED posts
  BY DEF AckWrite, meeting
<1>4. CASE ~Notified(w)
  BY <1>1, <1>2, <1>3, <1>4 DEF AckWrite
<1>5. CASE Notified(w)
  <2>1. c.item \in DOMAIN messages /\ c.of \in DOMAIN messages[c.item].notes
    BY <1>5 DEF Notified
  <2>2. messages' = [messages EXCEPT ![c.item].notes[c.of] = [status |-> c.status, readAt |-> c.at]]
    BY <1>5 DEF AckWrite
  <2>. QED  BY <1>1, <1>2, <1>3, <1>5, <2>1, <2>2 DEF AckWrite
<1>. QED  BY <1>4, <1>5

\* A message.
LEMMA SendIs ==
    ASSUME CoordinationInv, NEW w \in Workers, SendWrite(w)
    PROVE  LET c == calls[w] IN
           /\ c # Idle /\ c \in Call /\ Stamped(c) /\ c.item \in 1..MaxStamps
           /\ c.agent \in Agents /\ c.to # {}
           /\ w \in Writing /\ c.item \in Awaited /\ c.item \notin DOMAIN messages
           /\ DOMAIN messages' = DOMAIN messages \cup {c.item}
           /\ \A m \in DOMAIN messages : messages'[m] = messages[m]
           /\ messages'[c.item] = [sender |-> c.agent, at |-> c.at, required |-> c.required,
                                   notes |-> [a \in c.to |-> [status |-> "unread", readAt |-> None]]]
           /\ UNCHANGED <<receipts, posts, walk, stamps>>
<1>. DEFINE c == calls[w]
<1>1. /\ c # Idle /\ c \in Call /\ c.op = "send" /\ c.step = "write" /\ CallIsSound(c)
  BY AtIs DEF SendWrite
<1>2. Stamped(c) /\ c.item \in 1..MaxStamps /\ c.agent \in Agents /\ c.to # {}
  BY <1>1 DEF CallIsSound, Stamped
<1>3. w \in Writing /\ c.item \in Awaited /\ c.item \notin DOMAIN messages
  BY <1>1, <1>2 DEF CoordinationInv, StampsAreFresh, Writing, Awaited, Given
<1>4. UNCHANGED <<receipts, posts, walk, stamps>>
  BY DEF SendWrite, setting, meeting
<1>. DEFINE row == [sender |-> c.agent, at |-> c.at, required |-> c.required,
                    notes |-> [a \in c.to |-> [status |-> "unread", readAt |-> None]]]
<1>5. messages' = With(messages, c.item, row)
  BY DEF SendWrite
<1>. HIDE DEF row, c
<1>6. /\ DOMAIN messages' = DOMAIN messages \cup {c.item} /\ messages'[c.item] = row
      /\ \A m \in DOMAIN messages : m # c.item => messages'[m] = messages[m]
  BY <1>5 DEF With
<1>7. \A m \in DOMAIN messages : messages'[m] = messages[m]
  BY <1>3, <1>6
<1>. QED  BY <1>1, <1>2, <1>3, <1>4, <1>6, <1>7 DEF row, c

\* A post.
LEMMA PostIs ==
    ASSUME CoordinationInv, NEW w \in Workers, PostWrite(w)
    PROVE  LET c == calls[w] IN
           /\ c # Idle /\ c \in Call /\ Stamped(c) /\ c.item \in 1..MaxStamps /\ c.room \in Rooms
           /\ w \in Writing /\ c.item \in Awaited /\ c.item \notin DOMAIN posts
           /\ DOMAIN posts' = DOMAIN posts \cup {c.item}
           /\ \A p \in DOMAIN posts : posts'[p] = posts[p]
           /\ posts'[c.item] = [room |-> c.room, at |-> c.at, routed |-> c.op = "route"]
           /\ UNCHANGED <<messages, receipts, reads, covered, walk, stamps>>
<1>. DEFINE c == calls[w]
<1>1. /\ c # Idle /\ c \in Call /\ c.op \in {"post", "route"} /\ c.step = "write" /\ CallIsSound(c)
  BY AtIs DEF PostWrite
<1>2. Stamped(c) /\ c.item \in 1..MaxStamps /\ c.room \in Rooms
  BY <1>1 DEF CallIsSound, Stamped
<1>3. w \in Writing /\ c.item \in Awaited /\ c.item \notin DOMAIN posts
  BY <1>1, <1>2 DEF CoordinationInv, StampsAreFresh, Writing, Awaited, Given
<1>4. UNCHANGED <<messages, receipts, reads, covered, walk, stamps>>
  BY DEF PostWrite, setting, direct
<1>. DEFINE row == [room |-> c.room, at |-> c.at, routed |-> c.op = "route"]
<1>5. posts' = With(posts, c.item, row)
  BY DEF PostWrite
<1>. HIDE DEF row, c
<1>6. /\ DOMAIN posts' = DOMAIN posts \cup {c.item} /\ posts'[c.item] = row
      /\ \A p \in DOMAIN posts : p # c.item => posts'[p] = posts[p]
  BY <1>5 DEF With
<1>7. \A p \in DOMAIN posts : posts'[p] = posts[p]
  BY <1>3, <1>6
<1>. QED  BY <1>1, <1>2, <1>3, <1>4, <1>6, <1>7 DEF row, c

\* A mark.
LEMMA MarkIs ==
    ASSUME CoordinationInv, NEW w \in Workers, MarkWrite(w)
    PROVE  LET c == calls[w] IN
           /\ c # Idle /\ c \in Call /\ c.op = "mark" /\ c.step = "write"
           /\ c.agent \in Agents /\ c.room \in Rooms
           /\ reads' = [reads EXCEPT ![c.agent][c.room] = IF c.item = 0 THEN None ELSE c.item]
           /\ covered' = [covered EXCEPT ![c.agent] = @ \cup {p \in c.rows : p <= c.item}]
           /\ UNCHANGED <<messages, receipts, posts, walk>>
<1>1. LET c == calls[w] IN
      c # Idle /\ c \in Call /\ c.op = "mark" /\ c.step = "write" /\ CallIsSound(c)
  BY AtIs DEF MarkWrite
<1>. QED  BY <1>1 DEF MarkWrite, direct, CallIsSound

\* A page: the first notification after the cursor, in the order of the inbox.
LEMMA PageIs ==
    ASSUME CoordinationInv, NEW w \in Workers, Page(w)
    PROVE  /\ walk \in Walk /\ walk' \in Walk
           /\ walk'.agent = walk.agent /\ walk'.must = walk.must /\ walk.got \subseteq walk'.got
           /\ UNCHANGED <<messages, receipts, posts, stamps>>
           /\ LET c == walk.cursor
                  rest == {m \in Unread(walk.agent) : c # None /\ c \in DOMAIN messages => After(c, m)}
              IN \/ rest = {} /\ walk'.cursor = walk.cursor
                 \/ \E first \in rest :
                       /\ first \in walk'.got
                       /\ \A n \in rest \ {first} : After(first, n)
                       /\ \/ rest = {first} /\ walk'.cursor = None
                          \/ ~walk'.ended /\ walk'.cursor = first
<1>. DEFINE c == walk.cursor
            rest == {m \in Unread(walk.agent) : c # None /\ c \in DOMAIN messages => After(c, m)}
            first == CHOOSE m \in rest : \A n \in rest \ {m} : After(m, n)
<1>1. walk \in Walk
  BY AtIs DEF Page, CoordinationInv, WalkIsSound
<1>2. rest \subseteq DOMAIN messages /\ rest \subseteq 1..MaxStamps
  BY TablesAre DEF CoordinationInv, Unread
<1>3. UNCHANGED <<messages, receipts, posts, stamps>>
  BY DEF Page, setting, direct, meeting
<1>4. CASE rest = {}
  <2>1. walk' = [walk EXCEPT !.ended = TRUE]
    BY <1>4 DEF Page
  <2>. HIDE DEF rest
  <2>2. /\ walk' \in Walk /\ walk'.agent = walk.agent /\ walk'.must = walk.must
        /\ walk'.got = walk.got /\ walk'.cursor = walk.cursor
    BY <1>1, <2>1 DEF Walk
  <2>. QED  BY <1>1, <1>3, <1>4, <2>2 DEF rest
<1>5. CASE rest # {}
  <2>1. first \in rest /\ \A n \in rest \ {first} : After(first, n)
    <3>1. \E m \in rest : \A n \in rest \ {m} : After(m, n)
      <4>. HIDE DEF rest
      <4>. QED  BY <1>2, <1>5, FirstIs DEF CoordinationInv
    <3>. HIDE DEF rest
    <3>. QED  BY <3>1
  <2>2. walk' = [walk EXCEPT !.got = @ \cup {first}, !.ended = Cardinality(rest) = 1,
                             !.cursor = IF Cardinality(rest) = 1 THEN None ELSE first]
    BY <1>5 DEF Page
  <2>. HIDE DEF rest, first
  <2>3. first \in 1..MaxStamps
    BY <1>2, <2>1
  <2>4. /\ walk' \in Walk /\ walk'.agent = walk.agent /\ walk'.must = walk.must
        /\ walk'.got = walk.got \cup {first} /\ walk'.ended = (Cardinality(rest) = 1)
        /\ walk'.cursor = IF Cardinality(rest) = 1 THEN None ELSE first
    BY <1>1, <2>2, <2>3 DEF Walk
  <2>5. CASE Cardinality(rest) = 1
    <3>1. IsFiniteSet(rest)
      <4>1. MaxStamps \in Int /\ 1 \in Int
        BY TablesAre DEF CoordinationInv
      <4>2. IsFiniteSet(1..MaxStamps)
        BY <4>1, FS_Interval
      <4>. QED  BY <1>2, <4>2, FS_Subset
    <3>2. PICK m : rest = {m}
      BY <2>5, <3>1, FS_Singleton
    <3>3. rest = {first}
      BY <2>1, <3>2
    <3>. QED  BY <1>1, <1>3, <2>1, <2>4, <2>5, <3>3 DEF rest
  <2>6. CASE Cardinality(rest) # 1
    BY <1>1, <1>3, <2>1, <2>4, <2>6 DEF rest
  <2>. QED  BY <2>5, <2>6
<1>. QED  BY <1>4, <1>5

----------------------------------------------------------------------------
(* The parts of the invariant, at the step of a worker                     *)

\* A step leaves its worker none or a new call, and the others theirs.
LEMMA CallsStep ==
    ASSUME CoordinationInv, NEW w \in Workers, Arrive(w) \/ Server(w)
    PROVE  /\ calls' \in [Workers -> Call \cup {Idle}] /\ CallsAreSound'
           /\ \A v \in Workers \ {w} : calls'[v] = calls[v]
           /\ NewCall(calls'[w]) /\ May(w)
<1>1. PICK x : NewCall(x) /\ calls' = [calls EXCEPT ![w] = x] /\ May(w)
  BY Arrives, Serves DEF Takes
<1>2. x = Idle \/ (x \in Call /\ CallIsSound(x))
  BY <1>1 DEF NewCall
<1>3. /\ calls' \in [Workers -> Call \cup {Idle}] /\ calls'[w] = x
      /\ \A v \in Workers \ {w} : calls'[v] = calls[v]
  BY <1>1, <1>2 DEF CoordinationInv, CoordinationTypeOK
<1>4. ASSUME NEW v \in Workers, calls'[v] # Idle
      PROVE  CallIsSound(calls'[v])
  <2>1. CASE v = w
    BY <1>2, <1>3, <1>4, <2>1
  <2>2. CASE v # w
    <3>1. CallIsSound(calls[v]) /\ calls'[v] = calls[v]
      BY <1>3, <1>4, <2>2 DEF CoordinationInv, CallsAreSound
    <3>. QED  BY <3>1
  <2>. QED  BY <2>1, <2>2
<1>5. CallsAreSound'
  BY <1>4 DEF CallsAreSound, CallIsSound, Stamped
<1>. QED  BY <1>1, <1>3, <1>5

\* A call that has selected or stamped at this step has written nothing at it.
LEMMA StillThen ==
    ASSUME CoordinationInv, NEW w \in Workers, Arrive(w) \/ Server(w),
           calls'[w] # Idle, calls'[w].step \in {"purge", "write"}
    PROVE  UNCHANGED <<messages, posts, now>>
<1>. USE DEF CoordinationInv
<1>1. calls[w] # Idle => calls[w] \in Call
  BY CallIs
<1>2. ASSUME PurgeDue(w)
      PROVE  FALSE
  <2>1. CASE End(w)
    BY <2>1 DEF End, CoordinationTypeOK
  <2>2. CASE calls' = [calls EXCEPT ![w].step = "look", ![w].due = {}, ![w].stale = {}]
    <3>. DEFINE x == [calls[w] EXCEPT !.step = "look", !.due = {}, !.stale = {}]
    <3>1. calls'[w] = x
      BY <2>2 DEF CoordinationTypeOK
    <3>2. calls[w] \in Call
      BY <1>1, <1>2, AtIs DEF PurgeDue
    <3>3. x.step = "look"
      BY <3>2 DEF Call
    <3>. QED  BY <3>1, <3>3
  <2>. QED  BY <1>2, <2>1, <2>2 DEF PurgeDue
<1>3. ASSUME AckWrite(w)
      PROVE  UNCHANGED messages
  <2>1. CASE ~Notified(w)
    BY <1>3, <2>1 DEF AckWrite
  <2>2. CASE Notified(w)
    <3>1. calls' = [calls EXCEPT ![w] = [calls[w] EXCEPT !.step = "record"]]
      BY <1>3, <2>2 DEF AckWrite, Goto
    <3>2. [calls[w] EXCEPT !.step = "record"].step = "record"
      BY <1>1, <1>3, AckIs DEF Call
    <3>. QED  BY <3>1, <3>2 DEF CoordinationTypeOK
  <2>. QED  BY <2>1, <2>2
<1>4. ASSUME AndReadback(w)
      PROVE  FALSE
  <2>1. calls'[w] = Readback(w)
    BY <1>4 DEF AndReadback, CoordinationTypeOK
  <2>2. Readback(w).step = "sweep"
    BY DEF Readback, Blank
  <2>. QED  BY <2>1, <2>2
<1>5. ~SendWrite(w) /\ ~PostWrite(w)
  BY <1>4 DEF SendWrite, PostWrite
<1>. QED  BY <1>2, <1>3, <1>5, Writers

\* Fewer creation times are awaited, but for a new one.
LEMMA GivenGrows ==
    ASSUME CoordinationInv, NEW w \in Workers, Arrive(w) \/ Server(w)
    PROVE  /\ Given \subseteq Given'
           /\ Awaited' \subseteq 1..stamps'
           /\ \A u, v \in Writing' : calls'[u].item = calls'[v].item => u = v
           /\ stamps' = stamps => w \notin Writing' /\ Writing' \subseteq Writing \ {w}
           /\ stamps' \in 0..MaxStamps
<1>. USE DEF CoordinationInv
<1>1. stamps' = stamps \/ (stamps < MaxStamps /\ stamps' = stamps + 1)
  BY Writers
<1>2. stamps \in 0..MaxStamps /\ MaxStamps \in Nat
  BY TablesAre
<1>3. w \in Writing' => calls'[w].item = stamps + 1 /\ stamps' = stamps + 1
  BY CallsStep DEF NewCall, Writing
<1>4. \A v \in Writing' \ {w} : v \in Writing /\ calls'[v] = calls[v] /\ calls'[v].item \in 1..stamps
  <2>1. \A v \in Writing' \ {w} : v \in Writing /\ calls'[v] = calls[v]
    BY CallsStep DEF Writing, Stamped
  <2>2. \A v \in Writing : calls[v].item \in 1..stamps
    BY DEF StampsAreFresh, Awaited
  <2>. QED  BY <2>1, <2>2
<1>5. \A u, v \in Writing : calls[u].item = calls[v].item => u = v
  BY DEF StampsAreFresh
<1>6. Awaited' = {calls'[v].item : v \in Writing'}
  BY DEF Awaited
<1>7. Awaited' \subseteq 1..stamps'
  BY <1>1, <1>2, <1>3, <1>4, <1>6
<1>8. \A u, v \in Writing' : calls'[u].item = calls'[v].item => u = v
  BY <1>2, <1>3, <1>4, <1>5
<1>9. ASSUME NEW g \in Given
      PROVE  g \in Given'
  <2>1. g \in 1..stamps /\ g \notin Awaited
    BY DEF Given
  <2>2. g \notin Awaited'
    <3>1. ASSUME NEW v \in Writing', g = calls'[v].item
          PROVE  FALSE
      <4>1. CASE v = w
        BY <1>2, <1>3, <2>1, <3>1, <4>1
      <4>2. CASE v # w
        BY <1>4, <2>1, <3>1, <4>2 DEF Awaited
      <4>. QED  BY <4>1, <4>2
    <3>. QED  BY <1>6, <3>1
  <2>3. g \in 1..stamps'
    BY <1>1, <1>2, <2>1
  <2>. QED  BY <2>2, <2>3 DEF Given
<1>10. stamps' = stamps => w \notin Writing' /\ Writing' \subseteq Writing \ {w}
  BY <1>2, <1>3, <1>4
<1>11. stamps' \in 0..MaxStamps
  BY <1>1, <1>2
<1>. QED  BY <1>7, <1>8, <1>9, <1>10, <1>11

\* What is written is given from then on.
LEMMA WrittenIsGiven ==
    ASSUME CoordinationInv, NEW w \in Workers, Arrive(w) \/ Server(w),
           w \in Writing, stamps' = stamps
    PROVE  calls[w].item \in Given'
<1>. USE DEF CoordinationInv
<1>1. calls[w].item \in 1..stamps
  BY DEF StampsAreFresh, Awaited
<1>2. ASSUME NEW v \in Writing', calls'[v].item = calls[w].item
      PROVE  FALSE
  <2>1. v \in Writing /\ v # w
    BY <1>2, GivenGrows
  <2>2. v \in Workers /\ calls'[v] = calls[v]
    BY <2>1, CallsStep DEF Writing
  <2>. QED  BY <1>2, <2>1, <2>2 DEF StampsAreFresh
<1>3. Awaited' = {calls'[v].item : v \in Writing'}
  BY DEF Awaited
<1>. QED  BY <1>1, <1>2, <1>3 DEF Given

LEMMA StampsStep ==
    ASSUME CoordinationInv, NEW w \in Workers, Arrive(w) \/ Server(w)
    PROVE  StampsAreFresh'
<1>. USE DEF CoordinationInv
<1>1. DOMAIN messages \cup DOMAIN posts \subseteq Given
  BY DEF StampsAreFresh
<1>2. DOMAIN messages' \subseteq Given'
  <2>1. CASE UNCHANGED messages
    BY <1>1, <2>1, GivenGrows
  <2>2. CASE PurgeDue(w)
    BY <1>1, <2>2, GivenGrows, PurgeIs
  <2>3. CASE AckWrite(w)
    BY <1>1, <2>3, GivenGrows, AckIs
  <2>4. CASE SendWrite(w)
    <3>1. w \in Writing /\ stamps' = stamps /\ DOMAIN messages' = DOMAIN messages \cup {calls[w].item}
      BY <2>4, SendIs
    <3>. QED  BY <1>1, <3>1, GivenGrows, WrittenIsGiven
  <2>. QED  BY <2>1, <2>2, <2>3, <2>4, Writers
<1>3. DOMAIN posts' \subseteq Given'
  <2>1. CASE UNCHANGED posts
    BY <1>1, <2>1, GivenGrows
  <2>2. CASE PurgeDue(w)
    BY <1>1, <2>2, GivenGrows, PurgeIs
  <2>3. CASE PostWrite(w)
    <3>1. w \in Writing /\ stamps' = stamps /\ DOMAIN posts' = DOMAIN posts \cup {calls[w].item}
      BY <2>3, PostIs
    <3>. QED  BY <1>1, <3>1, GivenGrows, WrittenIsGiven
  <2>. QED  BY <2>1, <2>2, <2>3, Writers
<1>4. ASSUME NEW v \in Workers, calls'[v] # Idle
      PROVE  calls'[v].due \cup calls'[v].stale \subseteq Given'
  <2>1. CASE v = w
    <3>1. calls'[v].due \subseteq DueMessages /\ calls'[v].stale \subseteq DuePosts
      BY <1>4, <2>1, CallsStep DEF NewCall
    <3>. QED  BY <1>1, <3>1, GivenGrows, TablesAre
  <2>2. CASE v # w
    <3>1. calls'[v] = calls[v]
      BY <2>2, CallsStep
    <3>. QED  BY <1>4, <3>1, GivenGrows DEF StampsAreFresh
  <2>. QED  BY <2>1, <2>2
<1>5. ASSUME walk' # None
      PROVE  walk'.must \cup ({walk'.cursor} \ {None}) \subseteq Given'
  <2>1. CASE UNCHANGED walk
    BY <1>5, <2>1, GivenGrows DEF StampsAreFresh
  <2>2. CASE Page(w)
    <3>1. walk \in Walk /\ walk'.must = walk.must /\ walk'.cursor \in {walk.cursor, None} \cup DOMAIN messages
      BY <2>2, PageIs DEF Unread
    <3>2. walk # None
      BY <3>1, NoneIsNoWalk
    <3>. QED  BY <1>1, <3>1, <3>2, GivenGrows DEF StampsAreFresh
  <2>3. CASE AckWrite(w)
    <3>1. walk # None
      BY <1>5, <2>3, AckIs
    <3>2. walk \in Walk
      BY <3>1 DEF CoordinationTypeOK
    <3>3. walk' = walk \/ walk' = [walk EXCEPT !.must = @ \ {calls[w].item}]
      BY <2>3, AckIs
    <3>4. walk'.must \subseteq walk.must /\ walk'.cursor = walk.cursor
      BY <3>2, <3>3 DEF Walk
    <3>. QED  BY <3>1, <3>4, GivenGrows DEF StampsAreFresh
  <2>4. CASE \E a \in agents : BeginPage(w, a)
    <3>1. PICK a \in agents : BeginPage(w, a)
      BY <2>4
    <3>2. CASE walk' = [agent |-> a, cursor |-> None, must |-> Unread(a), got |-> {}, ended |-> FALSE]
      BY <1>1, <3>2, GivenGrows DEF Unread
    <3>3. CASE walk # None /\ UNCHANGED walk
      BY <2>1, <3>3
    <3>. QED  BY <3>1, <3>2, <3>3 DEF BeginPage
  <2>. QED  BY <2>1, <2>2, <2>3, <2>4, Writers
<1>. QED  BY <1>2, <1>3, <1>4, <1>5, GivenGrows DEF StampsAreFresh

\* The tables keep their types.
LEMMA MessagesTyped ==
    ASSUME CoordinationInv, NEW w \in Workers, Arrive(w) \/ Server(w)
    PROVE  /\ DOMAIN messages' \subseteq 1..MaxStamps
           /\ \A m \in DOMAIN messages' : messages'[m] \in Message
           /\ receipts' \in SUBSET Receipt
           /\ NotesAreSound'
<1>. USE DEF CoordinationInv
<1>1. /\ DOMAIN messages \subseteq 1..MaxStamps /\ \A m \in DOMAIN messages : messages[m] \in Message
      /\ receipts \in SUBSET Receipt
  BY DEF CoordinationTypeOK
<1>2. \A m \in DOMAIN messages :
         /\ DOMAIN messages[m].notes # {}
         /\ \A a \in DOMAIN messages[m].notes :
               messages[m].notes[a].status # "unread" => messages[m].notes[a].readAt \in Times
  BY DEF NotesAreSound
<1>3. NotesAreSound' <=> \A m \in DOMAIN messages' :
         /\ DOMAIN messages'[m].notes # {}
         /\ \A a \in DOMAIN messages'[m].notes :
               messages'[m].notes[a].status # "unread" => messages'[m].notes[a].readAt \in Times
  BY DEF NotesAreSound
<1>4. CASE UNCHANGED <<messages, receipts>>
  BY <1>1, <1>2, <1>3, <1>4
<1>5. CASE PurgeDue(w)
  <2>1. /\ DOMAIN messages' \subseteq DOMAIN messages
        /\ \A m \in DOMAIN messages' : messages'[m] = messages[m]
        /\ receipts' \subseteq receipts
    BY <1>5, PurgeIs
  <2>. QED  BY <1>1, <1>2, <1>3, <2>1
<1>6. CASE AckWrite(w)
  <2>. DEFINE c == calls[w]
              seen == [status |-> c.status, readAt |-> c.at]
              notes == [messages[c.item].notes EXCEPT ![c.of] = seen]
  <2>1. CASE UNCHANGED <<messages, receipts>>
    BY <1>4, <2>1
  <2>2. CASE ~UNCHANGED <<messages, receipts>>
    <3>1. /\ c.item \in DOMAIN messages /\ c.of \in DOMAIN messages[c.item].notes
          /\ DOMAIN messages' = DOMAIN messages
          /\ \A m \in DOMAIN messages : m # c.item => messages'[m] = messages[m]
          /\ messages'[c.item] = [messages[c.item] EXCEPT !.notes = notes]
          /\ receipts' = receipts \cup {[message |-> c.item, target |-> c.of,
                                         consumer |-> c.agent, status |-> c.status]}
          /\ c \in Call /\ c.of = c.agent /\ c.item \in 1..MaxStamps /\ c.of \in Agents
          /\ c.status \in Statuses
      BY <1>6, <2>2, AckIs
    <3>2. seen \in Note /\ c.at \in Times
      BY <3>1 DEF Note, Call
    <3>3. messages[c.item].notes \in Partial(Agents, Note)
      BY <1>1, <3>1 DEF Message
    <3>4. DOMAIN messages[c.item].notes \subseteq Agents /\ messages[c.item].notes \in [DOMAIN messages[c.item].notes -> Note]
      BY <3>3, PartialIs
    <3>5. notes \in [DOMAIN messages[c.item].notes -> Note] /\ DOMAIN notes = DOMAIN messages[c.item].notes
      BY <3>1, <3>2, <3>4
    <3>6. notes \in Partial(Agents, Note)
      <4>. HIDE DEF notes
      <4>. QED  BY <3>4, <3>5, PartialIs
    <3>7. /\ DOMAIN notes # {}
          /\ \A a \in DOMAIN notes : notes[a].status # "unread" => notes[a].readAt \in Times
      BY <1>2, <3>1, <3>2, <3>4
    <3>. HIDE DEF notes
    <3>8. messages'[c.item] \in Message /\ messages'[c.item].notes = notes
      BY <1>1, <3>1, <3>6 DEF Message
    <3>9. [message |-> c.item, target |-> c.of, consumer |-> c.agent, status |-> c.status] \in Receipt
      BY <3>1 DEF Receipt
    <3>10. NotesAreSound'
      BY <1>2, <1>3, <3>1, <3>7, <3>8
    <3>. QED  BY <1>1, <3>1, <3>8, <3>9, <3>10
  <2>. QED  BY <2>1, <2>2
<1>7. CASE SendWrite(w)
  <2>. DEFINE c == calls[w]
              unread == [status |-> "unread", readAt |-> None]
              notes == [a \in c.to |-> unread]
              row == [sender |-> c.agent, at |-> c.at, required |-> c.required, notes |-> notes]
  <2>1. /\ c \in Call /\ c.item \in 1..MaxStamps /\ c.agent \in Agents /\ c.to # {}
        /\ DOMAIN messages' = DOMAIN messages \cup {c.item} /\ messages'[c.item] = row
        /\ \A m \in DOMAIN messages : messages'[m] = messages[m]
        /\ receipts' = receipts
    BY <1>7, SendIs
  <2>2. unread \in Note
    BY DEF Note
  <2>3. c.to \subseteq Agents /\ c.at \in Times /\ c.required \in BOOLEAN
    BY <2>1 DEF Call
  <2>4. notes \in Partial(Agents, Note)
    <3>1. notes \in [c.to -> Note] /\ DOMAIN notes = c.to
      BY <2>2
    <3>. HIDE DEF notes
    <3>. QED  BY <2>3, <3>1, PartialIs
  <2>5. DOMAIN notes # {} /\ \A a \in DOMAIN notes : notes[a].status = "unread"
    BY <2>1
  <2>. HIDE DEF notes
  <2>6. row \in Message /\ row.notes = notes
    BY <2>1, <2>3, <2>4 DEF Message
  <2>. HIDE DEF row
  <2>7. NotesAreSound'
    BY <1>2, <1>3, <2>1, <2>5, <2>6
  <2>. QED  BY <1>1, <2>1, <2>6, <2>7
<1>. QED  BY <1>4, <1>5, <1>6, <1>7, Writers

LEMMA RoomsTyped ==
    ASSUME CoordinationInv, NEW w \in Workers, Arrive(w) \/ Server(w)
    PROVE  /\ rooms' \in SUBSET Rooms
           /\ DOMAIN posts' \subseteq 1..MaxStamps
           /\ \A p \in DOMAIN posts' : posts'[p] \in Post
           /\ reads' \in [Agents -> [Rooms -> (1..MaxStamps) \cup {None}]]
           /\ covered' \in [Agents -> SUBSET (1..MaxStamps)]
           /\ stored' \in SUBSET Ack /\ pending' \in SUBSET Ack
           /\ walk' \in Walk \cup {None}
<1>. USE DEF CoordinationInv
<1>1. rooms' \in SUBSET Rooms
  <2>1. PurgeDue(w) => rooms' \subseteq rooms \cup Defaults
    BY DEF PurgeDue
  <2>2. EnsureDefaults(w) => rooms' \subseteq rooms \cup calls[w].missing /\ calls[w] \in Call
    BY AtIs DEF EnsureDefaults
  <2>3. OpenWrite(w) => rooms' \subseteq rooms \cup calls[w].missing /\ calls[w] \in Call
    BY AtIs DEF OpenWrite
  <2>4. calls[w] \in Call => calls[w].missing \subseteq Rooms
    BY DEF Call
  <2>5. rooms \subseteq Rooms /\ Defaults \subseteq Rooms
    BY CoordinationAssumption DEF CoordinationTypeOK
  <2>. QED  BY <2>1, <2>2, <2>3, <2>4, <2>5, Writers
<1>2. DOMAIN posts' \subseteq 1..MaxStamps /\ \A p \in DOMAIN posts' : posts'[p] \in Post
  <2>1. DOMAIN posts \subseteq 1..MaxStamps /\ \A p \in DOMAIN posts : posts[p] \in Post
    BY DEF CoordinationTypeOK
  <2>2. CASE PurgeDue(w)
    BY <2>1, <2>2, PurgeIs
  <2>3. CASE PostWrite(w)
    <3>. DEFINE c == calls[w]
                row == [room |-> c.room, at |-> c.at, routed |-> c.op = "route"]
    <3>1. /\ c \in Call /\ c.item \in 1..MaxStamps /\ c.room \in Rooms
          /\ DOMAIN posts' = DOMAIN posts \cup {c.item} /\ posts'[c.item] = row
          /\ \A p \in DOMAIN posts : posts'[p] = posts[p]
      BY <2>3, PostIs
    <3>2. c.at \in Times /\ (c.op = "route") \in BOOLEAN
      BY <3>1 DEF Call
    <3>3. row \in Post
      BY <3>1, <3>2 DEF Post
    <3>. QED  BY <2>1, <3>1, <3>3
  <2>. QED  BY <2>1, <2>2, <2>3, Writers
<1>3. reads' \in [Agents -> [Rooms -> (1..MaxStamps) \cup {None}]]
  <2>1. reads \in [Agents -> [Rooms -> (1..MaxStamps) \cup {None}]]
    BY DEF CoordinationTypeOK
  <2>2. CASE PurgeDue(w)
    <3>1. reads' = [a \in Agents |-> [r \in Rooms |->
                      IF reads[a][r] \in calls[w].stale THEN None ELSE reads[a][r]]]
      BY <2>2 DEF PurgeDue
    <3>. QED  BY <2>1, <3>1
  <2>3. CASE MarkWrite(w)
    <3>1. /\ calls[w] \in Call /\ calls[w].agent \in Agents /\ calls[w].room \in Rooms
          /\ reads' = [reads EXCEPT ![calls[w].agent][calls[w].room] =
                          IF calls[w].item = 0 THEN None ELSE calls[w].item]
      BY <2>3, MarkIs
    <3>2. calls[w].item \in 0..MaxStamps /\ MaxStamps \in Nat
      BY <3>1, TablesAre DEF Call
    <3>3. (IF calls[w].item = 0 THEN None ELSE calls[w].item) \in (1..MaxStamps) \cup {None}
      BY <3>2
    <3>. QED  BY <2>1, <3>1, <3>3
  <2>. QED  BY <2>1, <2>2, <2>3, Writers
<1>4. covered' \in [Agents -> SUBSET (1..MaxStamps)]
  <2>1. covered \in [Agents -> SUBSET (1..MaxStamps)]
    BY DEF CoordinationTypeOK
  <2>2. CASE MarkWrite(w)
    <3>1. /\ calls[w] \in Call /\ calls[w].agent \in Agents
          /\ covered' = [covered EXCEPT ![calls[w].agent] =
                            @ \cup {p \in calls[w].rows : p <= calls[w].item}]
      BY <2>2, MarkIs
    <3>2. calls[w].rows \subseteq 1..MaxStamps
      BY <3>1 DEF Call
    <3>. QED  BY <2>1, <3>1, <3>2
  <2>. QED  BY <2>1, <2>2, Writers
<1>5. stored' \in SUBSET Ack /\ pending' \in SUBSET Ack
  <2>1. stored \in SUBSET Ack /\ pending \in SUBSET Ack
    BY DEF CoordinationTypeOK
  <2>2. CASE Claim(w) \/ AckRead(w) \/ Record(w)
    <3>1. calls[w] \in Call /\ CallIsSound(calls[w]) /\ calls[w].op = "ack"
      BY <2>2, AtIs DEF Claim, AckRead, Record, CallIsSound
    <3>2. Body(calls[w]) \in Ack
      BY <3>1 DEF CallIsSound, Body, Ack
    <3>. QED  BY <2>1, <2>2, <3>2 DEF Claim, AckRead, Record
  <2>. QED  BY <2>1, <2>2, Writers
<1>6. walk' \in Walk \cup {None}
  <2>1. walk \in Walk \cup {None}
    BY DEF CoordinationTypeOK
  <2>2. CASE \E a \in agents : BeginPage(w, a)
    <3>1. PICK a \in agents : BeginPage(w, a)
      BY <2>2
    <3>2. a \in Agents /\ Unread(a) \subseteq 1..MaxStamps
      BY TablesAre DEF CoordinationTypeOK, Unread
    <3>3. [agent |-> a, cursor |-> None, must |-> Unread(a), got |-> {}, ended |-> FALSE] \in Walk
      BY <3>2 DEF Walk
    <3>. QED  BY <2>1, <3>1, <3>3 DEF BeginPage
  <2>3. CASE AckWrite(w)
    <3>1. walk' \in {walk, IF walk # None THEN [walk EXCEPT !.must = @ \ {calls[w].item}] ELSE walk}
      BY <2>3, AckIs
    <3>2. walk # None => [walk EXCEPT !.must = @ \ {calls[w].item}] \in Walk
      BY <2>1 DEF Walk
    <3>. QED  BY <2>1, <3>1, <3>2
  <2>. QED  BY <2>1, <2>2, <2>3, PageIs, Writers
<1>. QED  BY <1>1, <1>2, <1>3, <1>4, <1>5, <1>6

LEMMA InboxTypeStep ==
    ASSUME CoordinationInv, NEW w \in Workers, Arrive(w) \/ Server(w)
    PROVE  CoordinationTypeOK'
<1>1. /\ oneProcess' \in BOOLEAN /\ lane' \in Lanes /\ now' \in Times /\ agents' \in SUBSET Agents
      /\ lane' = lane
  BY Writers DEF CoordinationInv, CoordinationTypeOK
<1>2. begun' \in 0..lane'.calls
  BY <1>1, Writers, TablesAre DEF CoordinationInv, CoordinationTypeOK
<1>. QED
  BY <1>1, <1>2, MessagesTyped, RoomsTyped, CallsStep, GivenGrows DEF CoordinationTypeOK

\* A receipt keeps its notification, and what was read its receipt.
LEMMA ReceiptsStep ==
    ASSUME CoordinationInv, NEW w \in Workers, Arrive(w) \/ Server(w)
    PROVE  ReceiptsAreTrue'
<1>. USE DEF CoordinationInv
<1>1. /\ \A x \in receipts : /\ x.consumer = x.target /\ x.message \in DOMAIN messages
                             /\ x.target \in DOMAIN messages[x.message].notes
      /\ \A m \in DOMAIN messages : \A a \in DOMAIN messages[m].notes :
           messages[m].notes[a].status # "unread" =>
             \E x \in receipts : x.message = m /\ x.target = a
                                 /\ x.status = messages[m].notes[a].status
  BY DEF ReceiptsAreTrue
<1>2. CASE UNCHANGED <<messages, receipts>>
  BY <1>1, <1>2 DEF ReceiptsAreTrue
<1>3. CASE PurgeDue(w)
  <2>1. /\ DOMAIN messages' = DOMAIN messages \ calls[w].due
        /\ \A m \in DOMAIN messages' : messages'[m] = messages[m]
        /\ receipts' = {x \in receipts : x.message \notin calls[w].due}
    BY <1>3, PurgeIs
  <2>. QED  BY <1>1, <2>1 DEF ReceiptsAreTrue
<1>4. CASE AckWrite(w)
  <2>. DEFINE c == calls[w]
              seen == [status |-> c.status, readAt |-> c.at]
              notes == [messages[c.item].notes EXCEPT ![c.of] = seen]
              receipt == [message |-> c.item, target |-> c.of, consumer |-> c.agent,
                          status |-> c.status]
  <2>1. CASE UNCHANGED <<messages, receipts>>
    BY <1>2, <2>1
  <2>2. CASE ~UNCHANGED <<messages, receipts>>
    <3>1. /\ c.item \in DOMAIN messages /\ c.of \in DOMAIN messages[c.item].notes
          /\ DOMAIN messages' = DOMAIN messages
          /\ \A m \in DOMAIN messages : m # c.item => messages'[m] = messages[m]
          /\ messages'[c.item] = [messages[c.item] EXCEPT !.notes = notes]
          /\ receipts' = receipts \cup {receipt}
          /\ c.of = c.agent
      BY <1>4, <2>2, AckIs
    <3>2. /\ DOMAIN notes = DOMAIN messages[c.item].notes
          /\ notes[c.of].status = c.status
          /\ \A a \in DOMAIN notes : a # c.of => notes[a] = messages[c.item].notes[a]
      BY <3>1
    <3>3. messages'[c.item].notes = notes
      <4>1. messages[c.item] \in Message
        BY <3>1 DEF CoordinationTypeOK
      <4>. HIDE DEF notes
      <4>. QED  BY <3>1, <4>1 DEF Message
    <3>4. /\ receipt.message = c.item /\ receipt.target = c.of /\ receipt.consumer = c.of
          /\ receipt.status = c.status
      BY <3>1
    <3>. HIDE DEF notes, receipt
    <3>5. ASSUME NEW x \in receipts'
          PROVE  /\ x.consumer = x.target /\ x.message \in DOMAIN messages'
                 /\ x.target \in DOMAIN messages'[x.message].notes
      <4>1. CASE x = receipt
        BY <3>1, <3>2, <3>3, <3>4, <4>1
      <4>2. CASE x \in receipts /\ x.message = c.item
        BY <1>1, <3>1, <3>2, <3>3, <4>2
      <4>3. CASE x \in receipts /\ x.message # c.item
        <5>1. /\ x.consumer = x.target /\ x.message \in DOMAIN messages
              /\ x.target \in DOMAIN messages[x.message].notes
          BY <1>1, <4>3
        <5>2. messages'[x.message] = messages[x.message]
          BY <3>1, <4>3, <5>1
        <5>. QED  BY <3>1, <5>1, <5>2
      <4>. QED  BY <3>1, <4>1, <4>2, <4>3
    <3>6. ASSUME NEW m \in DOMAIN messages', NEW a \in DOMAIN messages'[m].notes,
                 messages'[m].notes[a].status # "unread"
          PROVE  \E x \in receipts' : x.message = m /\ x.target = a
                                      /\ x.status = messages'[m].notes[a].status
      <4>1. CASE m = c.item /\ a = c.of
        BY <3>1, <3>2, <3>3, <3>4, <4>1
      <4>2. CASE m = c.item /\ a # c.of
        <5>1. a \in DOMAIN messages[c.item].notes /\ messages'[m].notes[a] = messages[c.item].notes[a]
          BY <3>2, <3>3, <3>6, <4>2
        <5>2. PICK x \in receipts : x.message = c.item /\ x.target = a
                                   /\ x.status = messages[c.item].notes[a].status
          BY <1>1, <3>1, <3>6, <5>1
        <5>. QED  BY <3>1, <4>2, <5>1, <5>2
      <4>3. CASE m # c.item
        BY <1>1, <3>1, <3>6, <4>3
      <4>. QED  BY <4>1, <4>2, <4>3
    <3>. QED  BY <3>5, <3>6 DEF ReceiptsAreTrue
  <2>. QED  BY <2>1, <2>2
<1>5. CASE SendWrite(w)
  <2>. DEFINE c == calls[w]
  <2>1. /\ c.item \notin DOMAIN messages
        /\ DOMAIN messages' = DOMAIN messages \cup {c.item}
        /\ \A m \in DOMAIN messages : messages'[m] = messages[m]
        /\ messages'[c.item] = [sender |-> c.agent, at |-> c.at, required |-> c.required,
                                notes |-> [a \in c.to |-> [status |-> "unread", readAt |-> None]]]
        /\ receipts' = receipts
    BY <1>5, SendIs
  <2>2. \A a \in DOMAIN messages'[c.item].notes : messages'[c.item].notes[a].status = "unread"
    BY <2>1
  <2>. QED  BY <1>1, <2>1, <2>2 DEF ReceiptsAreTrue
<1>. QED  BY <1>2, <1>3, <1>4, <1>5, Writers

\* What is due stays due while the clock goes on.
LEMMA DueStays ==
    ASSUME CoordinationInv, now' \in Nat, now' >= now
    PROVE  /\ UNCHANGED messages => DueMessages \subseteq DueMessages'
           /\ \A p \in DuePosts : p \in DOMAIN posts' /\ posts'[p] = posts[p] => p \in DuePosts'
<1>. USE DEF CoordinationInv
<1>1. now \in Nat /\ {AckedFor, UnackedFor, MeetingFor, Horizon} \subseteq Nat
  BY TablesAre, CoordinationAssumption
<1>2. ASSUME UNCHANGED messages, NEW m \in DueMessages
      PROVE  m \in DueMessages'
  <2>1. m \in DOMAIN messages /\ messages[m] \in Message
    BY <1>2 DEF CoordinationTypeOK, DueMessages
  <2>2. CASE Acknowledged(m)
    <3>. DEFINE S == {messages[m].notes[a].readAt : a \in DOMAIN messages[m].notes}
    <3>1. S \subseteq 0..Horizon /\ S # {}
      BY <2>1, <2>2 DEF Acknowledged, NotesAreSound, Times
    <3>2. LastRead(m) \in Nat
      <4>1. Max(S) \in S
        <5>. HIDE DEF S
        <5>. QED  BY <1>1, <3>1, MaxIs
      <4>2. Max(S) \in Nat
        BY <1>1, <3>1, <4>1
      <4>. QED  BY <4>2 DEF LastRead
    <3>3. now - LastRead(m) > AckedFor
      BY <1>2, <2>2 DEF DueMessages
    <3>4. now' - LastRead(m) > AckedFor
      BY <1>1, <3>2, <3>3
    <3>5. Acknowledged(m)' /\ LastRead(m)' = LastRead(m)
      BY <1>2, <2>2 DEF Acknowledged, LastRead
    <3>. QED  BY <1>2, <2>1, <3>4, <3>5 DEF DueMessages
  <2>3. CASE ~Acknowledged(m)
    <3>1. messages[m].at \in Nat /\ now - messages[m].at > UnackedFor
      BY <1>1, <1>2, <2>1, <2>3 DEF DueMessages, Message, Times
    <3>2. now' - messages[m].at > UnackedFor
      BY <1>1, <3>1
    <3>3. ~Acknowledged(m)'
      BY <1>2, <2>3 DEF Acknowledged
    <3>. QED  BY <1>2, <2>1, <3>2, <3>3 DEF DueMessages
  <2>. QED  BY <2>2, <2>3
<1>3. ASSUME NEW p \in DuePosts, p \in DOMAIN posts', posts'[p] = posts[p]
      PROVE  p \in DuePosts'
  <2>1. p \in DOMAIN posts /\ ~posts[p].routed /\ now - posts[p].at > MeetingFor
    BY DEF DuePosts
  <2>2. posts[p].at \in Nat
    BY <1>1, <2>1 DEF CoordinationTypeOK, Post, Times
  <2>3. now' - posts[p].at > MeetingFor
    BY <1>1, <2>1, <2>2
  <2>. QED  BY <1>3, <2>1, <2>3 DEF DuePosts
<1>. QED  BY <1>2, <1>3

LEMMA StaleStep ==
    ASSUME CoordinationInv, NEW w \in Workers, Arrive(w) \/ Server(w)
    PROVE  StaleIsDue'
<1>. USE DEF CoordinationInv
<1>1. now' = now /\ now \in Nat
  BY Writers, TablesAre
<1>2. \A p \in DOMAIN posts' : p \in Given => p \in DOMAIN posts /\ posts'[p] = posts[p]
  <2>1. CASE PostWrite(w)
    BY <2>1, PostIs DEF Given
  <2>. QED  BY <2>1, Writers, PurgeIs
<1>3. \A p \in DuePosts \cap DOMAIN posts' : p \in DuePosts'
  <2>1. DuePosts \subseteq Given
    BY TablesAre DEF StampsAreFresh
  <2>. QED  BY <1>1, <1>2, <2>1, DueStays
<1>4. ASSUME NEW v \in Workers, calls'[v] # Idle
      PROVE  calls'[v].stale \cap DOMAIN posts' \subseteq DuePosts'
  <2>1. CASE v = w
    BY <1>3, <1>4, <2>1, CallsStep DEF NewCall
  <2>2. CASE v # w
    <3>1. calls'[v] = calls[v]
      BY <2>2, CallsStep
    <3>2. calls[v].stale \cap DOMAIN posts \subseteq DuePosts /\ calls[v].stale \subseteq Given
      BY <1>4, <3>1 DEF StaleIsDue, StampsAreFresh
    <3>. QED  BY <1>2, <1>3, <3>1, <3>2
  <2>. QED  BY <2>1, <2>2
<1>. QED  BY <1>4 DEF StaleIsDue

LEMMA InsideStep ==
    ASSUME CoordinationInv, NEW w \in Workers, Arrive(w) \/ Server(w)
    PROVE  InsideIsAlone'
<1>. USE DEF CoordinationInv
<1>. SUFFICES ASSUME oneProcess'
              PROVE  /\ \A u, v \in Workers : Inside(u)' /\ Inside(v)' => u = v
                     /\ \A v \in Workers : calls'[v] # Idle =>
                           /\ calls'[v].due \subseteq DueMessages'
                           /\ MarkIsPresent(calls[v])'
                           /\ Stamped(calls'[v]) => calls'[v].item = stamps'
  BY DEF InsideIsAlone, Stamped
<1>1. oneProcess /\ May(w) /\ \A v \in Workers \ {w} : calls'[v] = calls[v] /\ ~Inside(v)
  BY Writers, CallsStep DEF May
<1>2. \A v \in Workers \ {w} : ~Inside(v)'
  BY <1>1 DEF Inside
<1>3. ASSUME NEW v \in Workers \ {w}, calls'[v] # Idle
      PROVE  /\ calls'[v].due \subseteq DueMessages'
             /\ MarkIsPresent(calls[v])'
             /\ Stamped(calls'[v]) => calls'[v].item = stamps'
  <2>1. calls'[v].step # "write" /\ calls'[v].step # "purge"
    BY <1>1, <1>3 DEF Inside
  <2>2. calls'[v].due = {}
    BY <1>3, <2>1, CallsStep DEF CallsAreSound, CallIsSound
  <2>. QED  BY <2>1, <2>2 DEF MarkIsPresent, Stamped
<1>4. ASSUME calls'[w] # Idle
      PROVE  /\ calls'[w].due \subseteq DueMessages'
             /\ MarkIsPresent(calls[w])'
             /\ Stamped(calls'[w]) => calls'[w].item = stamps'
  <2>. DEFINE x == calls'[w]
  <2>1. /\ CallIsSound(x) /\ x.due \subseteq DueMessages /\ MarkIsPresent(x)
        /\ Stamped(x) => x.item = stamps'
    BY <1>4, CallsStep DEF NewCall
  <2>2. CASE x.step \in {"purge", "write"}
    <3>1. UNCHANGED <<messages, posts, now>>
      BY <1>4, <2>2, StillThen
    <3>2. DueMessages' = DueMessages
      BY <3>1 DEF DueMessages, Acknowledged, LastRead
    <3>3. MarkIsPresent(calls[w])'
      BY <2>1, <3>1 DEF MarkIsPresent, InRoom
    <3>. QED  BY <2>1, <3>2, <3>3
  <2>3. CASE x.step \notin {"purge", "write"}
    BY <2>1, <2>3 DEF CallIsSound, MarkIsPresent, Stamped
  <2>. QED  BY <2>2, <2>3
<1>. QED  BY <1>2, <1>3, <1>4

LEMMA CursorsStep ==
    ASSUME CoordinationInv, NEW w \in Workers, Arrive(w) \/ Server(w)
    PROVE  CursorsAreSound'
<1>. USE DEF CoordinationInv
<1>. SUFFICES ASSUME oneProcess', NEW a \in Agents, NEW r \in Rooms, reads'[a][r] # None
              PROVE  /\ reads'[a][r] \in InRoom(r)'
                     /\ \A p \in InRoom(r)' \ covered'[a] : p > reads'[a][r]
  BY DEF CursorsAreSound
<1>1. /\ oneProcess
      /\ reads[a][r] # None => /\ reads[a][r] \in InRoom(r)
                               /\ \A p \in InRoom(r) \ covered[a] : p > reads[a][r]
  BY Writers DEF CursorsAreSound
<1>2. reads \in [Agents -> [Rooms -> (1..MaxStamps) \cup {None}]] /\ covered \in [Agents -> SUBSET (1..MaxStamps)]
  BY DEF CoordinationTypeOK
<1>3. CASE UNCHANGED <<posts, reads, covered>>
  BY <1>1, <1>3 DEF InRoom
<1>4. CASE PurgeDue(w)
  <2>1. DOMAIN posts' = DOMAIN posts \ calls[w].stale /\ \A p \in DOMAIN posts' : posts'[p] = posts[p]
    BY <1>4, PurgeIs
  <2>2. reads'[a][r] = IF reads[a][r] \in calls[w].stale THEN None ELSE reads[a][r]
    BY <1>4 DEF PurgeDue
  <2>3. covered' = covered
    BY <1>4 DEF PurgeDue
  <2>4. InRoom(r)' = InRoom(r) \ calls[w].stale
    BY <2>1 DEF InRoom
  <2>. QED  BY <1>1, <2>2, <2>3, <2>4
<1>5. CASE PostWrite(w)
  <2>. DEFINE c == calls[w]
  <2>1. /\ Stamped(c) /\ c # Idle /\ c.item \in Awaited
        /\ DOMAIN posts' = DOMAIN posts \cup {c.item}
        /\ \A p \in DOMAIN posts : posts'[p] = posts[p]
        /\ UNCHANGED <<reads, covered>>
    BY <1>5, PostIs
  <2>2. c.item = stamps
    BY <1>1, <2>1 DEF InsideIsAlone
  <2>3. \A p \in DOMAIN posts : p \in Nat /\ p < stamps
    BY <2>1, <2>2, TablesAre DEF StampsAreFresh, Given
  <2>4. InRoom(r) \subseteq InRoom(r)' /\ InRoom(r)' \subseteq InRoom(r) \cup {c.item}
    BY <2>1 DEF InRoom
  <2>5. reads[a][r] \in InRoom(r) /\ reads[a][r] \in DOMAIN posts
    BY <1>1, <2>1 DEF InRoom
  <2>. HIDE DEF c
  <2>6. c.item > reads[a][r]
    BY <2>2, <2>3, <2>5, TablesAre
  <2>. QED  BY <1>1, <2>1, <2>4, <2>5, <2>6
<1>6. CASE MarkWrite(w)
  <2>. DEFINE c == calls[w]
  <2>1. /\ c # Idle /\ c \in Call /\ c.op = "mark" /\ c.step = "write"
        /\ c.agent \in Agents /\ c.room \in Rooms
        /\ reads' = [reads EXCEPT ![c.agent][c.room] = IF c.item = 0 THEN None ELSE c.item]
        /\ covered' = [covered EXCEPT ![c.agent] = @ \cup {p \in c.rows : p <= c.item}]
        /\ InRoom(r)' = InRoom(r)
    BY <1>6, MarkIs DEF InRoom
  <2>2. c.rows = InRoom(c.room) /\ c.item \in {0} \cup InRoom(c.room)
    BY <1>1, <2>1 DEF InsideIsAlone, MarkIsPresent
  <2>3. InRoom(r) \subseteq 1..MaxStamps
    BY TablesAre DEF InRoom
  <2>. HIDE DEF c
  <2>4. covered[a] \subseteq covered'[a]
    BY <1>2, <2>1
  <2>5. CASE a = c.agent /\ r = c.room
    <3>1. reads'[a][r] = IF c.item = 0 THEN None ELSE c.item
      BY <1>2, <2>1, <2>5
    <3>2. c.item # 0 /\ reads'[a][r] = c.item /\ c.item \in InRoom(r)
      BY <2>2, <2>5, <3>1
    <3>3. {p \in InRoom(r) : p <= c.item} \subseteq covered'[a]
      BY <1>2, <2>1, <2>2, <2>5
    <3>. QED  BY <2>1, <2>3, <3>2, <3>3
  <2>6. CASE ~(a = c.agent /\ r = c.room)
    <3>1. reads'[a][r] = reads[a][r]
      BY <1>2, <2>1, <2>6
    <3>. QED  BY <1>1, <2>1, <2>4, <3>1
  <2>. QED  BY <2>5, <2>6
<1>. QED
  <2>1. UNCHANGED <<reads, covered>> \/ PurgeDue(w) \/ MarkWrite(w)
    BY Writers DEF PurgeDue, MarkWrite
  <2>2. UNCHANGED posts \/ PurgeDue(w) \/ PostWrite(w)
    BY Writers
  <2>. QED  BY <1>3, <1>4, <1>5, <1>6, <2>1, <2>2

\* A message given before a step is there after it only if it was before it.
LEMMA GivenKeeps ==
    ASSUME CoordinationInv, NEW w \in Workers, Arrive(w) \/ Server(w),
           NEW m \in Given, m \in DOMAIN messages'
    PROVE  /\ m \in DOMAIN messages
           /\ messages'[m].required = messages[m].required
           /\ ~AckWrite(w) => messages'[m] = messages[m]
<1>. USE DEF CoordinationInv
<1>1. CASE AckWrite(w)
  <2>. DEFINE notes == [messages[calls[w].item].notes EXCEPT
                          ![calls[w].of] = [status |-> calls[w].status, readAt |-> calls[w].at]]
  <2>1. CASE UNCHANGED messages
    BY <1>1, <2>1
  <2>2. CASE ~UNCHANGED messages
    <3>1. /\ DOMAIN messages' = DOMAIN messages /\ calls[w].item \in DOMAIN messages
          /\ \A n \in DOMAIN messages : n # calls[w].item => messages'[n] = messages[n]
          /\ messages'[calls[w].item] = [messages[calls[w].item] EXCEPT !.notes = notes]
      BY <1>1, <2>2, AckIs
    <3>2. messages[calls[w].item] \in Message
      BY <3>1 DEF CoordinationTypeOK
    <3>. HIDE DEF notes
    <3>3. messages'[calls[w].item].required = messages[calls[w].item].required
      BY <3>1, <3>2 DEF Message
    <3>. QED  BY <1>1, <3>1, <3>3
  <2>. QED  BY <2>1, <2>2
<1>2. CASE SendWrite(w)
  BY <1>2, SendIs DEF Given
<1>. QED  BY <1>1, <1>2, PurgeIs, Writers

\* A walk that no acknowledgement and no page moves.
LEMMA WalkRests ==
    ASSUME CoordinationInv, NEW w \in Workers, Arrive(w) \/ Server(w),
           walk # None, UNCHANGED walk, ~AckWrite(w)
    PROVE  FollowsInbox(walk)'
<1>. USE DEF CoordinationInv
<1>1. walk.must \subseteq Given /\ (walk.cursor # None => walk.cursor \in Given)
  BY DEF StampsAreFresh
<1>2. FollowsInbox(walk)
  BY DEF WalkIsSound
<1>3. \A m \in walk.must : m \in DOMAIN messages' => m \in DOMAIN messages /\ messages'[m] = messages[m]
  BY <1>1, GivenKeeps
<1>4. walk.cursor # None /\ walk.cursor \in DOMAIN messages' =>
         walk.cursor \in DOMAIN messages /\ messages'[walk.cursor] = messages[walk.cursor]
  BY <1>1, GivenKeeps
<1>5. ASSUME NEW m \in walk'.must \cap DOMAIN messages'
      PROVE  /\ m \in Unread(walk.agent)'
             /\ walk'.ended => m \in walk'.got
  <2>1. m \in walk.must \cap DOMAIN messages /\ messages'[m] = messages[m]
    BY <1>3, <1>5
  <2>2. m \in Unread(walk.agent) /\ (walk.ended => m \in walk.got)
    BY <1>2, <2>1 DEF FollowsInbox
  <2>. QED  BY <1>5, <2>1, <2>2 DEF Unread
<1>6. ASSUME walk'.cursor # None, walk'.cursor \in DOMAIN messages',
             NEW m \in (walk'.must \cap DOMAIN messages') \ walk'.got
      PROVE  After(walk.cursor, m)'
  <2>1. m \in (walk.must \cap DOMAIN messages) \ walk.got /\ messages'[m] = messages[m]
    BY <1>3, <1>6
  <2>2. After(walk.cursor, m) /\ messages'[walk.cursor] = messages[walk.cursor]
    BY <1>2, <1>4, <1>6, <2>1 DEF FollowsInbox
  <2>. QED  BY <2>1, <2>2 DEF After
<1>. QED  BY <1>5, <1>6 DEF FollowsInbox

\* A walk under which a notification is acknowledged.
LEMMA WalkLoses ==
    ASSUME CoordinationInv, NEW w \in Workers, AckWrite(w), walk # None
    PROVE  FollowsInbox(walk)'
<1>. USE DEF CoordinationInv
<1>0. Arrive(w) \/ Server(w)
  BY DEF Server
<1>. DEFINE c == calls[w]
            seen == [status |-> c.status, readAt |-> c.at]
            notes == [messages[c.item].notes EXCEPT ![c.of] = seen]
<1>1. walk \in Walk /\ walk.must \subseteq Given /\ (walk.cursor # None => walk.cursor \in Given)
  BY DEF CoordinationTypeOK, StampsAreFresh
<1>2. FollowsInbox(walk)
  BY DEF WalkIsSound
<1>3. CASE UNCHANGED <<messages, walk>>
  BY <1>2, <1>3 DEF FollowsInbox, Unread, After
<1>4. CASE ~UNCHANGED <<messages, walk>>
  <2>1. /\ c.item \in DOMAIN messages /\ c.of \in DOMAIN messages[c.item].notes
        /\ DOMAIN messages' = DOMAIN messages
        /\ \A m \in DOMAIN messages : m # c.item => messages'[m] = messages[m]
        /\ messages'[c.item] = [messages[c.item] EXCEPT !.notes = notes]
        /\ walk' = IF walk.agent = c.of /\ c.status # "unread"
                   THEN [walk EXCEPT !.must = @ \ {c.item}] ELSE walk
    BY <1>4, AckIs
  <2>2. messages[c.item] \in Message
    BY <2>1 DEF CoordinationTypeOK
  <2>3. /\ DOMAIN notes = DOMAIN messages[c.item].notes
        /\ notes[c.of].status = c.status
        /\ \A a \in DOMAIN notes : a # c.of => notes[a] = messages[c.item].notes[a]
    BY <2>1
  <2>. HIDE DEF notes, seen, c
  <2>4. messages'[c.item].notes = notes
    BY <2>1, <2>2 DEF Message
  <2>5. /\ walk'.agent = walk.agent /\ walk'.got = walk.got /\ walk'.cursor = walk.cursor
        /\ walk'.ended = walk.ended /\ walk'.must \subseteq walk.must
        /\ walk.agent = c.of /\ c.status # "unread" => c.item \notin walk'.must
    BY <1>1, <2>1 DEF Walk
  <2>6. ASSUME NEW m \in walk'.must \cap DOMAIN messages'
        PROVE  /\ m \in Unread(walk.agent)'
               /\ walk'.ended => m \in walk'.got
    <3>1. m \in Unread(walk.agent) /\ (walk.ended => m \in walk.got) /\ m \in DOMAIN messages
      BY <1>2, <2>1, <2>5, <2>6 DEF FollowsInbox
    <3>2. walk.agent \in DOMAIN messages'[m].notes /\ messages'[m].notes[walk.agent].status = "unread"
      <4>1. CASE m = c.item
        BY <2>3, <2>4, <2>5, <2>6, <3>1, <4>1 DEF Unread
      <4>2. CASE m # c.item
        BY <2>1, <3>1, <4>2 DEF Unread
      <4>. QED  BY <4>1, <4>2
    <3>. QED  BY <2>5, <2>6, <3>1, <3>2 DEF Unread
  <2>7. ASSUME walk'.cursor # None, walk'.cursor \in DOMAIN messages',
               NEW m \in (walk'.must \cap DOMAIN messages') \ walk'.got
        PROVE  After(walk.cursor, m)'
    <3>1. After(walk.cursor, m) /\ m \in Given /\ walk.cursor \in Given
      BY <1>1, <1>2, <2>1, <2>5, <2>7 DEF FollowsInbox
    <3>2. /\ messages'[m].required = messages[m].required
          /\ messages'[walk.cursor].required = messages[walk.cursor].required
      BY <1>0, <2>5, <2>7, <3>1, GivenKeeps
    <3>. QED  BY <2>5, <3>1, <3>2 DEF After
  <2>. QED  BY <2>6, <2>7 DEF FollowsInbox
<1>. QED  BY <1>3, <1>4

\* A walk that shows a page more.
LEMMA WalkGoesOn ==
    ASSUME CoordinationInv, NEW w \in Workers, Page(w)
    PROVE  FollowsInbox(walk)'
<1>. USE DEF CoordinationInv
<1>. DEFINE c == walk.cursor
            rest == {m \in Unread(walk.agent) : c # None /\ c \in DOMAIN messages => After(c, m)}
            present == walk.must \cap DOMAIN messages
<1>1. /\ walk \in Walk
      /\ walk'.agent = walk.agent /\ walk'.must = walk.must /\ walk.got \subseteq walk'.got
      /\ UNCHANGED messages
  BY PageIs
<1>2. FollowsInbox(walk)
  BY <1>1, NoneIsNoWalk DEF WalkIsSound
<1>3. present \subseteq Unread(walk.agent) /\ present \ walk.got \subseteq rest
  BY <1>2 DEF FollowsInbox
<1>4. \/ rest = {} /\ walk'.cursor = walk.cursor
      \/ \E first \in rest :
            /\ first \in walk'.got
            /\ \A n \in rest \ {first} : After(first, n)
            /\ \/ rest = {first} /\ walk'.cursor = None
               \/ ~walk'.ended /\ walk'.cursor = first
  BY PageIs
<1>. HIDE DEF rest
<1>5. present \subseteq Unread(walk.agent)'
  BY <1>1, <1>3 DEF Unread
<1>6. walk'.ended => present \subseteq walk'.got
  BY <1>1, <1>3, <1>4
<1>7. walk'.cursor # None /\ walk'.cursor \in DOMAIN messages =>
         \A m \in present \ walk'.got : After(walk'.cursor, m)
  BY <1>1, <1>3, <1>4
<1>8. walk'.must \cap DOMAIN messages' = present
  BY <1>1
<1>9. \A m : After(walk'.cursor, m) => After(walk.cursor, m)'
  BY <1>1 DEF After
<1>. HIDE DEF present
<1>. QED  BY <1>1, <1>5, <1>6, <1>7, <1>8, <1>9 DEF FollowsInbox

LEMMA WalkStep ==
    ASSUME CoordinationInv, NEW w \in Workers, Arrive(w) \/ Server(w)
    PROVE  WalkIsSound'
<1>. USE DEF CoordinationInv
<1>1. \A v \in Workers : calls[v] # Idle /\ calls[v].op = "page" => walk \in Walk
  BY DEF WalkIsSound
<1>2. walk \in Walk => walk' \in Walk
  <2>1. CASE AckWrite(w)
    <3>1. walk' \in {walk, [walk EXCEPT !.must = @ \ {calls[w].item}]}
      BY <2>1, AckIs
    <3>. QED  BY <3>1 DEF Walk
  <2>2. ASSUME NEW a \in agents, BeginPage(w, a), walk \in Walk
        PROVE  walk' \in Walk
    BY <2>2, NoneIsNoWalk DEF BeginPage
  <2>. QED  BY <2>1, <2>2, PageIs, Writers
<1>3. \A v \in Workers : calls'[v] # Idle /\ calls'[v].op = "page" => walk' \in Walk
  BY <1>1, <1>2, CallsStep DEF NewCall
<1>4. ASSUME walk' # None
      PROVE  FollowsInbox(walk)'
  <2>1. CASE AckWrite(w)
    BY <1>4, <2>1, AckIs, WalkLoses
  <2>2. CASE Page(w)
    BY <2>2, WalkGoesOn
  <2>3. CASE UNCHANGED walk /\ ~AckWrite(w)
    BY <1>4, <2>3, WalkRests
  <2>4. CASE \E a \in agents : BeginPage(w, a)
    <3>1. PICK a \in agents : BeginPage(w, a)
      BY <2>4
    <3>2. UNCHANGED messages
      BY <3>1 DEF BeginPage, direct
    <3>3. CASE walk' = [agent |-> a, cursor |-> None, must |-> Unread(a), got |-> {}, ended |-> FALSE]
      <4>1. walk'.agent = a /\ walk'.must = Unread(a) /\ walk'.cursor = None /\ ~walk'.ended
        BY <3>3
      <4>2. Unread(walk.agent)' = Unread(a)
        BY <3>2, <4>1 DEF Unread
      <4>. QED  BY <4>1, <4>2 DEF FollowsInbox
    <3>4. CASE walk # None /\ UNCHANGED walk
      BY <2>1, <2>3, <3>4
    <3>. QED  BY <3>1, <3>3, <3>4 DEF BeginPage
  <2>. QED  BY <2>1, <2>2, <2>3, <2>4, Writers
<1>. QED  BY <1>3, <1>4 DEF WalkIsSound

----------------------------------------------------------------------------
(* The invariant                                                           *)

LEMMA InitCoordinationInv == CoordinationInit => CoordinationInv
<1>. SUFFICES ASSUME CoordinationInit PROVE CoordinationInv
  OBVIOUS
<1>1. /\ lane \in Lanes /\ lane.calls \in Nat /\ lane.sent \in 0..MaxStamps /\ MaxStamps \in Nat
      /\ Horizon \in Nat /\ Founders \subseteq Agents /\ Founders # {}
  BY CoordinationAssumption DEF CoordinationInit
<1>2. calls = [v \in Workers |-> Idle] /\ \A v \in Workers : calls[v] = Idle
  BY DEF CoordinationInit
<1>3. Writing = {} /\ Awaited = {} /\ Given = 1..lane.sent
  BY <1>2 DEF Writing, Awaited, Given, CoordinationInit
<1>4. DOMAIN messages = 1..lane.sent /\ posts = [p \in {} |-> None] /\ DOMAIN posts = {}
  BY DEF CoordinationInit
<1>5. ASSUME NEW m \in DOMAIN messages
      PROVE  /\ messages[m] \in Message
             /\ DOMAIN messages[m].notes = Founders
             /\ \A a \in Founders : messages[m].notes[a].status = "unread"
  <2>1. messages[m] \in Sent
    BY <1>4, <1>5 DEF CoordinationInit
  <2>2. PICK a \in Founders, required \in BOOLEAN :
           messages[m] = [sender |-> a, at |-> 0, required |-> required,
                          notes |-> [b \in Founders |-> [status |-> "unread", readAt |-> None]]]
    BY <2>1 DEF Sent
  <2>. DEFINE notes == [b \in Founders |-> [status |-> "unread", readAt |-> None]]
  <2>3. notes \in [Founders -> Note] /\ DOMAIN notes = Founders
    BY DEF Note
  <2>4. \A b \in Founders : notes[b].status = "unread"
    OBVIOUS
  <2>. HIDE DEF notes
  <2>5. notes \in Partial(Agents, Note)
    BY <1>1, <2>3, PartialIs
  <2>6. messages[m] = [sender |-> a, at |-> 0, required |-> required, notes |-> notes]
    BY <2>2 DEF notes
  <2>7. 0 \in Times /\ a \in Agents
    BY <1>1 DEF Times
  <2>. QED  BY <2>3, <2>4, <2>5, <2>6, <2>7 DEF Message
<1>6. CoordinationTypeOK
  <2>1. 1..lane.sent \subseteq 1..MaxStamps /\ 0 \in Times /\ begun \in 0..lane.calls
    BY <1>1 DEF Times, CoordinationInit
  <2>2. now \in Times /\ stamps \in 0..MaxStamps /\ agents \in SUBSET Agents
    BY <1>1, <2>1 DEF CoordinationInit
  <2>3. /\ reads \in [Agents -> [Rooms -> (1..MaxStamps) \cup {None}]]
        /\ covered \in [Agents -> SUBSET (1..MaxStamps)]
        /\ calls \in [Workers -> Call \cup {Idle}]
    BY DEF CoordinationInit
  <2>. QED
    BY <1>1, <1>4, <1>5, <2>1, <2>2, <2>3 DEF CoordinationTypeOK, CoordinationInit
<1>7. CallsAreSound /\ StaleIsDue
  BY <1>2 DEF CallsAreSound, StaleIsDue
<1>8. StampsAreFresh
  BY <1>2, <1>3, <1>4 DEF StampsAreFresh, CoordinationInit
<1>9. NotesAreSound
  BY <1>1, <1>5 DEF NotesAreSound
<1>10. ReceiptsAreTrue
  BY <1>5 DEF ReceiptsAreTrue, CoordinationInit
<1>11. InsideIsAlone
  BY <1>2 DEF InsideIsAlone, Inside
<1>12. CursorsAreSound
  BY DEF CursorsAreSound, CoordinationInit
<1>13. WalkIsSound
  BY <1>2 DEF WalkIsSound, CoordinationInit
<1>. QED
  BY <1>6, <1>7, <1>8, <1>9, <1>10, <1>11, <1>12, <1>13 DEF CoordinationInv

\* Registration and the passing of days.
LEMMA TimePasses ==
    ASSUME CoordinationInv, agents' \in SUBSET Agents, now' \in Times, now' >= now,
           UNCHANGED <<oneProcess, lane, stamps, messages, receipts, rooms, posts, reads, covered,
                       stored, pending, calls, begun, walk>>
    PROVE  CoordinationInv'
<1>. USE DEF CoordinationInv
<1>1. now' \in Nat
  BY TablesAre DEF Times
<1>2. DueMessages \subseteq DueMessages' /\ \A p \in DuePosts : p \in DuePosts'
  BY <1>1, TablesAre, DueStays
<1>3. CoordinationTypeOK'
  BY DEF CoordinationTypeOK
<1>4. CallsAreSound'
  BY DEF CallsAreSound
<1>5. StampsAreFresh'
  BY DEF StampsAreFresh, Awaited, Writing, Given
<1>6. NotesAreSound' /\ ReceiptsAreTrue'
  BY DEF NotesAreSound, ReceiptsAreTrue
<1>7. StaleIsDue'
  BY <1>2 DEF StaleIsDue
<1>8. InsideIsAlone'
  <2>1. \A v \in Workers : MarkIsPresent(calls[v])' <=> MarkIsPresent(calls[v])
    BY DEF MarkIsPresent, InRoom
  <2>2. \A v \in Workers : Inside(v)' <=> Inside(v)
    BY DEF Inside
  <2>. QED  BY <1>2, <2>1, <2>2 DEF InsideIsAlone
<1>9. CursorsAreSound'
  BY DEF CursorsAreSound, InRoom
<1>10. WalkIsSound'
  BY DEF WalkIsSound, FollowsInbox, Unread, After
<1>. QED  BY <1>3, <1>4, <1>5, <1>6, <1>7, <1>8, <1>9, <1>10

LEMMA NextCoordinationInv == CoordinationInv /\ [CoordinationNext]_coordinationVars => CoordinationInv'
<1>. SUFFICES ASSUME CoordinationInv, [CoordinationNext]_coordinationVars
              PROVE  CoordinationInv'
  OBVIOUS
<1>1. now \in Times /\ now \in Nat /\ agents \in SUBSET Agents
  BY TablesAre DEF CoordinationInv, CoordinationTypeOK
<1>2. ASSUME NEW w \in Workers, Arrive(w) \/ Server(w)
      PROVE  CoordinationInv'
  BY <1>2, InboxTypeStep, CallsStep, StampsStep, MessagesTyped, ReceiptsStep, StaleStep, InsideStep,
     CursorsStep, WalkStep DEF CoordinationInv
<1>3. ASSUME NEW a \in Agents, Register(a)
      PROVE  CoordinationInv'
  BY <1>1, <1>3, TimePasses DEF Register, direct, meeting
<1>4. ASSUME Tick
      PROVE  CoordinationInv'
  <2>1. now + 1 \in Times /\ now + 1 >= now
    BY <1>1, <1>4, TablesAre DEF CoordinationInv, Tick, Times
  <2>. QED  BY <1>1, <1>4, <2>1, TimePasses DEF Tick, direct, meeting
<1>5. CASE UNCHANGED coordinationVars
  BY <1>1, <1>5, TimePasses DEF coordinationVars
<1>. QED  BY <1>2, <1>3, <1>4, <1>5 DEF CoordinationNext

\* Calls, creation times, notifications, sweeps, cursors and walks stay sound,
\* in one process and in several.
THEOREM InboxesHold == CoordinationSpec => []CoordinationInv
BY InitCoordinationInv, NextCoordinationInv, PTL DEF CoordinationSpec

----------------------------------------------------------------------------
(* What follows                                                            *)

\* Messages, receipts, transcripts, cursors and calls keep their types.
THEOREM CoordinationTyped == CoordinationSpec => []CoordinationTypeOK
<1>1. CoordinationInv => CoordinationTypeOK
  BY DEF CoordinationInv
<1>. QED  BY <1>1, InboxesHold, PTL

\* Receipts are the consumer's own and keep their notification, what was read
\* has a receipt that says so, and in one process an agent's uncovered posts
\* count as unread (_receipts_for_notifications, mark_meeting_room_read).
THEOREM ReceiptsHold == CoordinationSpec => []ReceiptsAndCursorsAreTrue
<1>1. CoordinationInv => ReceiptsAndCursorsAreTrue
  <2>. SUFFICES ASSUME CoordinationInv PROVE UncoveredIsUnread
    BY DEF CoordinationInv, ReceiptsAndCursorsAreTrue
  <2>. QED  BY DEF CoordinationInv, CursorsAreSound, UncoveredIsUnread, UnreadPosts
<1>. QED  BY <1>1, InboxesHold, PTL

\* An agent that follows its cursors to the end has been shown what was unread
\* all along.
THEOREM WalksMissNothing == CoordinationSpec => []WalkMissesNothing
<1>1. CoordinationInv => WalkMissesNothing
  BY DEF CoordinationInv, WalkIsSound, FollowsInbox, WalkMissesNothing, Unread
<1>. QED  BY <1>1, InboxesHold, PTL

\* Only what is due is deleted: a post in any deployment, a message in one process.
THEOREM DeletedIsDue == CoordinationSpec => OnlyDueIsDeleted
<1>1. ASSUME CoordinationInv, [CoordinationNext]_coordinationVars
      PROVE  [/\ DOMAIN posts \ DOMAIN posts' \subseteq DuePosts
              /\ oneProcess => DOMAIN messages \ DOMAIN messages' \subseteq DueMessages]_coordinationVars
  <2>1. ASSUME NEW w \in Workers, Arrive(w) \/ Server(w)
        PROVE  /\ DOMAIN posts \ DOMAIN posts' \subseteq DuePosts
               /\ oneProcess => DOMAIN messages \ DOMAIN messages' \subseteq DueMessages
    <3>1. CASE PurgeDue(w)
      <4>1. /\ calls[w] # Idle /\ DOMAIN messages' = DOMAIN messages \ calls[w].due
            /\ DOMAIN posts' = DOMAIN posts \ calls[w].stale
        BY <1>1, <3>1, PurgeIs
      <4>. QED  BY <1>1, <4>1 DEF CoordinationInv, StaleIsDue, InsideIsAlone
    <3>2. CASE ~PurgeDue(w)
      <4>1. DOMAIN posts \subseteq DOMAIN posts'
        BY <1>1, <2>1, <3>2, Writers, PostIs
      <4>2. DOMAIN messages \subseteq DOMAIN messages'
        BY <1>1, <2>1, <3>2, Writers, AckIs, SendIs
      <4>. QED  BY <4>1, <4>2
    <3>. QED  BY <3>1, <3>2
  <2>2. ASSUME Tick \/ \E a \in Agents : Register(a)
        PROVE  UNCHANGED <<posts, messages>>
    BY <2>2 DEF Tick, Register, direct, meeting
  <2>. QED  BY <1>1, <2>1, <2>2 DEF CoordinationNext
<1>. QED  BY <1>1, InboxesHold, PTL DEF CoordinationSpec, OnlyDueIsDeleted

=============================================================================
