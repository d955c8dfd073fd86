----------------------------- MODULE Ownership -----------------------------
(* The humans who own companies: bootstrap of a company, its master           *)
(* credentials and the proofs made from them, accounts with their authorities *)
(* and sessions, the context of a human's operations, and what a company goes *)
(* through at their hands.  A call authenticates in one store call and acts   *)
(* in another: between the two, anything may happen.  The second one reads    *)
(* before its first write, and in several processes what it read may be stale *)
(* by then, unless it takes the write lock first.                             *)
EXTENDS Integers, Sequences, FiniteSets

CONSTANTS Workers,      \* threads, or processes, carrying out calls
          Companies,    \* each the company of one bootstrap capability
          Requests,     \* bootstrap requests: an idempotency key with a body
          Keys,         \* master credentials
          Proofs,       \* one-time proofs of a master credential
          Accounts,     \* usernames
          Intents,      \* closure intents
          SubmitKeys,   \* idempotency keys of human memories
          MasterLimit,  \* active master credentials of a company
          Lanes,        \* bounds: the kinds of call of one behaviour, their number, the
                        \* sessions, the companies there are at the start, and whether
                        \* they are owned
          None

ASSUME OwnershipAssumption ==
    /\ MasterLimit \in Nat \ {0}
    /\ \A l \in Lanes : /\ l.calls \in Nat /\ l.sessions \in Nat
                        /\ l.start \subseteq Companies /\ (l.owned => 3 <= l.sessions)
    /\ None \notin Companies \cup Requests \cup Keys \cup Proofs \cup Accounts \cup Intents

VARIABLES oneProcess,   \* whether every worker is a thread of one process
          lane,         \* the lane of this behaviour
          companies, setups, keys, agents, proofs,
          authorities,  \* which account may act for which company, in which role
          accounts, sessions,
          expired,      \* the logins whose sessions expired
          recovery,     \* the recovery session of each company
          intents, exports, memories,
          calls,        \* what each worker is doing
          begun         \* calls begun so far

setting == <<oneProcess, lane>>
company == <<companies, setups, agents>>
people == <<accounts, authorities>>
presence == <<sessions, expired, recovery>>
closure == <<intents, exports>>
ownershipVars == <<setting, company, keys, proofs, people, presence, closure, memories, calls, begun>>

Maybe(S) == S \cup {None}
Statuses == {"none", "active", "closed", "soft_deleted", "purged"}
Company == [status: Statuses, before: Statuses, enabled: BOOLEAN]
Key == [company: Companies, by: {"bootstrap", "master", "agent"}, revoked: BOOLEAN]
Proof == [company: Companies, status: {"issued", "lapsed", "consumed", "expired", "purged"}]
Roles == {"owner", "credential_admin"}
Authority == [account: Accounts, company: Companies, role: Roles, proof: Proofs]
Numbers == 0..lane.sessions
Session == [account: Accounts, company: Maybe(Companies), reauth: BOOLEAN, revoked: BOOLEAN,
            root: Numbers \ {0}, from: Numbers, by: {"login", "reauth", "select", "transition"},
            context: {"none", "unplaced", "placed"}]
Purposes == {"close", "soft_delete", "permanent_purge"}
Intent == [company: Companies, who: Numbers, purpose: Purposes,
           status: {"pending", "lapsed", "consumed"}]
Memory == [key: SubmitKeys, company: Companies, session: Numbers \ {0}]
HumanCalls == {"delegate", "register", "proof", "account", "link", "reauth", "logout", "select",
               "setting", "intent", "restore", "export", "transition", "submit"} \cup Purposes
ASSUME NoneIsNoRow ==
    /\ None \notin Key /\ None \notin Proof
    /\ None \notin [company: Companies, who: Nat, purpose: Purposes,
                    status: {"pending", "lapsed", "consumed"}]

Call == [op: HumanCalls, step: {"begun", "write"}, who: Numbers, company: Maybe(Companies),
         key: Maybe(Keys), candidate: Maybe(Keys), proof: Maybe(Proofs),
         account: Maybe(Accounts), role: Roles, intent: Maybe(Intents),
         purpose: Maybe(Purposes), submit: Maybe(SubmitKeys), status: Statuses, flag: BOOLEAN]
Idle == [op |-> "none"]
Blank == [op |-> "none", step |-> "begun", who |-> 0, company |-> None, key |-> None,
          candidate |-> None, proof |-> None, account |-> None, role |-> "owner",
          intent |-> None, purpose |-> None, submit |-> None, status |-> "none", flag |-> FALSE]

OwnershipTypeOK ==
    /\ oneProcess \in BOOLEAN /\ lane \in Lanes
    /\ companies \in [Companies -> Company] /\ setups \in [Companies -> Maybe(Requests)]
    /\ \A c \in Companies : setups[c] = None <=> companies[c].status = "none"
    /\ keys \in [Keys -> Maybe(Key)] /\ agents \in [Companies -> {"none", "active", "revoked"}]
    /\ proofs \in [Proofs -> Maybe(Proof)]
    /\ accounts \subseteq Accounts /\ authorities \in SUBSET Authority
    /\ sessions \in Seq(Session) /\ Len(sessions) <= lane.sessions
    /\ \A s \in DOMAIN sessions : sessions[s].from < s /\ sessions[s].root <= s
    /\ expired \subseteq DOMAIN sessions
    /\ recovery \in [Companies -> {"none", "open", "ended"}]
    /\ intents \in [Intents -> Maybe(Intent)] /\ exports \subseteq Companies
    /\ memories \in SUBSET Memory
    /\ calls \in [Workers -> {Idle} \cup Call] /\ begun \in 0..lane.calls

-----------------------------------------------------------------------------
(* Who may act.                                                               *)
Live(s) == s \in DOMAIN sessions /\ ~sessions[s].revoked /\ sessions[s].root \notin expired
RoleIn(s, role) == \E a \in authorities : /\ a.account = sessions[s].account
                                          /\ a.company = sessions[s].company /\ a.role = role
Owner(s) == Live(s) /\ RoleIn(s, "owner")
CredentialAdmin(s) == Live(s) /\ \E role \in Roles : RoleIn(s, role)
Operational(s) == /\ CredentialAdmin(s)
                  /\ companies[sessions[s].company].status = "active"
MasterAccepted(k) == /\ keys[k] # None /\ ~keys[k].revoked
                     /\ companies[keys[k].company].status = "active"
AgentAccepted(c) == agents[c] = "active" /\ companies[c].status = "active"
Closer(who, c) == \/ who # 0 /\ Owner(who) /\ sessions[who].company = c /\ sessions[who].reauth
                  \/ who = 0 /\ recovery[c] = "open"

(* A call begins when it was last authenticated, and holds the lock of its    *)
(* process from its reading to its writing.                                   *)
Inside(w) == calls[w] # Idle /\ calls[w].step = "write"
May(w) == oneProcess => \A v \in Workers \ {w} : ~Inside(v)
Quiet == oneProcess => \A v \in Workers : ~Inside(v)
At(w, step, ops) == calls[w] # Idle /\ calls[w].step = step /\ calls[w].op \in ops /\ May(w)
End(w) == calls' = [calls EXCEPT ![w] = Idle]
Proceed(w) == calls' = [calls EXCEPT ![w].step = "write"]
Same == UNCHANGED <<setting, begun>>
Begin(w, op, call) ==
    /\ calls[w] = Idle /\ May(w) /\ begun < lane.calls /\ op \in lane.ops
    /\ begun' = begun + 1
    /\ calls' = [calls EXCEPT ![w] = [call EXCEPT !.op = op]]
    /\ UNCHANGED <<setting, company, keys, proofs, people, presence, closure, memories>>

BeginDelegate(w, k, candidate) ==
    /\ MasterAccepted(k) /\ candidate # k
    /\ Begin(w, "delegate", [Blank EXCEPT !.company = keys[k].company, !.key = k,
                                          !.candidate = candidate])
BeginRegister(w, c, candidate) ==
    /\ AgentAccepted(c)
    /\ Begin(w, "register", [Blank EXCEPT !.company = c, !.candidate = candidate])
BeginProof(w, k, p) ==
    /\ MasterAccepted(k)
    /\ Begin(w, "proof", [Blank EXCEPT !.company = keys[k].company, !.key = k, !.proof = p])
BeginAccount(w, a, p) ==
    /\ proofs[p] # None
    /\ Begin(w, "account", [Blank EXCEPT !.account = a, !.proof = p,
                                         !.company = proofs[p].company])
BeginLink(w, s, p, role) ==
    /\ Live(s) /\ sessions[s].reauth /\ proofs[p] # None
    /\ Begin(w, "link", [Blank EXCEPT !.who = s, !.account = sessions[s].account, !.proof = p,
                                      !.company = proofs[p].company, !.role = role])
BeginReauth(w, s) == Live(s) /\ Begin(w, "reauth", [Blank EXCEPT !.who = s])
BeginLogout(w, s) == Live(s) /\ Begin(w, "logout", [Blank EXCEPT !.who = s])
BeginSelect(w, s, c) ==
    Live(s) /\ Begin(w, "select", [Blank EXCEPT !.who = s, !.company = c])
BeginSetting(w, s, enabled) ==
    /\ CredentialAdmin(s)
    /\ Begin(w, "setting", [Blank EXCEPT !.company = sessions[s].company, !.flag = enabled])
BeginIntent(w, who, c, i, purpose) ==
    /\ Closer(who, c) /\ (who = 0 => purpose = "close")
    /\ Begin(w, "intent", [Blank EXCEPT !.who = who, !.company = c, !.intent = i,
                                        !.purpose = purpose])
BeginClosure(w, who, c, i, purpose, acknowledged) ==
    /\ Closer(who, c) /\ (who = 0 => purpose = "close")
    /\ Begin(w, purpose, [Blank EXCEPT !.who = who, !.company = c, !.intent = i,
                                       !.purpose = purpose, !.flag = acknowledged])
BeginRestore(w, s) ==
    /\ Owner(s)
    /\ Begin(w, "restore", [Blank EXCEPT !.company = sessions[s].company])
BeginExport(w, s) ==
    /\ Owner(s)
    /\ Begin(w, "export", [Blank EXCEPT !.company = sessions[s].company])
BeginTransition(w, s, current) ==
    /\ CredentialAdmin(s)
    /\ Begin(w, "transition", [Blank EXCEPT !.who = s, !.flag = current])
BeginSubmit(w, s, k, current) ==
    /\ Operational(s)
    /\ Begin(w, "submit", [Blank EXCEPT !.who = s, !.submit = k, !.flag = current])

-----------------------------------------------------------------------------
(* A capability makes one company: its setup outlives the company.            *)
\* A capability that has set a company up answers with it, or with a conflict.
SetUp(r) == \E c \in Companies : setups[c] = r

Founded(c) ==
    [companies EXCEPT ![c] = [status |-> "active", before |-> "none", enabled |-> TRUE]]

FirstKey(c, k) == [keys EXCEPT ![k] = [company |-> c, by |-> "bootstrap", revoked |-> FALSE]]

\* Mutated form: the setup of a capability is not looked for.
CreateBootstrapAccountAgain(c, k, r) ==
    /\ Quiet /\ "bootstrap" \in lane.ops
    /\ companies[c].status \in {"none", "purged"} /\ keys[k] = None
    /\ \A d \in Companies \ {c} : setups[d] # r
    /\ setups' = [setups EXCEPT ![c] = r]
    /\ companies' = Founded(c)
    /\ keys' = FirstKey(c, k)
    /\ Same /\ UNCHANGED <<agents, proofs, people, presence, closure, memories, calls>>

CreateBootstrapAccount(c, k, r) ==
    /\ Quiet /\ "bootstrap" \in lane.ops
    /\ setups[c] = None /\ keys[k] = None
    /\ ~SetUp(r)
    /\ setups' = [setups EXCEPT ![c] = r]
    /\ companies' = Founded(c)
    /\ keys' = FirstKey(c, k)
    /\ Same /\ UNCHANGED <<agents, proofs, people, presence, closure, memories, calls>>

\* The agent with company scope: its token is issued, and revoked.
TopLevelAgent(c) ==
    /\ Quiet /\ agents[c] # "revoked" /\ "register" \in lane.ops
    /\ agents' = [agents EXCEPT ![c] = IF @ = "none" THEN "active" ELSE "revoked"]
    /\ Same /\ UNCHANGED <<companies, setups, keys, proofs, people, presence, closure,
                           memories, calls>>

(* Master credentials: a sibling for a human, on the word of a master or, if  *)
(* the company allows it, of its top-level agent.                             *)
DelegateRead(w) ==
    /\ At(w, "begun", {"delegate"})
    /\ IF MasterAccepted(calls[w].key) THEN Proceed(w) ELSE End(w)
    /\ Same /\ UNCHANGED <<company, keys, proofs, people, presence, closure, memories>>

RegisterRead(w) ==
    LET c == calls[w].company IN
    /\ At(w, "begun", {"register"})
    /\ IF AgentAccepted(c) /\ companies[c].enabled THEN Proceed(w) ELSE End(w)
    /\ Same /\ UNCHANGED <<company, keys, proofs, people, presence, closure, memories>>

ActiveMasters(c) ==
    {k \in Keys : keys[k] # None /\ keys[k].company = c /\ ~keys[k].revoked}

HasMasterRoom(c) == Cardinality(ActiveMasters(c)) < MasterLimit

\* The candidate becomes a credential, if it is new and the company has room.
Registered(w, kind) ==
    LET c == calls[w].company IN
    IF /\ keys[calls[w].candidate] = None /\ HasMasterRoom(c)
       /\ companies[c].status # "purged"
    THEN [keys EXCEPT ![calls[w].candidate] = [company |-> c, by |-> kind, revoked |-> FALSE]]
    ELSE keys

DelegateWrite(w) ==
    /\ At(w, "write", {"delegate"})
    /\ keys' = Registered(w, "master")
    /\ End(w) /\ Same
    /\ UNCHANGED <<company, proofs, people, presence, closure, memories>>

RegisterWrite(w) ==
    /\ At(w, "write", {"register"})
    /\ keys' = Registered(w, "agent")
    /\ End(w) /\ Same
    /\ UNCHANGED <<company, proofs, people, presence, closure, memories>>

SetSetting(w) ==
    LET c == calls[w].company IN
    /\ At(w, "begun", {"setting"})
    /\ IF companies[c].status = "purged" THEN UNCHANGED companies
       ELSE companies' = [companies EXCEPT ![c].enabled = calls[w].flag]
    /\ End(w) /\ Same
    /\ UNCHANGED <<setups, agents, keys, proofs, people, presence, closure, memories>>

-----------------------------------------------------------------------------
(* A proof of a master credential makes one account an authority, once.       *)
CreateProof(w) ==
    LET c == calls[w].company IN
    /\ At(w, "begun", {"proof"}) /\ proofs[calls[w].proof] = None
    /\ proofs' = IF companies[c].status = "purged" THEN proofs
                 ELSE [proofs EXCEPT ![calls[w].proof] = [company |-> c, status |-> "issued"]]
    /\ End(w) /\ Same
    /\ UNCHANGED <<company, keys, people, presence, closure, memories>>

Linked(account, c) == \E a \in authorities : a.account = account /\ a.company = c
Vacant(call) == IF call.op = "account" THEN call.account \notin accounts
                ELSE ~Linked(call.account, call.company)

VerifyProof(w) ==
    LET p == calls[w].proof IN
    /\ At(w, "begun", {"account", "link"})
    /\ proofs' = IF proofs[p].status = "lapsed" THEN [proofs EXCEPT ![p].status = "expired"]
                 ELSE proofs
    /\ IF proofs[p].status = "issued" /\ Vacant(calls[w]) THEN Proceed(w) ELSE End(w)
    /\ Same /\ UNCHANGED <<company, keys, people, presence, closure, memories>>

Unspent(p) == proofs[p].status \in {"issued", "lapsed"}

Enroll(w) ==
    LET call == calls[w]
        fresh == [account |-> call.account, company |-> None, reauth |-> FALSE,
                  revoked |-> FALSE, root |-> Len(sessions) + 1, from |-> 0, by |-> "login",
                  context |-> "none"]
    IN
    /\ At(w, "write", {"account", "link"})
    /\ Len(sessions) < lane.sessions
    /\ IF Unspent(call.proof) /\ Vacant(call)
       THEN /\ proofs' = [proofs EXCEPT ![call.proof].status = "consumed"]
            /\ accounts' = accounts \cup {call.account}
            /\ authorities' = authorities \cup
                 {[account |-> call.account, role |-> call.role, company |-> call.company,
                   proof |-> call.proof]}
            /\ sessions' = IF call.op = "account" THEN Append(sessions, fresh) ELSE sessions
       ELSE UNCHANGED <<proofs, people, sessions>>
    /\ End(w) /\ Same
    /\ UNCHANGED <<company, keys, expired, recovery, closure, memories>>

-----------------------------------------------------------------------------
(* Sessions.  A rotation ends a session and opens its successor, which has    *)
(* the account and the end of the first.                                      *)
OpenSession(account) ==
    /\ Quiet /\ account \in accounts /\ "login" \in lane.ops /\ Len(sessions) < lane.sessions
    /\ sessions' = Append(sessions,
         [account |-> account, company |-> None, reauth |-> FALSE, revoked |-> FALSE,
          root |-> Len(sessions) + 1, from |-> 0, by |-> "login", context |-> "none"])
    /\ Same /\ UNCHANGED <<company, keys, proofs, people, expired, recovery, closure, memories,
                           calls>>

Successor(s, by) == [sessions[s] EXCEPT !.from = s, !.by = by, !.revoked = FALSE,
                                        !.context = "none"]
Rotated(s, successor) == Append([sessions EXCEPT ![s].revoked = TRUE], successor)

\* Mutated form: whether the session was still open is not counted.
ReauthenticateAny(w) ==
    LET s == calls[w].who IN
    /\ At(w, "begun", {"reauth"}) /\ Len(sessions) < lane.sessions
    /\ sessions' = Rotated(s, [Successor(s, "reauth") EXCEPT !.reauth = TRUE])
    /\ End(w) /\ Same
    /\ UNCHANGED <<company, keys, proofs, people, expired, recovery, closure, memories>>

Reauthenticate(w) ==
    LET s == calls[w].who IN
    /\ At(w, "begun", {"reauth"}) /\ Len(sessions) < lane.sessions
    /\ sessions' = IF sessions[s].revoked THEN sessions
                   ELSE Rotated(s, [Successor(s, "reauth") EXCEPT !.reauth = TRUE])
    /\ End(w) /\ Same
    /\ UNCHANGED <<company, keys, proofs, people, expired, recovery, closure, memories>>

(* Selecting a company does not ask whether the session was still open.       *)
SelectMembership(w) ==
    LET s == calls[w].who
        c == calls[w].company
    IN
    /\ At(w, "begun", {"select"}) /\ Len(sessions) < lane.sessions
    /\ sessions' = IF Linked(sessions[s].account, c)
                   THEN Rotated(s, [Successor(s, "select") EXCEPT !.company = c])
                   ELSE sessions
    /\ End(w) /\ Same
    /\ UNCHANGED <<company, keys, proofs, people, expired, recovery, closure, memories>>

Logout(w) ==
    /\ At(w, "begun", {"logout"})
    /\ sessions' = [sessions EXCEPT ![calls[w].who].revoked = TRUE]
    /\ End(w) /\ Same
    /\ UNCHANGED <<company, keys, proofs, people, expired, recovery, closure, memories>>

Expire(s) ==
    /\ Live(s) /\ s = sessions[s].root /\ expired' = expired \cup {s}
    /\ Same /\ UNCHANGED <<company, keys, proofs, people, sessions, recovery, closure, memories,
                           calls>>

Lapse ==
    /\ \/ \E s \in DOMAIN sessions : /\ Live(s) /\ sessions[s].reauth
                                     /\ sessions' = [sessions EXCEPT ![s].reauth = FALSE]
                                     /\ UNCHANGED <<proofs, recovery, intents>>
       \/ \E p \in Proofs : /\ proofs[p] # None /\ proofs[p].status = "issued"
                            /\ proofs' = [proofs EXCEPT ![p].status = "lapsed"]
                            /\ UNCHANGED <<sessions, recovery, intents>>
       \/ \E c \in Companies : /\ recovery[c] = "open"
                               /\ recovery' = [recovery EXCEPT ![c] = "ended"]
                               /\ UNCHANGED <<sessions, proofs, intents>>
       \/ \E i \in Intents : /\ intents[i] # None /\ intents[i].status = "pending"
                             /\ intents' = [intents EXCEPT ![i].status = "lapsed"]
                             /\ UNCHANGED <<sessions, proofs, recovery>>
    /\ Same /\ UNCHANGED <<company, keys, people, expired, exports, memories, calls>>

OpenRecovery(c) ==
    /\ companies[c].status \notin {"none", "purged"} /\ "recovery" \in lane.ops
    /\ Quiet /\ recovery[c] = "none"
    /\ recovery' = [recovery EXCEPT ![c] = "open"]
    /\ Same /\ UNCHANGED <<company, keys, proofs, people, sessions, expired, closure, memories,
                           calls>>

-----------------------------------------------------------------------------
(* Human operations happen in the context of a session: its version is its    *)
(* own, and moving to a project rotates the session.  These calls take the    *)
(* write lock before they read.                                               *)
Viewed(s) == [sessions EXCEPT ![s].context = IF @ = "none" THEN "unplaced" ELSE @]

ViewContext(s) ==
    /\ Quiet /\ Operational(s) /\ "transition" \in lane.ops /\ sessions[s].context = "none"
    /\ sessions' = Viewed(s)
    /\ Same /\ UNCHANGED <<company, keys, proofs, people, expired, recovery, closure, memories,
                           calls>>

TransitionContext(w) ==
    LET s == calls[w].who IN
    /\ At(w, "begun", {"transition"}) /\ Len(sessions) < lane.sessions
    /\ sessions' =
         IF ~Operational(s) THEN sessions
         ELSE IF sessions[s].context = "none" \/ ~calls[w].flag THEN Viewed(s)
         ELSE Rotated(s, [Successor(s, "transition") EXCEPT !.context = "placed"])
    /\ End(w) /\ Same
    /\ UNCHANGED <<company, keys, proofs, people, expired, recovery, closure, memories>>

Answered(k, c) == \E m \in memories : m.key = k /\ m.company = c
Submitted(w) ==
    LET s == calls[w].who IN
    memories \cup {[key |-> calls[w].submit, company |-> sessions[s].company, session |-> s]}

\* Mutated form: the session is as it was when the handler looked.
SubmitMemoryTrusting(w) ==
    LET s == calls[w].who IN
    /\ At(w, "begun", {"submit"})
    /\ memories' = IF /\ sessions[s].company # None
                      /\ sessions[s].context = "placed" /\ calls[w].flag
                      /\ ~Answered(calls[w].submit, sessions[s].company)
                   THEN Submitted(w) ELSE memories
    /\ sessions' = IF Operational(s) THEN Viewed(s) ELSE sessions
    /\ End(w) /\ Same
    /\ UNCHANGED <<company, keys, proofs, people, expired, recovery, closure>>

SubmitMemory(w) ==
    LET s == calls[w].who IN
    /\ At(w, "begun", {"submit"})
    /\ memories' = IF /\ Operational(s) /\ RoleIn(s, "owner")
                      /\ sessions[s].context = "placed" /\ calls[w].flag
                      /\ ~Answered(calls[w].submit, sessions[s].company)
                   THEN Submitted(w) ELSE memories
    /\ sessions' = IF Operational(s) THEN Viewed(s) ELSE sessions
    /\ End(w) /\ Same
    /\ UNCHANGED <<company, keys, proofs, people, expired, recovery, closure>>

-----------------------------------------------------------------------------
(* What a company goes through: an intent of the same session, then the act.  *)
RecordExport(w) ==
    LET c == calls[w].company IN
    /\ At(w, "begun", {"export"})
    /\ exports' = IF companies[c].status = "purged" THEN exports ELSE exports \cup {c}
    /\ End(w) /\ Same
    /\ UNCHANGED <<company, keys, proofs, people, presence, intents, memories>>

CreateIntent(w) ==
    LET call == calls[w] IN
    /\ At(w, "begun", {"intent"}) /\ intents[call.intent] = None
    /\ intents' = IF \/ companies[call.company].status = "purged"
                     \/ /\ call.purpose = "permanent_purge"
                        /\ companies[call.company].status = "active"
                  THEN intents
                  ELSE [intents EXCEPT ![call.intent] =
                          [company |-> call.company, who |-> call.who,
                           purpose |-> call.purpose, status |-> "pending"]]
    /\ End(w) /\ Same
    /\ UNCHANGED <<company, keys, proofs, people, presence, exports, memories>>

LoadIntent(call) ==
    LET i == intents[call.intent] IN
    /\ i # None /\ i.company = call.company /\ i.who = call.who
    /\ i.purpose = call.purpose /\ i.status = "pending"

ClosureRead(w) ==
    LET c == calls[w].company IN
    /\ At(w, "begun", Purposes)
    /\ IF /\ LoadIntent(calls[w]) /\ companies[c].status # "purged"
          /\ calls[w].op = "permanent_purge" =>
               /\ companies[c].status \in {"closed", "soft_deleted"}
               /\ c \in exports \/ calls[w].flag
       THEN calls' = [calls EXCEPT ![w].step = "write", ![w].status = companies[c].status]
       ELSE End(w)
    /\ Same /\ UNCHANGED <<company, keys, proofs, people, presence, closure, memories>>

Consumed(w) == [intents EXCEPT ![calls[w].intent].status = "consumed"]

CloseCompany(w) ==
    LET c == calls[w].company IN
    /\ At(w, "write", {"close"})
    /\ IF companies[c].status = "purged" THEN UNCHANGED <<companies, agents, keys, intents>>
       ELSE /\ companies' = [companies EXCEPT ![c].status = "closed"]
            /\ keys' = [k \in Keys |-> IF keys[k] # None /\ keys[k].company = c
                                       THEN [keys[k] EXCEPT !.revoked = TRUE] ELSE keys[k]]
            /\ agents' = [agents EXCEPT ![c] = IF @ = "active" THEN "revoked" ELSE @]
            /\ intents' = Consumed(w)
    /\ End(w) /\ Same
    /\ UNCHANGED <<setups, proofs, people, presence, exports, memories>>

SoftDeleteCompany(w) ==
    LET c == calls[w].company IN
    /\ At(w, "write", {"soft_delete"})
    /\ IF companies[c].status = "purged" THEN UNCHANGED <<companies, intents>>
       ELSE /\ companies' = [companies EXCEPT ![c].status = "soft_deleted",
                                              ![c].before = calls[w].status]
            /\ intents' = Consumed(w)
    /\ End(w) /\ Same
    /\ UNCHANGED <<setups, agents, keys, proofs, people, presence, exports, memories>>

RestoreRead(w) ==
    LET row == companies[calls[w].company] IN
    /\ At(w, "begun", {"restore"})
    /\ IF row.status = "soft_deleted"
       THEN calls' = [calls EXCEPT ![w].step = "write",
                        ![w].status = IF row.before = "none" THEN "active" ELSE row.before]
       ELSE End(w)
    /\ Same /\ UNCHANGED <<company, keys, proofs, people, presence, closure, memories>>

RestoreCompany(w) ==
    LET c == calls[w].company IN
    /\ At(w, "write", {"restore"})
    /\ companies' = IF companies[c].status = "purged" THEN companies
                    ELSE [companies EXCEPT ![c].status = calls[w].status, ![c].before = "none"]
    /\ End(w) /\ Same
    /\ UNCHANGED <<setups, agents, keys, proofs, people, presence, closure, memories>>

PurgeCompany(w) ==
    LET c == calls[w].company
        ofC(row) == row # None /\ row.company = c
    IN
    /\ At(w, "write", {"permanent_purge"})
    /\ companies' = [companies EXCEPT ![c] = [status |-> "purged", before |-> "none",
                                              enabled |-> FALSE]]
    /\ keys' = [k \in Keys |-> IF ofC(keys[k]) THEN None ELSE keys[k]]
    /\ agents' = [agents EXCEPT ![c] = "revoked"]
    /\ proofs' = [p \in Proofs |-> IF ofC(proofs[p]) THEN [proofs[p] EXCEPT !.status = "purged"]
                                   ELSE proofs[p]]
    /\ authorities' = {a \in authorities : a.company # c}
    /\ sessions' = [s \in DOMAIN sessions |->
                      IF sessions[s].company = c
                      THEN [sessions[s] EXCEPT !.company = None, !.context = "none"]
                      ELSE sessions[s]]
    /\ recovery' = [recovery EXCEPT ![c] = "ended"]
    /\ intents' = [i \in Intents |-> IF ofC(intents[i]) THEN None ELSE intents[i]]
    /\ exports' = exports \ {c}
    /\ memories' = {m \in memories : m.company # c}
    /\ End(w) /\ Same
    /\ UNCHANGED <<setups, accounts, expired>>

-----------------------------------------------------------------------------
\* The sessions of an owner who entered, proved it again and selected the company.
OwnerHistory(a, c) ==
    LET login == [account |-> a, company |-> None, reauth |-> FALSE, revoked |-> TRUE,
                  root |-> 1, from |-> 0, by |-> "login", context |-> "none"]
        again == [login EXCEPT !.from = 1, !.by = "reauth", !.reauth = TRUE]
    IN <<login, again, [again EXCEPT !.from = 2, !.by = "select", !.company = c,
                                     !.revoked = FALSE]>>

OwnershipInit ==
    /\ oneProcess \in BOOLEAN /\ lane \in Lanes
    /\ \E owners \in [lane.start -> Keys] :
         /\ \A c, d \in lane.start : c # d => owners[c] # owners[d]
         /\ companies = [c \in Companies |->
              [status |-> IF c \in lane.start THEN "active" ELSE "none", before |-> "none",
               enabled |-> c \in lane.start]]
         /\ keys = [k \in Keys |->
              IF \E c \in lane.start : owners[c] = k
              THEN [company |-> CHOOSE c \in lane.start : owners[c] = k, by |-> "bootstrap",
                    revoked |-> FALSE]
              ELSE None]
    /\ \E asked \in [Companies -> Maybe(Requests)] :
         /\ \A c \in Companies : asked[c] = None <=> c \notin lane.start
         /\ \A c, d \in lane.start : c # d => asked[c] # asked[d]
         /\ setups = asked
    /\ agents = [c \in Companies |-> "none"]
    /\ \/ /\ ~lane.owned
          /\ proofs = [p \in Proofs |-> None] /\ authorities = {} /\ accounts = {}
          /\ sessions = <<>>
       \/ /\ lane.owned
          /\ \E c \in lane.start, a \in Accounts, p \in Proofs :
               /\ proofs = [q \in Proofs |-> IF q # p THEN None
                                             ELSE [company |-> c, status |-> "consumed"]]
               /\ authorities = {[account |-> a, company |-> c, role |-> "owner", proof |-> p]}
               /\ accounts = {a} /\ sessions = OwnerHistory(a, c)
    /\ expired = {}
    /\ recovery = [c \in Companies |-> "none"] /\ intents = [i \in Intents |-> None]
    /\ exports = {} /\ memories = {} /\ calls = [w \in Workers |-> Idle] /\ begun = 0

Arrive(w) ==
    \/ \E k \in Keys, candidate \in Keys : BeginDelegate(w, k, candidate)
    \/ \E c \in Companies, candidate \in Keys : BeginRegister(w, c, candidate)
    \/ \E k \in Keys, p \in Proofs : proofs[p] = None /\ BeginProof(w, k, p)
    \/ \E a \in Accounts, p \in Proofs : BeginAccount(w, a, p)
    \/ \E s \in DOMAIN sessions :
         \/ \E p \in Proofs, role \in Roles : BeginLink(w, s, p, role)
         \/ BeginReauth(w, s) \/ BeginLogout(w, s) \/ BeginRestore(w, s) \/ BeginExport(w, s)
         \/ \E c \in Companies : BeginSelect(w, s, c)
         \/ \E yes \in BOOLEAN : \/ BeginSetting(w, s, yes) \/ BeginTransition(w, s, yes)
                                 \/ \E k \in SubmitKeys : BeginSubmit(w, s, k, yes)
    \/ \E who \in {0} \cup DOMAIN sessions, c \in Companies, i \in Intents,
         purpose \in Purposes \cap lane.ops :
         \/ intents[i] = None /\ BeginIntent(w, who, c, i, purpose)
         \/ \E yes \in BOOLEAN : BeginClosure(w, who, c, i, purpose, yes)

Server(w) ==
    \/ DelegateRead(w) \/ DelegateWrite(w)
    \/ RegisterRead(w) \/ RegisterWrite(w) \/ SetSetting(w)
    \/ CreateProof(w) \/ VerifyProof(w) \/ Enroll(w)
    \/ Reauthenticate(w) \/ SelectMembership(w) \/ Logout(w)
    \/ TransitionContext(w) \/ SubmitMemory(w)
    \/ RecordExport(w) \/ CreateIntent(w) \/ ClosureRead(w) \/ CloseCompany(w)
    \/ SoftDeleteCompany(w) \/ RestoreRead(w) \/ RestoreCompany(w) \/ PurgeCompany(w)

Alone ==
    \/ \E c \in Companies, k \in Keys, r \in Requests : CreateBootstrapAccount(c, k, r)
    \/ \E c \in Companies : TopLevelAgent(c) \/ OpenRecovery(c)
    \/ \E a \in Accounts : OpenSession(a)
    \/ \E s \in DOMAIN sessions : Expire(s) \/ ViewContext(s)
    \/ Lapse

OwnershipNext == Alone \/ \E w \in Workers : Arrive(w) \/ Server(w)

OwnershipSpec == OwnershipInit /\ [][OwnershipNext]_ownershipVars

-----------------------------------------------------------------------------
(* Properties.                                                                *)

(* A proof of a master credential makes one account an authority of one       *)
(* company, however many calls present it at once.                            *)
ProofsAreSpentOnce == \A a, b \in authorities : a.proof = b.proof => a = b

(* A company has no more active master credentials than the limit, whoever    *)
(* registers them at the same time.                                           *)
MastersWithinLimit == \A c \in Companies : Cardinality(ActiveMasters(c)) <= MasterLimit

(* In one process a master credential is issued on the word of an issuer that *)
(* is accepted at that moment, under the setting of that moment.              *)
IssuersAreCurrent ==
    [][oneProcess => \A k \in Keys :
         keys[k] = None /\ keys'[k] # None =>
           /\ companies'[keys'[k].company].status = "active"
           /\ keys'[k].by = "agent" =>
                agents[keys'[k].company] = "active" /\ companies[keys'[k].company].enabled]_ownershipVars

(* Two successors of one session are never both made by calls that count the  *)
(* end of the session: one of them selected a company.                        *)
RotationsAreExclusive ==
    \A s, t \in DOMAIN sessions :
      s # t /\ sessions[s].from # 0 /\ sessions[s].from = sessions[t].from =>
        "select" \in {sessions[s].by, sessions[t].by}

(* A human memory is written for a session that is open, in a company that is *)
(* active and the human owns, at the moment of writing, and once for a key.   *)
SubmissionsAreAuthorised ==
    [][\A m \in memories' \ memories :
         /\ Owner(m.session) /\ companies[m.company].status = "active"
         /\ ~Answered(m.key, m.company)]_ownershipVars

(* A company that was purged does not come back, whatever capability, request *)
(* or credential of it is presented again.                                    *)
PurgedStaysPurged ==
    [][\A c \in Companies :
         companies[c].status = "purged" => companies'[c].status = "purged"]_ownershipVars

(* Who owns a company was proved once and is bounded, however many calls      *)
(* present one proof, one credential or one session at the same time.         *)
OwnersAreSound ==
    /\ OwnershipTypeOK
    /\ ProofsAreSpentOnce
    /\ MastersWithinLimit
    /\ RotationsAreExclusive

(* Credentials are issued and memories written on an authority that is good   *)
(* at the moment of writing.                                                  *)
ActsAreAuthorised == IssuersAreCurrent /\ SubmissionsAreAuthorised
=============================================================================
