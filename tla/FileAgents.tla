----------------------------- MODULE FileAgents -----------------------------
(***************************************************************************)
(* The methods of FileStore by which a company's agents come to their       *)
(* credentials: a request, its approval, an invite, its redemption, and the *)
(* replacement of a token by a successor that the agent proves to hold.     *)
(*                                                                          *)
(* A request lies in its company, to is the token it supersedes, by the     *)
(* invite it names and val <<name, scope>>; an invite lies in the company,  *)
(* to is its request, by the key it was redeemed under and val the room it  *)
(* starts in; an identity lies in the company with val its name; a grant    *)
(* lies in the company, to is its scope and by the token it follows; a      *)
(* token lies under its grant and by is its identity; a replacement lies in *)
(* the company, by is the token it replaces, to the successor and val the   *)
(* keys it was prepared under.                                              *)
(*                                                                          *)
(* A call that shows the master key authenticates it in a section of its    *)
(* own: c.seen[1] is what that section found and c.as the key.              *)
(***************************************************************************)
EXTENDS FileGovernance

---------------------------------------------------------------------------
(* Requests. *)

_agent_access_scope_company_data(d, scope) == CompanyOf(d, scope)

Named(d, o, name) == {k \in Section(d, "identity") : d[k].in = o /\ d[k].val = <<name>>}

\* A token of the company whose agent has this name.
Refers(d, t, o, name) ==
    /\ t \in DOMAIN d /\ In(d, d[t].in) = o
    /\ d[t].by \in Named(d, o, name)

\* in is the company, of the scope, how the name; to the token to supersede
\* and as the token whose memory is taken over, if any.
request_agent_access(d, c) ==
    LET held == \/ Named(d, c.in, c.how) /= {}
                \/ \E k \in Section(d, "request") :
                      /\ d[k].in = c.in /\ d[k].val[1] = c.how
                      /\ d[k].status \in {"pending", "approved"}
        references == {c.to, c.as} \ {Nobody}
    IN IF /\ _agent_access_scope_company_data(d, c.of) = c.in
          /\ \A t \in references : Refers(d, t, c.in, c.how)
          /\ c.to /= Nobody => Live(d, c.to) /\ Live(d, d[c.to].in)
          /\ ~held \/ references /= {}
       THEN Put(d, <<"request", c.n>>,
                [New("pending", c.in) EXCEPT !.to = c.to, !.val = <<c.how, c.of>>])
       ELSE Refused

OfMaster(c) == In(c.seen[1], c.as)

\* how is the decision.
decide_agent_access_request(d, c) ==
    LET o == OfMaster(c)
        name == d[c.of].val[1]
        known == Named(d, o, name)
        e == IF known /= {} THEN d
             ELSE Put(d, <<"identity", c.n>>, [New("active", o) EXCEPT !.val = <<name>>])
    IN IF Status(d, c.of) = "pending" /\ d[c.of].in = o
       THEN IF c.how = "denied" THEN Mark(d, {c.of}, "denied")
            ELSE IF \A k \in known : Live(d, k) THEN Mark(e, {c.of}, "approved") ELSE Refused
       ELSE Refused

deny_agent_access_request(d, c) ==
    IF Status(d, c.of) = "pending" /\ d[c.of].in = OfMaster(c)
    THEN Mark(d, {c.of}, "denied") ELSE Refused

\* A goal or task node: where it lies cannot be changed.
register_scope_node(d, c) ==
    IF /\ c.to[1] \in ParentRules[c.of[1]]
       /\ _agent_access_scope_company_data(d, c.to) = c.in
       /\ In(d, c.of) \in {Nobody, c.to}
    THEN IF c.of \in DOMAIN d THEN d ELSE Put(d, c.of, New("active", c.to))
    ELSE Refused

---------------------------------------------------------------------------
(* Scopes. *)

\* A grant reaches its scope and everything that lies in it.
_agent_grant_allows_data(d, scope, target) == scope \in Ancestors(d, target)

agent_has_scope(d, w, agent, scope) ==
    \E t \in Section(d, "token") :
       /\ Live(d, t) /\ Live(d, d[t].in) /\ d[d[t].in].in = In(d, w)
       /\ Live(d, d[t].by) /\ d[d[t].by].val = <<agent>>
       /\ _agent_grant_allows_data(d, d[d[t].in].to, scope)

auth_allows_scope(d, principal, scope) ==
    CASE principal[1] = "master" -> _agent_access_scope_company_data(d, scope) = In(d, principal)
      [] principal[1] = "credential" ->
           d[principal].in \in DOMAIN d /\ d[d[principal].in].val[1] \in Ancestors(d, scope)
      [] OTHER -> Live(d, In(d, principal))
                    /\ _agent_grant_allows_data(d, d[d[principal].in].to, scope)

---------------------------------------------------------------------------
(* Invites. *)

\* The workspaces an invite may start in: the one of its scope, or the active ones
\* of the company.
Entry(d, o, scope) ==
    IF scope = o THEN {w \in Section(d, "workspace") : d[w].in = o /\ d[w].status = "active"}
    ELSE {w \in Ancestors(d, scope) : w[1] = "workspace" /\ Live(d, w) /\ d[w].in = o}

EntryWorkspace(d, o, scope) == CHOOSE w \in Entry(d, o, scope) : TRUE

_select_agent_invite_onboarding_data(d, o, scope) ==
    LET w == EntryWorkspace(d, o, scope)
        e == _ensure_default_meeting_rooms(d, w)
    IN IF Cardinality(Entry(d, o, scope)) = 1 /\ RoomOpen(e, w, Room(w, scope))
       THEN e ELSE Refused

Retired(d, c, i) ==
    Status(d, i) \in {"revoked", "expired"} \/ (Status(d, i) = "issued" /\ i \in c.late)

issue_agent_invite(d, c) ==
    LET o == OfMaster(c)
        prior == d[c.of].by
        scope == d[c.of].val[2]
        e == _select_agent_invite_onboarding_data(d, o, scope)
        invite == [New("issued", o) EXCEPT !.to = c.of,
                                           !.val = <<Room(EntryWorkspace(d, o, scope), scope)>>]
    IN IF /\ Status(d, c.of) = "approved" /\ d[c.of].in = o
          /\ prior = Nobody \/ Retired(d, c, prior)
          /\ \A k \in Named(d, o, d[c.of].val[1]) : Live(d, k)
          /\ e /= Refused
       THEN [Put(Drop(e, {prior}), <<"invite", c.n>>, invite)
               EXCEPT ![c.of].by = <<"invite", c.n>>]
       ELSE Refused

revoke_agent_invite(d, c) ==
    IF Status(d, c.of) = "issued" /\ d[c.of].in = OfMaster(c)
    THEN Mark(d, {c.of}, "revoked") ELSE Refused

\* of is the invite, key the idempotency digest, to the token the agent chose.
redeem_agent_invite(d, c) ==
    LET o == d[c.of].in
        request == d[c.of].to
        identity == CHOOSE k \in Named(d, o, d[request].val[1]) : TRUE
        scope == d[request].val[2]
        old == d[request].to
        grant == <<"grant", c.n>>
        made == Put(Put(d, grant, [New("active", o) EXCEPT !.to = scope, !.by = old]),
                    c.to, [New("active", grant) EXCEPT !.by = identity])
        ended == IF old = Nobody THEN made ELSE Mark(made, {old, d[old].in}, "revoked")
        done == [ended EXCEPT ![c.of].status = "redeemed", ![c.of].by = c.key]
        places == {a \in Ancestors(d, scope) : a[1] = "workspace"}
    IN IF \/ Status(d, c.of) /= "issued"
          \/ \E k \in Section(d, "invite") : d[k].by = c.key
       THEN Refused
       ELSE IF c.of \in c.late THEN Mark(d, {c.of}, "expired")
       ELSE IF /\ Status(d, request) = "approved"
               /\ \A k \in Named(d, o, d[request].val[1]) : Live(d, k)
               /\ Live(d, d[c.of].val[1])
               /\ old /= Nobody => /\ Live(d, old) /\ d[old].by = identity
                                   /\ Live(d, d[old].in) /\ d[d[old].in].in = o
               /\ c.to \notin DOMAIN d
       THEN IF places = {} THEN done
            ELSE Put(done, <<"agent", d[identity].val[1]>>,
                     New("active", CHOOSE w \in places : TRUE))
       ELSE Refused

---------------------------------------------------------------------------
(* Tokens and their replacement. *)

TokenAccepted(d, t) ==
    Live(d, t) /\ Live(d, d[t].in) /\ Live(d, d[t].by) /\ Live(d, d[d[t].in].in)

authenticate_agent_token(d, c) == IF TokenAccepted(d, c.as) THEN d ELSE Refused

revoke_agent_token(d, c) ==
    IF Live(d, c.of) /\ In(d, d[c.of].in) = OfMaster(c)
    THEN Mark(d, {c.of, d[c.of].in}, "revoked") ELSE Refused

\* The session was accepted by the section before.
ManagesCredentials(c) ==
    _credential_management_human_session(c.seen[1], Then(c)) /\ Recent(c.seen[1], Then(c), c.as)

Pending(d, t) ==
    {g \in Section(d, "grant") : d[g].by = t /\ d[g].status = "pending_activation"}

Replaceable(d, c, t) ==
    Live(d, t) /\ Live(d, d[t].in) /\ In(d, d[t].in) = ManagedCompany(c.seen[1], c.as)

SuccessorMade(d, c, t) ==
    Put(Put(d, <<"grant", c.n>>,
            [New("pending_activation", d[d[t].in].in)
               EXCEPT !.to = d[d[t].in].to, !.by = t]),
        <<"token", c.n>>, [New("active", <<"grant", c.n>>) EXCEPT !.by = d[t].by])

prepare_agent_token_replacement(d, c) ==
    IF ManagesCredentials(c) /\ Replaceable(d, c, c.of) /\ Pending(d, c.of) = {}
    THEN SuccessorMade(d, c, c.of) ELSE Refused

\* A successor that is not confirmed in time ends with its grant.
Lapsed(d, t) == Mark(Mark(d, {t}, "revoked"), {d[t].in}, "expired")

\* Mutated form: the predecessor stays active beside its successor.
SuccessorJoins(d, t) == Mark(d, {d[t].in}, "active")

SuccessorActive(d, t) ==
    LET old == d[d[t].in].by
    IN Mark(Mark(Mark(d, {d[t].in}, "active"), {old}, "revoked"), {d[old].in}, "superseded")

\* as is the successor.
confirm_agent_token_replacement(d, c) ==
    LET grant == In(d, c.as)  old == d[grant].by
    IN IF ~(/\ Live(d, c.as) /\ Status(d, grant) = "pending_activation"
            /\ old \in DOMAIN d /\ d[old].in \in DOMAIN d /\ d[old].by = d[c.as].by)
       THEN Refused
       ELSE IF grant \in c.late THEN Lapsed(d, c.as)
       ELSE IF Live(d, old) /\ Live(d, d[old].in) /\ Live(d, d[old].by)
       THEN SuccessorActive(d, c.as) ELSE Refused

cancel_agent_token_replacement(d, c) ==
    LET grant == In(d, c.of)  old == d[grant].by
    IN IF /\ ManagesCredentials(c)
          /\ Status(d, grant) = "pending_activation"
          /\ d[grant].in = ManagedCompany(c.seen[1], c.as)
          /\ Live(d, old) /\ Live(d, d[old].in)
       THEN Mark(Mark(d, {c.of}, "revoked"), {grant}, "cancelled") ELSE Refused

expire_pending_agent_token_replacements(d, c) ==
    LET over == {g \in Section(d, "grant") \cap c.late : d[g].status = "pending_activation"}
        theirs == {t \in Section(d, "token") : d[t].in \in over}
    IN IF over = {} THEN Refused ELSE Mark(Mark(d, over, "expired"), theirs, "revoked")

---------------------------------------------------------------------------
(* Replacements that an owner prepares and confirms at the company's pages. *)

Waiting(d, t) == {r \in Section(d, "replacement") : d[r].by = t /\ d[r].status = "prepared"}

\* What becomes of replacements that were not confirmed in time.
LapsedAll(d, R) ==
    LET tokens == {d[r].to : r \in R} \cap DOMAIN d
        grants == {d[t].in : t \in tokens} \cap DOMAIN d
    IN Mark(Mark(Mark(d, R, "expired"), tokens, "revoked"), grants, "expired")

prepare_human_agent_token_replacement(d, c) ==
    LET e == LapsedAll(d, Waiting(d, c.of) \cap c.late)
        replayed == \E r \in Section(d, "replacement") : d[r].val = <<c.key>>
    IN IF /\ ManagesCredentials(c) /\ ~replayed
          /\ Replaceable(d, c, c.of)
          /\ Waiting(d, c.of) \subseteq c.late
       THEN Put(SuccessorMade(e, c, c.of), <<"replacement", c.n>>,
                [New("prepared", ManagedCompany(c.seen[1], c.as))
                   EXCEPT !.by = c.of, !.to = <<"token", c.n>>, !.val = <<c.key>>])
       ELSE Refused

human_agent_token_replacement_status(d, c) ==
    IF /\ _credential_management_human_session(c.seen[1], Then(c))
       /\ In(d, c.of) = ManagedCompany(c.seen[1], c.as)
       /\ Status(d, c.of) = "prepared" /\ c.of \in c.late
    THEN LapsedAll(d, {c.of}) ELSE Refused

\* to is the successor's proof.  Whether the successor still stands is not asked.
confirm_human_agent_token_replacement(d, c) ==
    LET old == d[c.of].by  grant == d[c.to].in
    IN IF ~(/\ ManagesCredentials(c)
            /\ In(d, c.of) = ManagedCompany(c.seen[1], c.as)
            /\ Status(d, c.of) = "prepared")
       THEN Refused
       ELSE IF c.of \in c.late THEN LapsedAll(d, {c.of})
       ELSE IF /\ c.to = d[c.of].to /\ c.to \in DOMAIN d
               /\ Live(d, old) /\ Live(d, d[old].in)
       THEN Mark(SuccessorActive(d, c.to), {c.of}, "confirmed") ELSE Refused

cancel_human_agent_token_replacement(d, c) ==
    LET old == d[c.of].by  t == d[c.of].to
    IN IF /\ ManagesCredentials(c)
          /\ In(d, c.of) = ManagedCompany(c.seen[1], c.as)
          /\ Status(d, c.of) = "prepared"
          /\ Live(d, old) /\ Live(d, d[old].in)
       THEN Mark(Mark(Mark(d, {t}, "revoked"), {d[t].in}, "cancelled"), {c.of}, "canceled")
       ELSE Refused

=============================================================================
