--------------------------- MODULE FileGovernance ---------------------------
(***************************************************************************)
(* The methods of FileStore about accounts and companies: bootstrap, master *)
(* keys, the recovery credential and its sessions, human accounts and their *)
(* sessions, ownership proofs, operational contexts, and the closing,       *)
(* deleting, restoring and purging of a company.  Most authenticate in one  *)
(* locked section and act in a second one: c.seen[1] is the document that   *)
(* the first section found, d the one the second section loads.             *)
(*                                                                          *)
(* A company's val is <<setting, preDeleteStatus>>; a session lies under    *)
(* its account, by is the selected authority, to its predecessor, rev is 1  *)
(* once the password was given again; an authority lies in its company, by  *)
(* is the human, to the proof that made it, val the role.                   *)
(***************************************************************************)
EXTENDS FileWorkspace

CONSTANT MasterLimit        \* _MAX_ACTIVE_COMPANY_MASTER_CREDENTIALS

\* It is a positive number.
ASSUME MasterLimitIsNumber == MasterLimit \in Nat \ {0}

\* Every entry that lies in company o, at any depth.
Within(d, s, o) == {k \in Section(d, s) : o \in Ancestors(d, k)}

---------------------------------------------------------------------------
(* Accounts. x identifies what is made: the call, or the setup capability.   *)

AccountGraph(x, m, h) ==
    LET inCompany == {<<"workspace", x>>, m, h}
        company == [New("active", Nobody) EXCEPT !.by = <<"account", x>>, !.val = <<"on", "none">>]
    IN [k \in {<<"account", x>>, <<"company", x>>, <<"project", x>>} \cup inCompany |->
          IF k \in inCompany THEN New("active", <<"company", x>>)
          ELSE IF k = <<"project", x>> THEN New("active", <<"workspace", x>>)
          ELSE IF k = <<"company", x>> THEN company ELSE New("active", Nobody)]

create_free_account(d, c) ==
    _ensure_default_meeting_rooms(
        With(d, AccountGraph(c.n, <<"master", c.n>>, <<"humancred", c.n>>)), <<"workspace", c.n>>)

\* of is the setup that the capability's digest names, key the idempotency
\* digest, body the credentials.  A repeat answers from the setup; a collision,
\* a changed repeat and a damaged graph are refused: nothing is saved.
_create_bootstrap_account_file_locked(d, c) ==
    LET x == c.of[2]
        graph == AccountGraph(x, <<"master", c.body>>, <<"humancred", c.body>>)
    IN IF /\ c.of \notin c.late
          /\ c.of \notin DOMAIN d
          /\ \A k \in Section(d, "setup") : d[k].by /= c.key
          /\ DOMAIN graph \cap DOMAIN d = {}
       THEN Put(_ensure_default_meeting_rooms(With(d, graph), <<"workspace", x>>), c.of,
                [New("complete", <<"company", x>>) EXCEPT !.by = c.key, !.val = <<c.body>>])
       ELSE Refused

---------------------------------------------------------------------------
(* Company master keys. *)

MasterAccepted(d, m) == Live(d, m) /\ Live(d, d[m].in)

\* lastUsedAt aside, an authentication saves the document as it loaded it.
authenticate_company_master(d, c) == IF MasterAccepted(d, c.as) THEN d ELSE Refused

bootstrap_company_master_token(d, c) ==
    IF c.of \in DOMAIN d /\ Within(d, "master", c.of) = {}
    THEN Put(d, <<"master", c.n>>, New("active", c.of)) ELSE Refused

MasterAdmitted(d, o, m) ==
    /\ m \notin DOMAIN d
    /\ Cardinality({k \in Within(d, "master", o) : d[k].status = "active"}) < MasterLimit

\* of is the candidate key, key the idempotency key of the delegation.
delegate_company_master_credential(d, c) ==
    LET o == In(d, c.as)  reserved == <<"idem", <<"delegate", c.as, c.key>>>>
    IN IF /\ MasterAccepted(d, c.as)
          /\ In(d, c.in) = o
          /\ reserved \notin DOMAIN d
          /\ MasterAdmitted(d, o, c.of)
       THEN Put(Put(d, c.of, [New("active", o) EXCEPT !.by = c.as]),
                reserved, [New("recorded", c.in) EXCEPT !.by = c.of])
       ELSE Refused

\* as is the token of an agent whose grant covers the whole company.
register_top_level_agent_company_master_credential(d, c) ==
    LET grant == In(d, c.as)
        o == In(d, grant)
        reserved == <<"idem", <<"register", c.as, c.key>>>>
    IN IF /\ Live(d, c.as) /\ Live(d, grant) /\ Live(d, d[c.as].by)
          /\ Live(d, o) /\ d[grant].to = o
          /\ d[o].val[1] = "on"
          /\ In(d, c.in) = o
          /\ reserved \notin DOMAIN d
          /\ MasterAdmitted(d, o, c.of)
       THEN Put(Put(d, c.of, [New("active", o) EXCEPT !.by = c.as]),
                reserved, [New("recorded", c.in) EXCEPT !.by = c.of])
       ELSE Refused

---------------------------------------------------------------------------
(* The recovery credential and its sessions.  The second section of a call   *)
(* works with what the first one verified and does not verify it again; an   *)
(* entry that is gone by then makes it fail.                                 *)

authenticate_human_owner(d, c) == IF Live(d, c.as) THEN d ELSE Refused

create_human_session(d, c) ==
    Put(d, <<"recovery", c.n>>, [New("active", In(c.seen[1], c.as)) EXCEPT !.by = c.as])

Recovery(c) == IF c.as[1] = "recovery" THEN c.as ELSE c.of

authenticate_human_session(d, c) ==
    IF Live(d, Recovery(c)) /\ Recovery(c) \notin c.late THEN d ELSE Refused

reauthenticate_human_session(d, c) ==
    IF c.of \in DOMAIN d /\ c.seen[2][c.of].by = c.as
    THEN [d EXCEPT ![c.of].rev = 1] ELSE Refused

revoke_human_session(d, c) ==
    IF c.of \in DOMAIN d THEN Mark(d, {c.of}, "revoked") ELSE Refused

---------------------------------------------------------------------------
(* Ownership proofs and human accounts. *)

create_company_master_proof(d, c) ==
    Put(d, <<"proof", c.n>>, [New("issued", In(c.seen[1], c.as)) EXCEPT !.by = c.as])

ProofAccepted(d, c, p) == Status(d, p) = "issued" /\ p \notin c.late

\* What a call that shows an overdue proof saves.
ProofExpired(d, c, p) ==
    IF Status(d, p) = "issued" /\ p \in c.late THEN Mark(d, {p}, "expired") ELSE Refused

AuthorityMade(d, c, p, human, role) ==
    Mark(Put(d, <<"authority", c.n>>,
             [New("active", d[p].in) EXCEPT !.by = human, !.to = p, !.val = <<role>>]),
         {p}, "consumed")

UsernameTaken(d, name) == \E k \in Section(d, "human") : d[k].val = <<name>>

AccountMade(d, c) == Put(d, <<"human", c.n>>, [New("active", Nobody) EXCEPT !.val = <<c.how>>])

create_human_account(d, c) ==
    IF ProofAccepted(d, c, c.as) /\ ~UsernameTaken(d, c.how)
    THEN AuthorityMade(AccountMade(d, c), c, c.as, <<"human", c.n>>, "owner")
    ELSE ProofExpired(d, c, c.as)

SessionOf(human) == New("active", human)

create_human_account_with_session(d, c) ==
    LET e == create_human_account(d, c)
    IN IF ProofAccepted(d, c, c.as) /\ ~UsernameTaken(d, c.how)
       THEN Put(e, <<"session", c.n>>, SessionOf(<<"human", c.n>>)) ELSE e

\* The account is looked up by a load of its own before the session is written.
login_human_account(d, c) ==
    LET found == {k \in Section(c.seen[1], "human") : /\ c.seen[1][k].val = <<c.how>>
                                                      /\ c.seen[1][k].status = "active"}
    IN IF found = {} THEN Refused
       ELSE Put(d, <<"session", c.n>>, SessionOf(CHOOSE k \in found : TRUE))

open_host_local_human_session(d, c) ==
    LET found == {k \in Section(d, "human") : d[k].val = <<c.how>> /\ d[k].status = "active"}
    IN IF found = {} THEN Refused
       ELSE Put(d, <<"session", c.n>>, SessionOf(CHOOSE k \in found : TRUE))

SelectionHolds(d, s) ==
    d[s].by \notin DOMAIN d \/ d[d[s].by].by = d[s].in

SessionAccepted(d, c, s) ==
    Live(d, s) /\ s \notin c.late /\ Live(d, d[s].in) /\ SelectionHolds(d, s)

authenticate_human_account_session(d, c) ==
    IF SessionAccepted(d, c, c.as) THEN d ELSE Refused

\* The verifier itself is not told apart here.
rotate_human_account_session_csrf(d, c) == IF Live(d, c.as) THEN d ELSE Refused

reauthenticate_human_account_session(d, c) ==
    IF c.as \in DOMAIN d THEN [d EXCEPT ![c.as].rev = 1] ELSE Refused

Successor(d, c, authority, reauthenticated) ==
    Put(Mark(d, {c.as}, "revoked"), <<"session", c.n>>,
        [d[c.as] EXCEPT !.status = "active", !.by = authority, !.to = c.as,
                        !.rev = reauthenticated])

reauthenticate_and_rotate_human_account_session(d, c) ==
    IF Live(d, c.as) THEN Successor(d, c, d[c.as].by, 1) ELSE Refused

logout_human_account(d, c) ==
    IF c.as \in DOMAIN d THEN Mark(d, {c.as}, "revoked") ELSE Refused

Recent(d, c, s) == d[s].rev = 1 /\ <<"recent", s[2]>> \notin c.late

\* of is the proof, as the session.
prove_and_link_company_master(d, c) ==
    LET human == c.seen[1][c.as].in
        linked == \E k \in Section(d, "authority") :
                     d[k].by = human /\ d[k].in = d[c.of].in
    IN IF Recent(c.seen[1], Then(c), c.as) /\ ProofAccepted(d, c, c.of) /\ ~linked
       THEN AuthorityMade(d, c, c.of, human, c.how)
       ELSE IF Recent(c.seen[1], Then(c), c.as) THEN ProofExpired(d, c, c.of) ELSE Refused

\* The session was accepted before; whether it still stands is not asked again.
select_human_company_membership(d, c) ==
    IF /\ c.of \in DOMAIN d /\ d[c.of].by = c.seen[1][c.as].in
       /\ c.as \in DOMAIN d
    THEN Successor(d, c, c.of, d[c.as].rev) ELSE Refused

---------------------------------------------------------------------------
(* What a session may do for its company. *)

Role(d, s) == IF d[s].by \in DOMAIN d THEN d[d[s].by].val[1] ELSE "none"

_management_human_session(d, c) ==
    c.as[1] = "session" /\ SessionAccepted(d, c, c.as) /\ Role(d, c.as) = "owner"

_recovery_closure_human_session(d, c) ==
    c.as[1] = "recovery" /\ Live(d, c.as) /\ c.as \notin c.late /\ Recent(d, c, c.as)

_credential_management_human_session(d, c) ==
    c.as[1] = "session" /\ SessionAccepted(d, c, c.as)
    /\ Role(d, c.as) \in {"owner", "credential_admin"}

ManagedCompany(d, s) == IF s[1] = "session" THEN In(d, d[s].by) ELSE d[s].in

set_human_top_level_agent_master_credential_setting(d, c) ==
    IF /\ _credential_management_human_session(c.seen[1], Then(c))
       /\ ManagedCompany(c.seen[1], c.as) = c.of
       /\ c.of \in DOMAIN d
    THEN [d EXCEPT ![c.of].val = <<c.how, @[2]>>] ELSE Refused

\* Session, authority and company are checked in the section that writes.
_human_operational_session_data(d, c) ==
    /\ SessionAccepted(d, c, c.as)
    /\ d[c.as].by \in DOMAIN d
    /\ Live(d, ManagedCompany(d, c.as))

ContextKey(s) == <<"context", s>>

human_operational_context(d, c) ==
    IF _human_operational_session_data(d, c) /\ ContextKey(c.as) \notin DOMAIN d
    THEN Put(d, ContextKey(c.as),
             [New("blank", ManagedCompany(d, c.as)) EXCEPT !.by = d[c.as].by, !.rev = c.n])
    ELSE Refused

\* of is the project asked for, in its workspace; the version the caller
\* expects is the one of the context it has read (seen[1]).
transition_human_operational_context(d, c) ==
    LET o == ManagedCompany(d, c.as)
        next == Successor(d, c, d[c.as].by, d[c.as].rev)
        read == IF ContextKey(c.as) \in DOMAIN c.seen[1]
                THEN c.seen[1][ContextKey(c.as)].rev ELSE 0
        held == IF ContextKey(c.as) \in DOMAIN d THEN d[ContextKey(c.as)].rev ELSE 0
    IN IF /\ _human_operational_session_data(d, c)
          /\ held /= 0 /\ read = held
          /\ Live(d, c.in) /\ d[c.in].in = o
          /\ Live(d, c.of) /\ d[c.of].in = c.in
       THEN Put(next, ContextKey(<<"session", c.n>>),
                [New("chosen", c.of) EXCEPT !.by = d[c.as].by, !.rev = c.n])
       ELSE Refused

submit_human_operational_memory(d, c) ==
    LET context == ContextKey(c.as)
        reserved == <<"idem", <<"human-memory", c.key>>>>
    IN IF /\ _human_operational_session_data(d, c)
          /\ Status(d, context) = "chosen"
          /\ context \in DOMAIN c.seen[1] /\ c.seen[1][context].rev = d[context].rev
          /\ Role(d, c.as) = "owner"
          /\ reserved \notin DOMAIN d
       THEN Put(submit_memory(d, [c EXCEPT !.in = In(d, d[context].in), !.as = d[c.as].in]),
                reserved, [New("recorded", In(d, d[context].in)) EXCEPT !.by = <<"memory", c.n>>])
       ELSE Refused

---------------------------------------------------------------------------
(* The life of a company. *)

record_company_export_receipt(d, c) ==
    IF _management_human_session(c.seen[1], Then(c))
    THEN Put(d, <<"exportreceipt", c.n>>, New("kept", ManagedCompany(c.seen[1], c.as)))
    ELSE Refused

create_company_closure_intent(d, c) ==
    LET before == c.seen[1]  o == ManagedCompany(before, c.as)
    IN IF /\ \/ _management_human_session(before, Then(c)) /\ Recent(before, Then(c), c.as)
             \/ _recovery_closure_human_session(before, Then(c)) /\ c.how = "close"
          /\ o \in DOMAIN d
          /\ c.how = "permanent_purge" => d[o].status \in {"closed", "soft_deleted"}
       THEN Put(d, <<"intent", c.n>>, [New("pending", o) EXCEPT !.by = c.as, !.val = <<c.how>>])
       ELSE Refused

\* of is the intent; o the company of the session.
IntentHolds(d, c, o, purpose) ==
    /\ Status(d, c.of) = "pending" /\ c.of \notin c.late
    /\ d[c.of].in = o /\ d[c.of].by = c.as /\ d[c.of].val = <<purpose>>

MayClose(c) ==
    \/ _management_human_session(c.seen[1], Then(c)) /\ Recent(c.seen[1], Then(c), c.as)
    \/ _recovery_closure_human_session(c.seen[1], Then(c))

Scopes(d, o) == {o} \cup Within(d, "workspace", o) \cup Within(d, "project", o)

EndedPairings == {"revoked", "disconnected", "canceled", "expired"}

\* What ends with the company.
EndsAtClosure(d, o) ==
    {k \in Within(d, "master", o) : d[k].status = "active"}
      \cup Within(d, "grant", o)
      \cup {k \in Within(d, "token", o) : d[k].status = "active"}
      \cup {k \in Within(d, "invite", o) : d[k].status = "issued"}
      \cup {k \in Within(d, "pairing", o) : d[k].status \notin EndedPairings}
      \cup {k \in Within(d, "credential", o) :
              d[k].status \notin {"revoked", "superseded", "expired"}}

close_company(d, c) ==
    LET o == ManagedCompany(c.seen[1], c.as)
    IN IF MayClose(c) /\ IntentHolds(d, c, o, "close") /\ o \in DOMAIN d
       THEN Mark(Mark(Mark(d, EndsAtClosure(d, o), "revoked"), Scopes(d, o), "closed"),
                 {c.of}, "consumed")
       ELSE Refused

soft_delete_company(d, c) ==
    LET o == ManagedCompany(c.seen[1], c.as)
        e == Mark(Mark(d, Scopes(d, o), "soft_deleted"), {c.of}, "consumed")
    IN IF /\ _management_human_session(c.seen[1], Then(c)) /\ Recent(c.seen[1], Then(c), c.as)
          /\ IntentHolds(d, c, o, "soft_delete")
          /\ o \in DOMAIN d
       THEN [e EXCEPT ![o].val = <<@[1], d[o].status>>] ELSE Refused

restore_company(d, c) ==
    LET o == ManagedCompany(c.seen[1], c.as)
        prior == IF d[o].val[2] = "none" THEN "active" ELSE d[o].val[2]
    IN IF _management_human_session(c.seen[1], Then(c)) /\ Status(d, o) = "soft_deleted"
       THEN [Mark(d, Scopes(d, o), prior) EXCEPT ![o].val = <<@[1], "none">>] ELSE Refused

\* to is the export receipt; how says "no_export" when that is acknowledged.
permanently_purge_company(d, c) ==
    LET o == ManagedCompany(c.seen[1], c.as)
        inside == {k \in DOMAIN d : o \in Ancestors(d, k)}
        kept == {d[k].by : k \in Section(d, "company") \ inside}
        gone == inside \cup (Section(d, "account") \ kept)
        left == Drop(d, gone)
    IN IF /\ _management_human_session(c.seen[1], Then(c)) /\ Recent(c.seen[1], Then(c), c.as)
          /\ Status(d, o) \in {"closed", "soft_deleted"}
          /\ IntentHolds(d, c, o, "permanent_purge")
          /\ In(d, c.to) = o \/ c.how = "no_export"
       THEN [k \in DOMAIN left |->
               IF k[1] = "session" /\ left[k].by \in gone
               THEN [left[k] EXCEPT !.by = Nobody] ELSE left[k]]
       ELSE Refused

=============================================================================
