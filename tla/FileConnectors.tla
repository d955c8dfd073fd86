--------------------------- MODULE FileConnectors ---------------------------
(***************************************************************************)
(* The methods of FileStore by which a desktop connector is paired with a   *)
(* company: request, approval, authorization code, exchange, activation,    *)
(* rotation, and every way a pairing ends.                                  *)
(*                                                                          *)
(* A pairing request lies in the company that approved it, to is the        *)
(* workspace, by the key it was created under and val <<agent name, whether *)
(* the workspace is provisional>>; a pairing lies in the company, to is its *)
(* request, by its current credential and val <<workspace, agent name,      *)
(* provisional, revocation key>>; a credential lies under its pairing; a    *)
(* rotation lies under the pairing, by is the predecessor, to the successor *)
(* and val the key it was prepared under.                                   *)
(***************************************************************************)
EXTENDS FileAgents

---------------------------------------------------------------------------
(* Deadlines. *)

Unapproved == {"pending_human_approval"}
Unclaimed == {"approved", "authorization_code_issued"}

RunOut(d, s, statuses, late) ==
    {k \in Section(d, s) \cap late : d[k].status \in statuses}

Expired(d, late) ==
    LET pairings == RunOut(d, "pairing", {"pending_activation"}, late)
        rotations == RunOut(d, "rotation", {"pending_activation"}, late)
        credentials == {k \in Section(d, "credential") :
                          /\ d[k].status = "pending_activation"
                          /\ d[k].in \in pairings \/ \E r \in rotations : d[r].to = k}
        codes == RunOut(d, "pairrequest", Unclaimed, late)
        requests == RunOut(d, "pairrequest", Unapproved, late)
    IN Mark(Mark(d, codes, "authorization_code_expired"),
            pairings \cup rotations \cup credentials \cup requests, "expired")

expire_connector_pairings(d, c) ==
    IF Expired(d, c.late) = d THEN Refused ELSE Expired(d, c.late)

\* late holds the pairings that ended more than the retention ago.
purge_abandoned_connector_pairings(d, c) ==
    LET over == RunOut(d, "pairing", {"canceled", "expired"}, c.late)
        theirs == {k \in Section(d, "credential") \cup Section(d, "rotation") : d[k].in \in over}
    IN IF over = {} THEN Refused ELSE Drop(d, over \cup theirs \cup {d[k].to : k \in over})

---------------------------------------------------------------------------
(* Requests. *)

\* key is the idempotency key, how the name asked for.
create_connector_pairing_request(d, c) ==
    IF \E k \in Section(d, "pairrequest") : d[k].by = c.key THEN Refused
    ELSE Put(d, <<"pairrequest", c.n>>,
             [New("pending_human_approval", Nobody) EXCEPT !.by = c.key, !.val = <<c.how, FALSE>>])

NameHeld(d, o, name) == \E k \in Named(d, o, name) : Live(d, k)

NameClaimed(d, o, r, name) ==
    \E k \in Section(d, "pairrequest") \ {r} :
       /\ d[k].in = o /\ d[k].val[1] = name
       /\ d[k].status \in Unclaimed \cup {"exchanged", "active"}

\* in is the workspace chosen, Nobody for a new one.
approve_connector_pairing_request(d, c) ==
    LET o == ManagedCompany(c.seen[1], c.as)
        chosen == IF c.in = Nobody THEN <<"workspace", c.n>> ELSE c.in
    IN IF ~(ManagesCredentials(c) /\ Status(d, c.of) = "pending_human_approval") THEN Refused
       ELSE IF c.of \in c.late THEN Mark(d, {c.of}, "expired")
       ELSE IF /\ ~NameHeld(d, o, d[c.of].val[1])
               /\ ~NameClaimed(d, o, c.of, d[c.of].val[1])
               /\ c.in = Nobody \/ (Live(d, c.in) /\ d[c.in].in = o)
       THEN [d EXCEPT ![c.of].status = "approved", ![c.of].in = o, ![c.of].to = chosen,
                      ![c.of].val = <<@[1], c.in = Nobody>>]
       ELSE Refused

\* A claim that finds the code issued already gives the same code again.
claim_connector_authorization_code(d, c) ==
    CASE Status(d, c.of) = "pending_human_approval" /\ c.of \in c.late ->
           Mark(d, {c.of}, "expired")
      [] Status(d, c.of) \in Unclaimed /\ c.of \in c.late ->
           Mark(d, {c.of}, "authorization_code_expired")
      [] Status(d, c.of) = "approved" /\ c.of \notin c.late ->
           Mark(d, {c.of}, "authorization_code_issued")
      [] OTHER -> Refused

exchange_connector_authorization_code(d, c) ==
    LET pairing == <<"pairing", c.n>>  credential == <<"credential", c.n>>
        request == d[c.of]
    IN IF Status(d, c.of) /= "authorization_code_issued" THEN Refused
       ELSE IF c.of \in c.late THEN Mark(d, {c.of}, "authorization_code_expired")
       ELSE Put(Put(Mark(d, {c.of}, "exchanged"), credential,
                    New("pending_activation", pairing)),
                pairing, [New("pending_activation", request.in)
                            EXCEPT !.to = c.of, !.by = credential,
                                   !.val = <<request.to, request.val[1], request.val[2], Nobody>>])

cancel_connector_pairing_request(d, c) ==
    IF /\ ManagesCredentials(c)
       /\ Status(d, c.of) = "pending_human_approval"
       /\ d[c.of].in \in {Nobody, ManagedCompany(c.seen[1], c.as)}
    THEN Mark(d, {c.of}, IF c.of \in c.late THEN "expired" ELSE "canceled") ELSE Refused

\* The page an owner opens shows a request, and saves that it ran out.
connector_pairing_authorization_context(d, c) ==
    IF /\ _credential_management_human_session(c.seen[1], Then(c))
       /\ Status(d, c.of) = "pending_human_approval" /\ c.of \in c.late
    THEN Mark(d, {c.of}, "expired") ELSE Refused

\* Selected from the page of a request that did not run out; of is the authority.
select_human_connector_company_membership(d, c) ==
    IF \E r \in Section(c.seen[1], "pairrequest") :
          c.seen[1][r].status /= "expired" /\ Live(c.seen[1], In(c.seen[1], c.of))
    THEN select_human_company_membership(d, c) ELSE Refused

---------------------------------------------------------------------------
(* The life of a pairing.  as is the credential the connector shows.        *)

\* connector_pairing_status, connector_workspace_readback and
\* confirm_connector_agent_registration answer from what this one finds.
ConnectorAccepted(d, k, pending) ==
    /\ k \in DOMAIN d /\ d[k].in \in DOMAIN d
    /\ LET p == d[k].in
       IN /\ Live(d, d[p].in)
          /\ \/ Live(d, k) /\ Live(d, p)
             \/ pending /\ \/ d[k].status = "pending_activation"
                              /\ d[p].status \in {"pending_activation", "active"}
                           \/ d[k].status = "canceled" /\ d[p].status = "canceled"

authenticate_connector_token(d, c) ==
    IF ConnectorAccepted(d, c.as, c.op \in {"disconnect_connector_pairing",
                                            "cancel_connector_pairing"})
    THEN d ELSE Refused

activate_connector_pairing(d, c) ==
    LET p == c.of  w == d[p].val[1]  name == d[p].val[2]  o == d[p].in
        project == <<"project", p[2]>>
        placed == IF d[p].val[3]
                  THEN _ensure_default_meeting_rooms(
                         Put(Put(d, w, New("active", o)), project, New("active", w)), w)
                  ELSE d
    IN IF ~(/\ In(d, c.as) = p /\ Status(d, p) = "pending_activation"
            /\ d[c.as].status = "pending_activation")
       THEN Refused
       ELSE IF p \in c.late THEN Mark(d, {p, c.as}, "expired")
       ELSE IF /\ Live(d, o) /\ ~NameHeld(d, o, name)
               /\ d[p].val[3] => {w, project} \cap DOMAIN d = {}
               /\ Live(placed, w) /\ placed[w].in = o
       THEN Mark(Put(Put(placed, <<"identity", c.n>>, [New("active", o) EXCEPT !.val = <<name>>]),
                     <<"agent", name>>, New("active", w)),
                 {p, c.as, d[p].to}, "active")
       ELSE Refused

\* Authenticated in a section of its own; the pairing alone is looked at again.
prepare_connector_rotation(d, c) ==
    LET p == c.of
        mine == {r \in Section(d, "rotation") : d[r].in = p}
    IN IF /\ Live(d, p)
          /\ \A r \in mine : d[r].val /= <<c.key>> /\ d[r].status /= "pending_activation"
       THEN Put(Put(d, <<"credential", c.n>>, New("pending_activation", p)),
                <<"rotation", c.n>>,
                [New("pending_activation", p)
                   EXCEPT !.by = d[p].by, !.to = <<"credential", c.n>>, !.val = <<c.key>>])
       ELSE Refused

\* of is the rotation, as its successor.
activate_connector_rotation(d, c) ==
    LET r == c.of  p == d[r].in
    IN IF ~(/\ Status(d, r) = "pending_activation" /\ d[r].to = c.as
            /\ Status(d, c.as) = "pending_activation")
       THEN Refused
       ELSE IF r \in c.late THEN Mark(d, {r, c.as}, "expired")
       ELSE IF Live(d, d[r].by) /\ Live(d, p)
       THEN [Mark(Mark(d, {r, c.as}, "active"), {d[r].by}, "superseded") EXCEPT ![p].by = c.as]
       ELSE Refused

---------------------------------------------------------------------------
(* How a pairing ends. *)

Of(d, p) == {k \in Section(d, "credential") : d[k].in = p}

Ends(d, p, status, kept) ==
    LET theirs == {k \in Of(d, p) : d[k].status \notin kept}
    IN Mark(d, {p} \cup theirs, status)

\* A revocation under another key is recorded over the one before.
revoke_connector_pairing(d, c) ==
    IF /\ In(d, c.of) = OfMaster(c)
       /\ d[c.of].status \notin {"disconnected", "canceled", "expired"}
       /\ d[c.of].val[4] /= c.key
    THEN [Ends(d, c.of, "revoked", {"revoked", "superseded", "expired"})
            EXCEPT ![c.of].val[4] = c.key]
    ELSE Refused

disconnect_connector_pairing(d, c) ==
    IF /\ Live(c.seen[1], c.as) /\ Live(c.seen[1], c.of)
       /\ Live(d, c.of)
    THEN Ends(d, c.of, "disconnected", {"superseded", "expired"})
    ELSE Refused

cancel_connector_pairing(d, c) ==
    IF /\ ConnectorAccepted(c.seen[1], c.as, TRUE)
       /\ c.seen[1][c.as].status = "pending_activation"
       /\ Status(d, c.of) = "pending_activation"
    THEN LET e == Mark(d, {c.of} \cup {k \in Of(d, c.of) : d[k].status = "pending_activation"},
                       "canceled")
         IN Mark(e, {d[c.of].to} \cap DOMAIN d, "canceled")
    ELSE Refused

=============================================================================
