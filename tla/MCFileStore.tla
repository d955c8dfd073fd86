----------------------------- MODULE MCFileStore -----------------------------
(***************************************************************************)
(* Situations for TLC.  Each lane starts from a document that the methods   *)
(* themselves made, call by call, offers a few calls, and lets a few of     *)
(* them arrive at two workers.                                              *)
(***************************************************************************)
EXTENDS FilePromises

CONSTANTS w1, w2

MCWorkers == {w1, w2}
Symmetric == Permutations(MCWorkers)

K(op) == [NoCall EXCEPT !.op = op]
By(op, as) == [K(op) EXCEPT !.as = as]
On(op, as, of) == [K(op) EXCEPT !.as = as, !.of = of]
InW(op, as, of) == [On(op, as, of) EXCEPT !.in = <<"workspace", 101>>]
How(c, how) == [c EXCEPT !.how = how]
To(c, to) == [c EXCEPT !.to = to]
Body(c, n) == [c EXCEPT !.body = n]
Key(c, n) == [c EXCEPT !.key = <<"key", n>>]

\* What clients choose has numbers over 100, what calls generate the call's number.
MCNobody == <<"nobody", 0>>

W == <<"workspace", 101>>
O == <<"company", 101>>
P == <<"project", 101>>
M == <<"master", 101>>
Ag(n) == <<"agent", n>>

Bootstrap(x, k) == Body(Key(On("create_bootstrap_account", Nobody, <<"setup", 100 + x>>), k), 100 + x)

\* 1 the account; 2, 3, 4 its owner's proof, account and session; 5 the password again.
S == <<"session", 4>>
Owner == << Bootstrap(1, 1),
            By("create_company_master_proof", M),
            How(By("create_human_account_with_session", <<"proof", 2>>), 1),
            On("select_human_company_membership", <<"session", 3>>, <<"authority", 3>>),
            By("reauthenticate_human_account_session", S) >>

Agents == << Bootstrap(1, 1), InW("register_agent", Ag(1), Nobody),
             InW("register_agent", Ag(2), Nobody) >>

Lane(name, start, calls, bound) ==
    [name |-> name, start |-> start, calls |-> calls, bound |-> bound, over |-> {},
     processes |-> 1, inPlace |-> FALSE, crashes |-> FALSE]
Over(l, K0) == [l EXCEPT !.over = K0]
Apart(l) == [l EXCEPT !.processes = 2]

---------------------------------------------------------------------------
(* The workspace. *)

Hall == Room(W, W)
GoalRoom == Room(W, <<"goal", 1>>)

Rooms == Over(Lane("rooms",
    Agents \o << InW("submit_meeting_message", Ag(1), Hall),
                 To(InW("submit_routing_decision", Ag(1), Hall), Room(W, P)) >>,
    { InW("create_meeting_room", Ag(1), <<"goal", 1>>),
      InW("submit_meeting_message", Ag(2), GoalRoom),
      To(InW("submit_routing_decision", Ag(2), Hall), Room(W, P)),
      InW("mark_meeting_room_read", Ag(1), Hall),
      To(InW("mark_meeting_room_read", Ag(2), Hall), <<"meeting", 4>>),
      InW("meeting_rooms", Ag(1), Nobody) }, 2),
    {<<"meeting", 4>>, <<"meeting", 5>>})

Link == <<"link", 1>>

Documents == Lane("documents",
    Agents \o << InW("upsert_knowledge_document", Ag(1), <<"knowledge", 1>>) >>,
    { InW("upsert_project", Ag(1), <<"project", 102>>),
      To(InW("upsert_knowledge_document", Ag(1), <<"knowledge", 1>>), <<"knowledge", 2>>),
      InW("upsert_knowledge_document", Ag(2), <<"knowledge", 2>>),
      Body(How(InW("upsert_knowledge_document", Ag(2), <<"knowledge", 2>>), "project"), 102),
      Body(How(InW("upsert_external_link", Ag(1), Link), "reviewed"), 1),
      To(Body(How(InW("upsert_external_link", Ag(2), Link), "unreviewed"), 2),
         <<"knowledge", 1>>),
      InW("audit_log", Ag(1), Nobody), InW("record_audit", Ag(1), Nobody) }, 2)

D1 == <<"device", 1>>
Note == <<"syncmemory", 1>>
Sync(how, parent, epoch) ==
    Body(To(How(InW("submit_sync_mutation", D1, Note), how), parent), epoch)

Devices == Lane("devices",
    << Bootstrap(1, 1), InW("register_sync_device", Ag(1), D1),
       Sync("upsert", Nobody, 1) >>,
    { InW("register_sync_device", Ag(1), D1), InW("rotate_sync_device", Ag(1), D1),
      InW("revoke_sync_device", Ag(1), D1),
      Sync("upsert", <<"revision", 3>>, 1), Sync("delete", <<"revision", 3>>, 1),
      Sync("upsert", <<"revision", 4>>, 1), Sync("hard_forget", Nobody, 1) }, 3)

Record(n, path, body) == Body(How(InW("upsert_uai_record", Ag(n), Nobody), path), body)

Packages == Lane("packages",
    Agents,
    { How(InW("create_uai_package", Ag(1), Nobody), "accountless_browser_ai"),
      Record(1, "first", 1), Record(1, "first", 2), Record(1, "second", 1) }, 4)

Path1 == <<"uaihead", <<P, 1>>>>
Claims == Over(Lane("claims",
    Agents \o << Body(InW("acquire_uai_edit_claim", Ag(1), Path1), 1) >>,
    { Body(InW("acquire_uai_edit_claim", Ag(2), Path1), 1),
      InW("heartbeat_uai_edit_claim", Ag(1), <<"claim", 4>>),
      Body(InW("complete_uai_edit_claim", Ag(1), <<"claim", 4>>), 2),
      InW("release_uai_edit_claim", Ag(1), <<"claim", 4>>),
      InW("release_uai_edit_claim", Ag(2), <<"claim", 5>>),
      InW("uai_edit_claims", Ag(2), Nobody) }, 3), {<<"claim", 4>>})

Reviews == Lane("reviews",
    Agents \o << InW("submit_memory", Ag(1), Nobody) >>,
    { How(InW("submit_memory", Ag(2), Nobody), "quarantine_for_review"),
      How(InW("decide_review", Ag(1), <<"review", 4>>), "promote"),
      How(InW("decide_review", Ag(1), <<"review", 4>>), "reject"),
      How(InW("decide_review", Ag(2), <<"review", 5>>), "approve"),
      How(InW("decide_review", Ag(2), <<"review", 4>>), "quarantine") }, 3)

Messages == Over(Lane("messages",
    Agents \o << InW("submit_message", Ag(1), Nobody) >>,
    { To(InW("submit_message", Ag(2), Nobody), Ag(1)),
      InW("submit_message", Ag(1), Nobody),
      InW("ack", Ag(2), <<"notification", <<4, Ag(2)>>>>),
      InW("ack", Ag(1), <<"notification", <<5, Ag(1)>>>>),
      By("authenticate_company_master", M) }, 3), {<<"message", 4>>})

\* A route that reserves its key, twice under one key, and another one.
Reserved(n, body) ==
    Body([InW("submit_memory", Ag(1), Nobody)
            EXCEPT !.key = <<"idem", <<"route", Ag(1), <<"key", n>>>>>>], body)

Retries == Lane("retries", Agents,
    { Reserved(1, 1), Reserved(1, 2), Reserved(2, 1),
      [Body(InW("create_uai_package", Ag(3), Nobody), 1)
         EXCEPT !.key = <<"idem", <<"route", Ag(1), <<"key", 3>>>>>>] }, 2)

---------------------------------------------------------------------------
(* Guards. *)

Source(n) == <<"rate", <<"source", n>>>>
Whole == <<"rate", <<"project", 1>>>>
Layered(n) == To(On("consume_commons_layered_rate_limit", Nobody, Source(n)), Whole)

Limits == Apart(Over(Lane("limits", <<>>,
    { Layered(1), Layered(2), Layered(3) }, 4), {Source(1), Whole}))

Windows == Over(Lane("windows", <<>>,
    { On("consume_connector_rate_limit", Nobody, Whole),
      On("consume_connector_rate_limit", Nobody, <<"rate", <<"code", 1>>>>) }, 4), {Whole})

Mcp(op, as, of) == [To(InW(op, as, of), P) EXCEPT !.body = 1]
Server == <<"server", 4>>
Human == <<"human", 1>>

Outbound == Lane("outbound",
    Agents \o << How(Mcp("create_outbound_mcp_server", Ag(1), Nobody), "human_required") >>,
    { How(Mcp("set_outbound_mcp_project_policy", Ag(2), Nobody), "blocked"),
      How(Mcp("set_outbound_mcp_project_policy", Human, Nobody), "autonomous"),
      How(Mcp("update_outbound_mcp_server", Ag(1), Server), "autonomous"),
      Mcp("disable_outbound_mcp_server", Ag(1), Server),
      How(Mcp("set_outbound_mcp_server_approval", Human, Server), "approved"),
      Mcp("record_outbound_mcp_authorization_decision", Ag(1), Server) }, 2)

Checks == Lane("checks",
    Agents \o << How(Mcp("create_outbound_mcp_server", Ag(1), Nobody), "autonomous") >>,
    { How([Mcp("set_outbound_mcp_project_policy", Nobody, Nobody) EXCEPT !.as = Nobody], "blocked"),
      How(Mcp("update_outbound_mcp_server", Ag(1), Server), "human_required"),
      Mcp("disable_outbound_mcp_server", Ag(1), Server),
      Mcp("record_outbound_mcp_authorization_decision", Ag(1), Server) }, 3)

---------------------------------------------------------------------------
(* Accounts, masters and sessions. *)

Founding == Apart(Over(Lane("founding", <<>>,
    { Bootstrap(1, 1), Body(Bootstrap(1, 1), 102), Bootstrap(2, 1), Bootstrap(2, 2) }, 3),
    {<<"setup", 101>>}))

NewMaster(as, n) == InW("delegate_company_master_credential", as, <<"master", n>>)

\* 2 to 5: an agent of the whole company.
TopAgent == << Bootstrap(1, 1),
    How([On("request_agent_access", Nobody, O) EXCEPT !.in = O], 7),
    How(On("decide_agent_access_request", M, <<"request", 2>>), "approved"),
    On("issue_agent_invite", M, <<"request", 2>>),
    Key(To(On("redeem_agent_invite", Nobody, <<"invite", 4>>), <<"token", 101>>), 5) >>
T1 == <<"token", 101>>

Masters == Lane("masters", TopAgent,
    { Key(NewMaster(M, 111), 1), Key(NewMaster(M, 112), 2), Key(NewMaster(<<"master", 111>>, 113), 1),
      Key(InW("register_top_level_agent_company_master_credential", T1, <<"master", 114>>), 1),
      On("bootstrap_company_master_token", Nobody, O),
      By("create_free_account", Nobody),
      On("revoke_agent_token", M, T1) }, 3)

Recovering == Over(Lane("recovering",
    << Bootstrap(1, 1), By("create_human_session", <<"humancred", 101>>),
       On("reauthenticate_human_session", <<"humancred", 101>>, <<"recovery", 2>>),
       How(By("create_company_closure_intent", <<"recovery", 2>>), "close") >>,
    { By("create_human_session", <<"humancred", 101>>),
      On("reauthenticate_human_session", <<"humancred", 101>>, <<"recovery", 2>>),
      On("revoke_human_session", <<"humancred", 101>>, <<"recovery", 2>>),
      On("close_company", <<"recovery", 2>>, <<"intent", 4>>),
      Key(NewMaster(M, 111), 1) }, 3), {<<"recovery", 2>>, <<"intent", 4>>})

Proofs == Over(Lane("proofs",
    << Bootstrap(1, 1), By("create_company_master_proof", M),
       By("create_company_master_proof", M) >>,
    { How(By("create_human_account", <<"proof", 2>>), 1),
      How(By("create_human_account_with_session", <<"proof", 3>>), 1),
      How(By("create_human_account_with_session", <<"proof", 3>>), 2),
      How(By("create_human_account", <<"proof", 3>>), 3),
      By("create_company_master_proof", M) }, 3), {<<"proof", 3>>})

Sessions == Over(Lane("sessions", Owner \o << By("create_company_master_proof", M) >>,
    { How(K("login_human_account"), 1), How(K("open_host_local_human_session"), 1),
      By("rotate_human_account_session_csrf", S),
      By("reauthenticate_human_account_session", S),
      By("reauthenticate_and_rotate_human_account_session", S),
      By("logout_human_account", S),
      How(On("prove_and_link_company_master", S, <<"proof", 6>>), "auditor"),
      On("select_human_company_membership", S, <<"authority", 3>>) }, 2),
    {S, <<"recent", 4>>, <<"proof", 6>>})

Consoles == Over(Lane("consoles", Owner \o << By("human_operational_context", S) >>,
    { InW("transition_human_operational_context", S, P),
      Key(InW("submit_human_operational_memory", <<"session", 7>>, Nobody), 1),
      By("human_operational_context", S),
      How(On("set_human_top_level_agent_master_credential_setting", S, O), "off"),
      By("logout_human_account", S) }, 3), {S})

Memories == Lane("memories", Owner \o << By("human_operational_context", S),
                                         InW("transition_human_operational_context", S, P) >>,
    { Key(InW("submit_human_operational_memory", <<"session", 7>>, Nobody), 1),
      Key(InW("submit_human_operational_memory", <<"session", 7>>, Nobody), 2),
      InW("transition_human_operational_context", <<"session", 7>>, P),
      By("logout_human_account", <<"session", 7>>) }, 2)

---------------------------------------------------------------------------
(* The life of a company, beside the credentials it ends. *)

Intent(how) == How(By("create_company_closure_intent", S), how)

Closing == Over(Lane("closing",
    Owner \o << Intent("close"), Intent("soft_delete") >>,
    { On("close_company", S, <<"intent", 6>>),
      On("soft_delete_company", S, <<"intent", 7>>),
      By("restore_company", S),
      Intent("permanent_purge"),
      Key(NewMaster(M, 111), 1),
      InW("upsert_project", Ag(1), P) }, 3), {<<"intent", 6>>, <<"recent", 4>>})

Purging == Lane("purging",
    Owner \o << Intent("close"), On("close_company", S, <<"intent", 6>>),
                Intent("permanent_purge"), By("record_company_export_receipt", S) >>,
    { How(On("permanently_purge_company", S, <<"intent", 8>>), "no_export"),
      To(On("permanently_purge_company", S, <<"intent", 8>>), <<"exportreceipt", 9>>),
      By("record_company_export_receipt", S),
      By("create_company_master_proof", M),
      InW("submit_memory", Ag(1), Nobody),
      Bootstrap(1, 1) }, 3)

Request(scope, name) == How([On("request_agent_access", Nobody, scope) EXCEPT !.in = O], name)
Approve(n) == How(On("decide_agent_access_request", M, <<"request", n>>), "approved")

Inviting == Over(Lane("inviting",
    << Bootstrap(1, 1), Request(W, 7), Approve(2), On("issue_agent_invite", M, <<"request", 2>>) >>,
    { Key(To(On("redeem_agent_invite", Nobody, <<"invite", 4>>), T1), 5),
      Key(To(On("redeem_agent_invite", Nobody, <<"invite", 4>>), <<"token", 102>>), 6),
      On("issue_agent_invite", M, <<"request", 2>>),
      On("revoke_agent_invite", M, <<"invite", 4>>),
      Key(To(On("redeem_agent_invite", Nobody, <<"invite", 5>>), T1), 5) }, 3), {<<"invite", 4>>})

Requesting == Lane("requesting", TopAgent,
    { Request(P, 7), Request(P, 8),
      To(Request(O, 7), T1), [Request(P, 7) EXCEPT !.as = T1],
      Approve(6), How(Approve(7), "denied"), On("deny_agent_access_request", M, <<"request", 6>>),
      To([On("register_scope_node", Nobody, <<"goal", 1>>) EXCEPT !.in = O], P),
      By("authenticate_agent_token", T1) }, 2)

Superseding == Lane("superseding",
    TopAgent \o << To(Request(O, 7), T1), Approve(6),
                   On("issue_agent_invite", M, <<"request", 6>>) >>,
    { Key(To(On("redeem_agent_invite", Nobody, <<"invite", 8>>), <<"token", 102>>), 6),
      On("revoke_agent_token", M, T1), By("authenticate_agent_token", T1),
      By("authenticate_agent_token", <<"token", 102>>),
      InW("submit_memory", Ag(7), Nobody) }, 3)

\* The owner of the company whose agent holds token 1.
OwnedAgent == Owner \o << Request(O, 7), Approve(6), On("issue_agent_invite", M, <<"request", 6>>),
    Key(To(On("redeem_agent_invite", Nobody, <<"invite", 8>>), T1), 5) >>

Replacing == Over(Lane("replacing",
    OwnedAgent \o << On("prepare_agent_token_replacement", S, T1) >>,
    { On("prepare_agent_token_replacement", S, T1),
      By("confirm_agent_token_replacement", <<"token", 10>>),
      On("cancel_agent_token_replacement", S, <<"token", 10>>),
      K("expire_pending_agent_token_replacements"),
      Key(On("prepare_human_agent_token_replacement", S, T1), 2),
      On("revoke_agent_token", M, <<"token", 10>>) }, 2), {<<"grant", 10>>})

Handing == Over(Lane("handing",
    OwnedAgent \o << Key(On("prepare_human_agent_token_replacement", S, T1), 1) >>,
    { Key(On("prepare_human_agent_token_replacement", S, T1), 1),
      Key(On("prepare_human_agent_token_replacement", S, T1), 2),
      On("human_agent_token_replacement_status", S, <<"replacement", 10>>),
      To(On("confirm_human_agent_token_replacement", S, <<"replacement", 10>>), <<"token", 10>>),
      On("cancel_human_agent_token_replacement", S, <<"replacement", 10>>),
      On("revoke_agent_token", M, <<"token", 10>>) }, 2), {<<"replacement", 10>>})

ClosingOnAgents == Lane("closing on agents",
    Owner \o << Intent("close"), Request(O, 7), Approve(7),
                On("issue_agent_invite", M, <<"request", 7>>) >>,
    { On("close_company", S, <<"intent", 6>>),
      Key(To(On("redeem_agent_invite", Nobody, <<"invite", 9>>), T1), 5),
      On("issue_agent_invite", M, <<"request", 7>>), On("revoke_agent_invite", M, <<"invite", 9>>),
      On("prepare_agent_token_replacement", S, T1) }, 3)

---------------------------------------------------------------------------
(* Connectors. *)

Ask(name, n) == Key(How(K("create_connector_pairing_request"), name), n)
Take(n, w) == [On("approve_connector_pairing_request", S, <<"pairrequest", n>>) EXCEPT !.in = w]
Claim(n) == On("claim_connector_authorization_code", Nobody, <<"pairrequest", n>>)
Exchange(n) == On("exchange_connector_authorization_code", Nobody, <<"pairrequest", n>>)

Asking == Over(Lane("asking", Owner \o << Ask(9, 1), Ask(9, 2) >>,
    { Ask(9, 1), Take(6, W), Take(7, W), Claim(6),
      On("cancel_connector_pairing_request", S, <<"pairrequest", 6>>),
      On("connector_pairing_authorization_context", S, <<"pairrequest", 6>>),
      On("select_human_connector_company_membership", S, <<"authority", 3>>) }, 2),
    {<<"pairrequest", 6>>, <<"recent", 4>>})

Exchanging == Over(Lane("exchanging", Owner \o << Ask(9, 1), Take(6, Nobody) >>,
    { Claim(6), Exchange(6), K("expire_connector_pairings") }, 4), {<<"pairrequest", 6>>})

PendingPair == Owner \o << Ask(9, 1), Take(6, Nobody), Claim(6), Exchange(6) >>
Pr == <<"pairing", 9>>
C1 == <<"credential", 9>>

Activating == Over(Lane("activating", PendingPair \o << Intent("close") >>,
    { On("activate_connector_pairing", C1, Pr), On("cancel_connector_pairing", C1, Pr),
      On("close_company", S, <<"intent", 10>>),
      Key(On("revoke_connector_pairing", M, Pr), 4),
      By("authenticate_connector_token", C1), Exchange(6) }, 2), {Pr})

Paired == PendingPair \o << On("activate_connector_pairing", C1, Pr) >>
Rotate(n) == Key(On("prepare_connector_rotation", C1, Pr), n)

Rotating == Over(Lane("rotating", Paired \o << Rotate(5) >>,
    { On("activate_connector_rotation", <<"credential", 11>>, <<"rotation", 11>>),
      Rotate(5), Rotate(6),
      Key(On("revoke_connector_pairing", M, Pr), 4),
      On("disconnect_connector_pairing", C1, Pr) }, 2), {<<"rotation", 11>>})

Residue == Over(Lane("residue", PendingPair \o << On("cancel_connector_pairing", C1, Pr) >>,
    { K("purge_abandoned_connector_pairings"), Ask(9, 2), Take(11, W),
      By("authenticate_connector_token", C1) }, 3), {Pr})

---------------------------------------------------------------------------
(* What the lock and the file let happen. *)

Lost == Lane("lost", TopAgent,
    { On("revoke_agent_token", M, T1), InW("submit_memory", Ag(7), Nobody),
      By("authenticate_agent_token", T1), Key(NewMaster(M, 111), 1) }, 3)

LostApart == Apart([Lost EXCEPT !.name = "lost apart", !.bound = 2])

InPlace == [Lane("in place", Agents,
    { InW("submit_memory", Ag(1), Nobody), By("authenticate_company_master", M),
      Key(NewMaster(M, 111), 1) }, 3) EXCEPT !.inPlace = TRUE, !.crashes = TRUE]

SweptInPlace == [Messages EXCEPT !.name = "swept in place", !.bound = 2, !.inPlace = TRUE,
                                 !.crashes = TRUE]

InPlaceApart == Apart([InPlace EXCEPT !.name = "in place apart", !.bound = 2])

MCLanes == {Rooms, Documents, Devices, Packages, Claims, Reviews, Messages, Retries,
            Limits, Windows, Outbound, Checks, Founding, Masters, Recovering, Proofs,
            Sessions, Consoles, Memories, Closing, Purging, Inviting, Requesting,
            Superseding, Replacing, Handing, ClosingOnAgents, Asking, Exchanging,
            Activating, Rotating, Residue, Lost, LostApart, InPlace, InPlaceApart,
            SweptInPlace}

=============================================================================
