------------------------------ MODULE FileStore ------------------------------
(***************************************************************************)
(* FileStore at work (src/memoryendpoints/storage.py): requests that load   *)
(* the JSON document, change what they loaded and save it whole.  A call is *)
(* a sequence of sections, each one load and one save.  Most sections hold  *)
(* the process's lock from their load to their save; those of               *)
(* FileWorkspace and create_free_account do not, so another save may come   *)
(* in between and is lost.  The lock excludes threads of one process only;  *)
(* the bootstrap calls hold a lock on a file as well.  A save replaces the  *)
(* file at once, or, where replacing is not permitted, writes into it.      *)
(*                                                                          *)
(* The audit entries methods append, and lastUsedAt, are left out.          *)
(***************************************************************************)
EXTENDS FileConnectors, FileAccess, SequencesExt

CONSTANTS Workers,      \* the requests that run at a time
          Lanes         \* the situations: start, calls, over, processes, inPlace, crashes

VARIABLES lane, file, half, workers, late, begun, crashed

fileVars == <<lane, file, half, workers, late, begun, crashed>>

NoCall == [op |-> "none", n |-> 0, in |-> Nobody, as |-> Nobody, of |-> Nobody,
           to |-> Nobody, how |-> "none", body |-> 0, key |-> Nobody,
           late |-> {}, before |-> {}, seen |-> <<>>]

---------------------------------------------------------------------------
(* The sections of a call. *)

AfterMaster == {"create_company_master_proof", "decide_agent_access_request",
                "deny_agent_access_request", "issue_agent_invite", "revoke_agent_invite",
                "revoke_agent_token", "revoke_connector_pairing"}

AfterSession == {"rotate_human_account_session_csrf", "reauthenticate_human_account_session",
    "reauthenticate_and_rotate_human_account_session", "logout_human_account",
    "prove_and_link_company_master", "select_human_company_membership",
    "set_human_top_level_agent_master_credential_setting", "record_company_export_receipt",
    "create_company_closure_intent", "close_company", "soft_delete_company",
    "restore_company", "permanently_purge_company", "prepare_agent_token_replacement",
    "cancel_agent_token_replacement", "prepare_human_agent_token_replacement",
    "human_agent_token_replacement_status", "confirm_human_agent_token_replacement",
    "cancel_human_agent_token_replacement", "connector_pairing_authorization_context",
    "cancel_connector_pairing_request", "select_human_connector_company_membership"}

AfterReading == {"login_human_account", "transition_human_operational_context",
    "submit_human_operational_memory", "submit_sync_mutation", "upsert_uai_record",
    "set_outbound_mcp_project_policy", "update_outbound_mcp_server",
    "disable_outbound_mcp_server", "set_outbound_mcp_server_approval"}

AfterExpiry == {"create_connector_pairing_request", "exchange_connector_authorization_code",
                "authenticate_connector_token"}

AfterConnector == {"disconnect_connector_pairing", "cancel_connector_pairing"}

WithoutLock == {"load", "create_free_account", "meeting_rooms", "create_meeting_room",
    "submit_meeting_message", "submit_routing_decision", "mark_meeting_room_read",
    "upsert_project", "upsert_knowledge_document", "upsert_external_link",
    "register_sync_device", "rotate_sync_device", "revoke_sync_device",
    "submit_sync_mutation", "register_agent", "create_uai_package", "upsert_uai_record",
    "uai_edit_claims", "acquire_uai_edit_claim", "heartbeat_uai_edit_claim",
    "complete_uai_edit_claim", "release_uai_edit_claim", "submit_memory", "decide_review",
    "submit_message", "ack", "audit_log", "record_audit"}

Flocked == {"create_bootstrap_account", "consume_commons_layered_rate_limit"}

Session(c) == IF c.as[1] = "recovery" THEN "authenticate_human_session"
              ELSE "authenticate_human_account_session"

\* A route that reserves its Idempotency-Key claims it, does its work and records it.
Sections(c) ==
    LET op == c.op
        work == CASE op \in AfterMaster -> <<"authenticate_company_master", op>>
                  [] op \in AfterSession -> <<Session(c), op>>
                  [] op = "approve_connector_pairing_request" ->
                       <<"expire_connector_pairings", Session(c), op>>
                  [] op \in AfterReading -> <<"load", op>>
                  [] op = "record_outbound_mcp_authorization_decision" -> <<"load", "load", op>>
                  [] op \in AfterExpiry -> <<"expire_connector_pairings", op>>
                  [] op \in AfterConnector ->
                       <<"expire_connector_pairings", "authenticate_connector_token", op>>
                  [] op = "prepare_connector_rotation" ->
                       <<"expire_connector_pairings", "expire_connector_pairings",
                         "authenticate_connector_token", op>>
                  [] op = "create_human_session" -> <<"authenticate_human_owner", op>>
                  [] op = "revoke_human_session" -> <<"authenticate_human_session", op>>
                  [] op = "reauthenticate_human_session" ->
                       <<"authenticate_human_owner", "authenticate_human_session", op>>
                  [] OTHER -> <<op>>
    IN IF op \in WithoutLock /\ c.key /= Nobody
       THEN <<"claim_idempotency">> \o work \o <<"record_idempotency">> ELSE work

---------------------------------------------------------------------------
(* The requests a lane may hold: every identifier is one of the section its  *)
(* method looks it up in, and what a client chooses itself (a token, a       *)
(* master key, a setup) is nothing the store generates.                      *)

RequestsOf(l) == Len(l.start) + l.bound

InFits(c) ==
    /\ c.op \in WithoutLock \ {"load", "create_free_account"} => c.in[1] = "workspace"
    /\ c.op \in {"delegate_company_master_credential", "submit_human_operational_memory",
                 "register_top_level_agent_company_master_credential",
                 "transition_human_operational_context"} => c.in[1] = "workspace"
    /\ c.op \in {"request_agent_access", "register_scope_node"} => c.in[1] = "company"
    /\ c.op = "approve_connector_pairing_request" => c.in = Nobody \/ c.in[1] = "workspace"

AsFits(c) ==
    /\ c.op \in AfterMaster \cup {"delegate_company_master_credential"} => c.as[1] = "master"
    /\ c.op \in AfterSession \cup {"approve_connector_pairing_request", "human_operational_context",
         "transition_human_operational_context", "submit_human_operational_memory"} =>
            \/ c.as[1] = "session"
            \/ c.as[1] = "recovery" /\ c.op \in {"create_company_closure_intent", "close_company"}
    /\ c.op \in {"create_human_session", "reauthenticate_human_session"} => c.as[1] = "humancred"
    /\ c.op \in {"create_human_account", "create_human_account_with_session"} => c.as[1] = "proof"
    /\ c.op \in {"register_top_level_agent_company_master_credential",
                 "confirm_agent_token_replacement", "authenticate_agent_token"} => c.as[1] = "token"
    /\ c.op \in AfterConnector \cup {"prepare_connector_rotation", "authenticate_connector_token",
         "activate_connector_pairing", "activate_connector_rotation"} => c.as[1] = "credential"
    /\ c.op \in {"register_agent", "create_uai_package", "upsert_uai_record"} => c.as[1] = "agent"

OfFits(c) ==
    LET names(s, ops) == c.op \in ops => c.of[1] = s
    IN /\ names("room", {"submit_meeting_message", "submit_routing_decision", "mark_meeting_room_read"})
       /\ names("project", {"upsert_project", "transition_human_operational_context"})
       /\ names("knowledge", {"upsert_knowledge_document"})
       /\ names("link", {"upsert_external_link"})
       /\ names("device", {"register_sync_device", "rotate_sync_device", "revoke_sync_device"})
       /\ names("syncmemory", {"submit_sync_mutation"})
       /\ names("uaihead", {"acquire_uai_edit_claim"})
       /\ names("claim", {"heartbeat_uai_edit_claim", "complete_uai_edit_claim",
                          "release_uai_edit_claim"})
       /\ names("review", {"decide_review"})
       /\ names("notification", {"ack"})
       /\ names("rate", {"consume_connector_rate_limit", "consume_commons_layered_rate_limit"})
       /\ names("server", {"update_outbound_mcp_server", "disable_outbound_mcp_server",
                           "set_outbound_mcp_server_approval",
                           "record_outbound_mcp_authorization_decision"})
       /\ names("setup", {"create_bootstrap_account"})
       /\ names("company", {"bootstrap_company_master_token",
                            "set_human_top_level_agent_master_credential_setting"})
       /\ names("master", {"delegate_company_master_credential",
                           "register_top_level_agent_company_master_credential"})
       /\ names("recovery", {"reauthenticate_human_session", "revoke_human_session"})
       /\ names("proof", {"prove_and_link_company_master"})
       /\ names("authority", {"select_human_company_membership",
                              "select_human_connector_company_membership"})
       /\ names("intent", {"close_company", "soft_delete_company", "permanently_purge_company"})
       /\ names("request", {"decide_agent_access_request", "deny_agent_access_request",
                            "issue_agent_invite"})
       /\ names("invite", {"revoke_agent_invite", "redeem_agent_invite"})
       /\ names("token", {"revoke_agent_token", "prepare_agent_token_replacement",
                          "cancel_agent_token_replacement", "prepare_human_agent_token_replacement"})
       /\ names("replacement", {"human_agent_token_replacement_status",
                                "confirm_human_agent_token_replacement",
                                "cancel_human_agent_token_replacement"})
       /\ names("pairrequest", {"approve_connector_pairing_request",
                                "claim_connector_authorization_code",
                                "exchange_connector_authorization_code",
                                "cancel_connector_pairing_request",
                                "connector_pairing_authorization_context"})
       /\ names("pairing", {"activate_connector_pairing", "prepare_connector_rotation",
                            "revoke_connector_pairing", "disconnect_connector_pairing",
                            "cancel_connector_pairing"})
       /\ names("rotation", {"activate_connector_rotation"})
       /\ c.op = "register_scope_node" => c.of[1] \in DOMAIN ParentRules
       /\ c.op = "acquire_uai_edit_claim" => c.of[2][1][1] = "project"

ToFits(c) ==
    /\ c.op = "submit_routing_decision" => c.to[1] = "room"
    /\ c.op \in {"redeem_agent_invite", "confirm_human_agent_token_replacement"} => c.to[1] = "token"
    /\ c.op \in {"set_outbound_mcp_project_policy", "create_outbound_mcp_server",
                 "update_outbound_mcp_server", "disable_outbound_mcp_server",
                 "set_outbound_mcp_server_approval",
                 "record_outbound_mcp_authorization_decision"} => c.to[1] = "project"
    /\ c.op = "consume_commons_layered_rate_limit" =>
          c.to[1] = "rate" /\ c.of[2][1] = "source" /\ c.to[2][1] /= "source"
    /\ c.op = "consume_connector_rate_limit" => c.of[2][1] /= "source"
    /\ c.op \in {"request_agent_access"} => c.to = Nobody \/ c.to[1] = "token"

HowFits(c) ==
    /\ c.op = "upsert_external_link" => c.how \in DOMAIN ReviewRank
    /\ c.op = "submit_sync_mutation" => c.how \in {"upsert", "delete", "hard_forget"}
    /\ c.op = "decide_review" => c.how \in DOMAIN TargetStatus
    /\ c.op = "set_outbound_mcp_project_policy" => c.how \in DOMAIN Strictness
    /\ c.op = "set_outbound_mcp_server_approval" => c.how \in {"approved", "denied"}

ChosenFits(l, c) ==
    /\ c.op = "redeem_agent_invite" => c.to[2] \notin 1..RequestsOf(l)
    /\ c.op \in {"delegate_company_master_credential", "upsert_project",
                 "register_top_level_agent_company_master_credential"} =>
          c.of[2] \notin 1..RequestsOf(l)
    /\ c.op = "create_bootstrap_account" =>
          c.of[2] \notin 1..RequestsOf(l) /\ c.body \notin 1..RequestsOf(l)

Formed(l, c) ==
    /\ DOMAIN c = DOMAIN NoCall
    /\ \A k \in {c.in, c.as, c.of, c.to, c.key} : k = <<k[1], k[2]>>
    /\ InFits(c) /\ AsFits(c) /\ OfFits(c) /\ ToFits(c) /\ HowFits(c) /\ ChosenFits(l, c)
    /\ c.op \in WithoutLock => c.key = Nobody \/ c.key[1] = "idem"
    /\ c.op \notin {"claim_idempotency", "record_idempotency", "release_idempotency_claim"}

ASSUME LanesAreFormed ==
    \A l \in Lanes : /\ Len(l.start) \in Nat /\ l.bound \in Nat
                     /\ \A i \in 1..Len(l.start) : Formed(l, l.start[i])
                     /\ \A c \in l.calls : Formed(l, c)

---------------------------------------------------------------------------
(* What a section saves, from the document it loaded. *)

Do(d, section, c) ==
    CASE section = "meeting_rooms" -> meeting_rooms(d, c)
      [] section = "create_meeting_room" -> create_meeting_room(d, c)
      [] section = "submit_meeting_message" -> submit_meeting_message(d, c)
      [] section = "submit_routing_decision" -> submit_routing_decision(d, c)
      [] section = "mark_meeting_room_read" -> mark_meeting_room_read(d, c)
      [] section = "upsert_project" -> upsert_project(d, c)
      [] section = "upsert_knowledge_document" -> upsert_knowledge_document(d, c)
      [] section = "upsert_external_link" -> upsert_external_link(d, c)
      [] section = "register_sync_device" -> register_sync_device(d, c)
      [] section = "rotate_sync_device" -> rotate_sync_device(d, c)
      [] section = "revoke_sync_device" -> revoke_sync_device(d, c)
      [] section = "submit_sync_mutation" -> submit_sync_mutation(d, c)
      [] section = "register_agent" -> register_agent(d, c)
      [] section = "create_uai_package" -> create_uai_package(d, c)
      [] section = "upsert_uai_record" -> upsert_uai_record(d, c)
      [] section = "uai_edit_claims" -> uai_edit_claims(d, c)
      [] section = "acquire_uai_edit_claim" -> acquire_uai_edit_claim(d, c)
      [] section = "heartbeat_uai_edit_claim" -> heartbeat_uai_edit_claim(d, c)
      [] section = "complete_uai_edit_claim" -> complete_uai_edit_claim(d, c)
      [] section = "release_uai_edit_claim" -> release_uai_edit_claim(d, c)
      [] section = "submit_memory" -> submit_memory(d, c)
      [] section = "decide_review" -> decide_review(d, c)
      [] section = "submit_message" -> submit_message(d, c)
      [] section = "ack" -> ack(d, c)
      [] section = "audit_log" -> audit_log(d, c)
      [] section = "record_audit" -> record_audit(d, c)
      [] section = "consume_connector_rate_limit" -> consume_connector_rate_limit(d, c)
      [] section = "consume_commons_layered_rate_limit" ->
           _consume_commons_layered_rate_limit_locked(d, c)
      [] section = "claim_idempotency" -> claim_idempotency(d, c)
      [] section = "release_idempotency_claim" -> release_idempotency_claim(d, c)
      [] section = "record_idempotency" -> record_idempotency(d, c)
      [] section = "set_outbound_mcp_project_policy" -> set_outbound_mcp_project_policy(d, c)
      [] section = "create_outbound_mcp_server" -> create_outbound_mcp_server(d, c)
      [] section = "update_outbound_mcp_server" -> update_outbound_mcp_server(d, c)
      [] section = "disable_outbound_mcp_server" -> disable_outbound_mcp_server(d, c)
      [] section = "set_outbound_mcp_server_approval" ->
           set_outbound_mcp_server_approval(d, c)
      [] section = "record_outbound_mcp_authorization_decision" ->
           record_outbound_mcp_authorization_decision(d, c)
      [] section = "create_free_account" -> create_free_account(d, c)
      [] section = "create_bootstrap_account" -> _create_bootstrap_account_file_locked(d, c)
      [] section = "authenticate_company_master" -> authenticate_company_master(d, c)
      [] section = "bootstrap_company_master_token" -> bootstrap_company_master_token(d, c)
      [] section = "delegate_company_master_credential" ->
           delegate_company_master_credential(d, c)
      [] section = "register_top_level_agent_company_master_credential" ->
           register_top_level_agent_company_master_credential(d, c)
      [] section = "authenticate_human_owner" -> authenticate_human_owner(d, c)
      [] section = "create_human_session" -> create_human_session(d, c)
      [] section = "authenticate_human_session" -> authenticate_human_session(d, c)
      [] section = "reauthenticate_human_session" -> reauthenticate_human_session(d, c)
      [] section = "revoke_human_session" -> revoke_human_session(d, c)
      [] section = "create_company_master_proof" -> create_company_master_proof(d, c)
      [] section = "create_human_account" -> create_human_account(d, c)
      [] section = "create_human_account_with_session" ->
           create_human_account_with_session(d, c)
      [] section = "login_human_account" -> login_human_account(d, c)
      [] section = "open_host_local_human_session" -> open_host_local_human_session(d, c)
      [] section = "authenticate_human_account_session" ->
           authenticate_human_account_session(d, c)
      [] section = "rotate_human_account_session_csrf" ->
           rotate_human_account_session_csrf(d, c)
      [] section = "reauthenticate_human_account_session" ->
           reauthenticate_human_account_session(d, c)
      [] section = "reauthenticate_and_rotate_human_account_session" ->
           reauthenticate_and_rotate_human_account_session(d, c)
      [] section = "logout_human_account" -> logout_human_account(d, c)
      [] section = "prove_and_link_company_master" -> prove_and_link_company_master(d, c)
      [] section = "select_human_company_membership" -> select_human_company_membership(d, c)
      [] section = "set_human_top_level_agent_master_credential_setting" ->
           set_human_top_level_agent_master_credential_setting(d, c)
      [] section = "human_operational_context" -> human_operational_context(d, c)
      [] section = "transition_human_operational_context" ->
           transition_human_operational_context(d, c)
      [] section = "submit_human_operational_memory" -> submit_human_operational_memory(d, c)
      [] section = "record_company_export_receipt" -> record_company_export_receipt(d, c)
      [] section = "create_company_closure_intent" -> create_company_closure_intent(d, c)
      [] section = "close_company" -> close_company(d, c)
      [] section = "soft_delete_company" -> soft_delete_company(d, c)
      [] section = "restore_company" -> restore_company(d, c)
      [] section = "permanently_purge_company" -> permanently_purge_company(d, c)
      [] section = "request_agent_access" -> request_agent_access(d, c)
      [] section = "decide_agent_access_request" -> decide_agent_access_request(d, c)
      [] section = "deny_agent_access_request" -> deny_agent_access_request(d, c)
      [] section = "register_scope_node" -> register_scope_node(d, c)
      [] section = "issue_agent_invite" -> issue_agent_invite(d, c)
      [] section = "revoke_agent_invite" -> revoke_agent_invite(d, c)
      [] section = "redeem_agent_invite" -> redeem_agent_invite(d, c)
      [] section = "authenticate_agent_token" -> authenticate_agent_token(d, c)
      [] section = "revoke_agent_token" -> revoke_agent_token(d, c)
      [] section = "prepare_agent_token_replacement" -> prepare_agent_token_replacement(d, c)
      [] section = "confirm_agent_token_replacement" -> confirm_agent_token_replacement(d, c)
      [] section = "cancel_agent_token_replacement" -> cancel_agent_token_replacement(d, c)
      [] section = "expire_pending_agent_token_replacements" ->
           expire_pending_agent_token_replacements(d, c)
      [] section = "prepare_human_agent_token_replacement" ->
           prepare_human_agent_token_replacement(d, c)
      [] section = "human_agent_token_replacement_status" ->
           human_agent_token_replacement_status(d, c)
      [] section = "confirm_human_agent_token_replacement" ->
           confirm_human_agent_token_replacement(d, c)
      [] section = "cancel_human_agent_token_replacement" ->
           cancel_human_agent_token_replacement(d, c)
      [] section = "expire_connector_pairings" -> expire_connector_pairings(d, c)
      [] section = "purge_abandoned_connector_pairings" ->
           purge_abandoned_connector_pairings(d, c)
      [] section = "create_connector_pairing_request" ->
           create_connector_pairing_request(d, c)
      [] section = "approve_connector_pairing_request" ->
           approve_connector_pairing_request(d, c)
      [] section = "claim_connector_authorization_code" ->
           claim_connector_authorization_code(d, c)
      [] section = "exchange_connector_authorization_code" ->
           exchange_connector_authorization_code(d, c)
      [] section = "cancel_connector_pairing_request" ->
           cancel_connector_pairing_request(d, c)
      [] section = "connector_pairing_authorization_context" ->
           connector_pairing_authorization_context(d, c)
      [] section = "select_human_connector_company_membership" ->
           select_human_connector_company_membership(d, c)
      [] section = "authenticate_connector_token" -> authenticate_connector_token(d, c)
      [] section = "activate_connector_pairing" -> activate_connector_pairing(d, c)
      [] section = "prepare_connector_rotation" -> prepare_connector_rotation(d, c)
      [] section = "activate_connector_rotation" -> activate_connector_rotation(d, c)
      [] section = "revoke_connector_pairing" -> revoke_connector_pairing(d, c)
      [] section = "disconnect_connector_pairing" -> disconnect_connector_pairing(d, c)
      [] section = "cancel_connector_pairing" -> cancel_connector_pairing(d, c)
      [] OTHER -> Refused

---------------------------------------------------------------------------
(* Workers and the lock. *)

Idle == [pc |-> "idle", call |-> NoCall, todo |-> <<>>, seen |-> <<>>, doc |-> _blank_store]

Process(w) == IF lane.processes = 1 THEN "server" ELSE w

\* What a worker between the load and the save of a locked section keeps others from.
Holds(w) ==
    \/ workers[w].pc \in {"tidy", "sweep", "write"}
    \/ workers[w].pc = "store" /\ Head(workers[w].todo) \notin WithoutLock

Peers(w) == {o \in Workers \ {w} : Process(o) = Process(w)}

LockFree(w) == \A o \in Peers(w) : ~Holds(o)

FlockFree(w, c) ==
    c.op \in Flocked => \A o \in Workers \ {w} : workers[o].call.op \notin Flocked

FileInit == /\ lane \in Lanes
        /\ file = _blank_store
        /\ half = FALSE
        /\ workers = [w \in Workers |-> Idle]
        /\ late = {}
        /\ begun = 0
        /\ crashed = FALSE

\* The requests of lane.start come first, one after the other.
Preparing ==
    begun < Len(lane.start) \/ \E w \in Workers : workers[w].call.n \in 1..Len(lane.start)

Offered == IF begun < Len(lane.start) THEN {lane.start[begun + 1]} ELSE lane.calls

\* A request reaches the store. Bound: lane.bound requests after the first ones.
Begin(w, c) ==
    /\ workers[w].pc = "idle"
    /\ Preparing => \A o \in Workers : workers[o].pc = "idle"
    /\ begun < RequestsOf(lane)
    /\ FlockFree(w, c)
    /\ begun' = begun + 1
    /\ workers' = [workers EXCEPT ![w] =
                     [Idle EXCEPT !.pc = "load", !.todo = Sections(c),
                                  !.call = [c EXCEPT !.n = begun + 1]]]
    /\ UNCHANGED <<lane, file, half, late, crashed>>

\* A section is over; found is the document it loaded.
Onward(r, found) ==
    LET section == Head(r.todo)
        kept == IF section \in {"expire_connector_pairings", "claim_idempotency"}
                THEN r.seen ELSE Append(r.seen, found)
    IN IF Len(r.todo) = 1 THEN Idle
       ELSE [r EXCEPT !.pc = "load", !.todo = Tail(@), !.seen = kept, !.doc = _blank_store]

\* A section returned without saving: the call ends, or gives its reservation back.
Back(r) ==
    LET section == Head(r.todo)
    IN CASE section = "expire_connector_pairings" -> Onward(r, r.doc)
         [] Last(r.todo) = "record_idempotency" /\ section = r.call.op ->
              [r EXCEPT !.pc = "load", !.todo = <<"release_idempotency_claim">>,
                        !.doc = _blank_store]
         [] OTHER -> Idle

Loaded(r) == IF Head(r.todo) = "load" THEN Onward(r, r.doc) ELSE [r EXCEPT !.pc = "store"]

\* Mutated form: the file is read without the lock.
ReadsUnlocked(w) == workers[w].pc = "load"

MayLoad(w) == workers[w].pc = "load" /\ LockFree(w)

_load(w) ==
    LET normal == _normalize_store(file, late)
        first == workers[w].seen = <<>> /\ Head(workers[w].todo) = Sections(workers[w].call)[1]
        r == [workers[w] EXCEPT !.doc = normal,
                                !.call.before = IF first THEN late ELSE @]
    IN /\ MayLoad(w) /\ ~half
       /\ workers' = [workers EXCEPT ![w] = IF normal = file THEN Loaded(r)
                                            ELSE [r EXCEPT !.pc = "tidy"]]
       /\ UNCHANGED <<lane, file, half, late, begun, crashed>>

\* What was read is no JSON document: the request fails.
LoadFails(w) ==
    /\ MayLoad(w) /\ half
    /\ workers' = [workers EXCEPT ![w] = Idle]
    /\ UNCHANGED <<lane, file, half, late, begun, crashed>>

\* Replacing is not permitted: the load opens the file for what it swept.
SweepInPlace(w) ==
    /\ workers[w].pc = "tidy" /\ lane.inPlace
    /\ half' = TRUE
    /\ workers' = [workers EXCEPT ![w] = [@ EXCEPT !.pc = "sweep"]]
    /\ UNCHANGED <<lane, file, late, begun, crashed>>

\* What the load swept is in the file.
Tidy(w) ==
    /\ \/ workers[w].pc = "tidy" /\ ~lane.inPlace
       \/ workers[w].pc = "sweep"
    /\ file' = workers[w].doc
    /\ half' = FALSE
    /\ workers' = [workers EXCEPT ![w] = Loaded(@)]
    /\ UNCHANGED <<lane, late, begun, crashed>>

\* The call as its next section sees it.
Now(r) == [r.call EXCEPT !.late = late, !.seen = r.seen]

Saves(w) == Do(workers[w].doc, Head(workers[w].todo), Now(workers[w]))

MaySave(w) ==
    workers[w].pc = "store" /\ (Head(workers[w].todo) \in WithoutLock => LockFree(w))

Returns(w) ==
    /\ MaySave(w) /\ Saves(w) = Refused
    /\ workers' = [workers EXCEPT ![w] = Back(@)]
    /\ UNCHANGED <<lane, file, half, late, begun, crashed>>

_save(w) ==
    /\ MaySave(w) /\ Saves(w) /= Refused /\ ~lane.inPlace
    /\ file' = Saves(w)
    /\ half' = FALSE
    /\ late' = late \ Restarted(workers[w].doc, Now(workers[w]))
    /\ workers' = [workers EXCEPT ![w] = Onward(@, @.doc)]
    /\ UNCHANGED <<lane, begun, crashed>>

\* Replacing is not permitted: the file is opened for writing, which empties it,
\* and the document goes into it.
WriteInPlace(w) ==
    /\ MaySave(w) /\ Saves(w) /= Refused /\ lane.inPlace
    /\ half' = TRUE
    /\ workers' = [workers EXCEPT ![w].pc = "write", ![w].doc = Saves(w)]
    /\ UNCHANGED <<lane, file, late, begun, crashed>>

WriteEnds(w) ==
    /\ workers[w].pc = "write"
    /\ file' = workers[w].doc
    /\ half' = FALSE
    /\ workers' = [workers EXCEPT ![w] = Onward(@, file')]
    /\ UNCHANGED <<lane, late, begun, crashed>>

\* A deadline, a retention or a window of lane.over ends.
Lapse(k) ==
    /\ ~Preparing /\ k \notin late /\ (k \in DOMAIN file \/ k[1] = "recent")
    /\ late' = late \cup {k}
    /\ UNCHANGED <<lane, file, half, workers, begun, crashed>>

\* The process of w stops, with all its requests. Bound: once.
Crash(w) ==
    /\ lane.crashes /\ ~crashed /\ ~Preparing
    /\ crashed' = TRUE
    /\ workers' = [o \in Workers |-> IF Process(o) = Process(w) THEN Idle ELSE workers[o]]
    /\ UNCHANGED <<lane, file, half, late, begun>>

FileNext == \/ \E w \in Workers : \/ \E c \in Offered : Begin(w, c)
                              \/ _load(w) \/ LoadFails(w) \/ SweepInPlace(w) \/ Tidy(w)
                              \/ Returns(w) \/ _save(w)
                              \/ WriteInPlace(w) \/ WriteEnds(w)
                              \/ Crash(w)
        \/ \E k \in lane.over : Lapse(k)

FileSpec == FileInit /\ [][FileNext]_fileVars

=============================================================================
