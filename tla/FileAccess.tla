----------------------------- MODULE FileAccess -----------------------------
(***************************************************************************)
(* The methods of FileStore that guard the service's own resources: rate    *)
(* limits, idempotency reservations, and the policies, servers, approvals   *)
(* and authorization checks of outbound MCP connections.  All of them hold  *)
(* the store's lock from their load to their save; an authorization check   *)
(* reads the server, then the policy, and then asks a third call to record  *)
(* what it decided (outbound_mcp._authorization_payload).                   *)
(***************************************************************************)
EXTENDS FileDocument

CONSTANTS RateLimit,        \* requests a window allows
          SourceCapacity    \* live source partitions the layered limit keeps

ASSUME LimitsAreNumbers == RateLimit \in Nat /\ SourceCapacity \in Nat

---------------------------------------------------------------------------
(* Rate limits.  rev counts the requests of the window; late holds the       *)
(* windows that are over.                                                    *)

Window(d, c, k) == IF k \in DOMAIN d /\ k \notin c.late THEN d[k].rev ELSE 0

WithoutOldWindows(d, c, keep) == Drop(d, (Section(d, "rate") \cap c.late) \ keep)

consume_connector_rate_limit(d, c) ==
    LET count == Window(d, c, c.of)
    IN Put(WithoutOldWindows(d, c, {c.of}), c.of,
           [New("open", Nobody) EXCEPT !.rev = IF count < RateLimit THEN count + 1 ELSE count])

Sources(d) == {k \in Section(d, "rate") : k[2][1] = "source"}

\* of is the source's window, to the project's.
Admitted(d, c) ==
    LET live == Sources(d) \ c.late
    IN /\ c.of \in live \/ Cardinality(live) < SourceCapacity
       /\ Window(d, c, c.of) < RateLimit /\ Window(d, c, c.to) < RateLimit

\* A denial saves only the sweep.
_consume_commons_layered_rate_limit_locked(d, c) ==
    LET e == WithoutOldWindows(d, c, {c.of, c.to})
    IN IF Admitted(d, c)
       THEN Put(Put(e, c.of, [New("open", Nobody) EXCEPT !.rev = Window(d, c, c.of) + 1]),
                c.to, [New("open", Nobody) EXCEPT !.rev = Window(d, c, c.to) + 1])
       ELSE IF e = d THEN Refused ELSE e

\* The windows that a call starts anew or goes on counting.
Restarted(d, c) ==
    CASE c.op = "consume_connector_rate_limit" -> {c.of}
      [] c.op = "consume_commons_layered_rate_limit" /\ Admitted(d, c) -> {c.of, c.to}
      [] OTHER -> {}

---------------------------------------------------------------------------
(* Idempotency.  of is the reservation's key, body the hash of the request,  *)
(* and the reservation names the call that made it.                          *)

\* A reservation that exists makes the caller wait or answers it: no save.
claim_idempotency(d, c) ==
    IF c.key \notin DOMAIN d
    THEN Put(d, c.key, [New("pending", Nobody) EXCEPT !.by = <<"call", c.n>>, !.val = <<c.body>>])
    ELSE Refused

HoldsReservation(d, c) ==
    /\ Status(d, c.key) = "pending"
    /\ d[c.key].by = <<"call", c.n>>
    /\ d[c.key].val = <<c.body>>

release_idempotency_claim(d, c) ==
    IF HoldsReservation(d, c) THEN Drop(d, {c.key}) ELSE Refused

record_idempotency(d, c) ==
    IF HoldsReservation(d, c) THEN Mark(d, {c.key}, "recorded") ELSE Refused

---------------------------------------------------------------------------
(* Outbound MCP.  A policy's status is its mode, by the human who forced it; *)
(* a server's val is its configuration: the digest and the mode it asks for; *)
(* an approval lies under its server, rev counts the decisions and val says  *)
(* what was approved: server revision, digest, policy revision.              *)

_outbound_mcp_project_active_data(d, c) ==
    /\ Live(d, In(d, c.in))
    /\ Live(d, c.in)
    /\ Live(d, c.to)
    /\ d[c.to].in = c.in

PolicyKey(c) == <<"policy", c.to[2]>>

normalize_project_policy(d, c) ==
    IF PolicyKey(c) \in DOMAIN d THEN d[PolicyKey(c)] ELSE New("autonomous", c.to)

Strictness == [autonomous |-> 0, human_required |-> 1, blocked |-> 2]

agent_policy_update_allowed(policy, mode) ==
    IF policy.by /= Nobody THEN mode = policy.status
    ELSE Strictness[mode] >= Strictness[policy.status]

\* how is the mode; as is the human who forces it, Nobody for an agent.
set_outbound_mcp_project_policy(d, c) ==
    LET current == normalize_project_policy(d, c)
    IN IF /\ _outbound_mcp_project_active_data(d, c)
          /\ current.rev = normalize_project_policy(c.seen[1], c).rev
          /\ c.as /= Nobody \/ agent_policy_update_allowed(current, c.how)
       THEN Put(d, PolicyKey(c), [New(c.how, c.to) EXCEPT !.by = c.as,
                                                               !.rev = current.rev + 1])
       ELSE Refused

create_outbound_mcp_server(d, c) ==
    IF _outbound_mcp_project_active_data(d, c)
    THEN Put(d, <<"server", c.n>>,
             [New("active", c.to) EXCEPT !.by = c.as, !.rev = 1,
                                              !.val = <<c.body, c.how>>])
    ELSE Refused

ApprovalKey(c) == <<"approval", c.of[2]>>
approval(d, c) == IF ApprovalKey(c) \in DOMAIN d THEN d[ApprovalKey(c)] ELSE New("none", c.of)

\* What an update or a disabling does to a binding: it is gone, its count stays.
Unbound(d, c) ==
    IF ApprovalKey(c) \in DOMAIN d
    THEN [d EXCEPT ![ApprovalKey(c)].status = "none", ![ApprovalKey(c)].val = <<>>] ELSE d

MayChangeServer(d, c) ==
    /\ _outbound_mcp_project_active_data(d, c)
    /\ c.of \in DOMAIN d /\ d[c.of].in = c.to /\ d[c.of].by = c.as
    /\ c.of \in DOMAIN c.seen[1] /\ c.seen[1][c.of].rev = d[c.of].rev

update_outbound_mcp_server(d, c) ==
    IF MayChangeServer(d, c)
    THEN [Unbound(d, c) EXCEPT ![c.of].val = <<c.body, c.how>>, ![c.of].rev = @ + 1]
    ELSE Refused

disable_outbound_mcp_server(d, c) ==
    IF MayChangeServer(d, c)
    THEN [Unbound(d, c) EXCEPT ![c.of].status = "disabled", ![c.of].rev = @ + 1]
    ELSE Refused

\* The human decides about what the console showed: the document seen[1].
set_outbound_mcp_server_approval(d, c) ==
    LET shown == c.seen[1]
        policy == normalize_project_policy(d, c)
    IN IF /\ _outbound_mcp_project_active_data(d, c)
          /\ Live(d, c.of) /\ d[c.of].in = c.to
          /\ c.of \in DOMAIN shown
          /\ d[c.of].rev = shown[c.of].rev
          /\ d[c.of].val = shown[c.of].val
          /\ policy.rev = normalize_project_policy(shown, c).rev
          /\ approval(d, c).rev = approval(shown, c).rev
       THEN Put(d, ApprovalKey(c),
                [New(c.how, c.of) EXCEPT !.by = c.as, !.rev = approval(d, c).rev + 1,
                                         !.val = <<d[c.of].rev, d[c.of].val, policy.rev>>])
       ELSE Refused

\* The decision from the server as the first load showed it and the policy as
\* the second did (authorization_decision, _authorization_payload).
authorization_decision(c) ==
    LET server == c.seen[1][c.of]
        policy == normalize_project_policy(c.seen[2], c)
        required == "human_required" \in {policy.status, server.val[2]}
        binding == approval(c.seen[1], c)
        approved == /\ binding.status = "approved"
                    /\ binding.val = <<server.rev, server.val, policy.rev>>
    IN IF server.status /= "active" \/ policy.status = "blocked" THEN "blocked"
       ELSE IF required /\ ~approved THEN "approval_required" ELSE "allowed"

record_outbound_mcp_authorization_decision(d, c) ==
    LET server == c.seen[1][c.of]
        policy == normalize_project_policy(c.seen[2], c)
    IN IF /\ _outbound_mcp_project_active_data(c.seen[1], c)
          /\ c.of \in DOMAIN c.seen[1]
          /\ server.in = c.to /\ server.by = c.as
          /\ _outbound_mcp_project_active_data(c.seen[2], c)
          /\ _outbound_mcp_project_active_data(d, c)
          /\ c.of \in DOMAIN d
          /\ d[c.of].rev = server.rev /\ d[c.of].val = server.val
          /\ normalize_project_policy(d, c).rev = policy.rev
          /\ (d[c.of].status = "active") = (server.status = "active")
       THEN Put(d, <<"check", c.n>>, New(authorization_decision(c), c.of))
       ELSE Refused

=============================================================================
