--------------------------- MODULE FileWorkspace ----------------------------
(***************************************************************************)
(* The methods of FileStore that write one workspace: rooms, routing and    *)
(* read states, projects, knowledge documents and links, sync devices and   *)
(* mutations, packages and records, edit claims, memory and reviews, direct *)
(* messages.  None of them holds the store's lock across its load and its   *)
(* save.  A call c is a record: op, n (its number), in (the workspace), as  *)
(* (the agent), of and to (what it names), how (an option of the request),  *)
(* body (the digest of the content it sends), late (the deadlines passed),  *)
(* seen (the documents its earlier loads, or the caller, have read).        *)
(***************************************************************************)
EXTENDS FileDocument

---------------------------------------------------------------------------
(* Meeting rooms.  A room is identified by its workspace and its scope. *)

Room(w, s) == <<"room", <<w, s>>>>

_default_meeting_room_specs(d, w) ==
    IF w \in DOMAIN d THEN {d[w].in, w} \cup Under(d, "project", w) ELSE {}

_ensure_default_meeting_rooms(d, w) ==
    LET missing == {Room(w, s) : s \in _default_meeting_room_specs(d, w)} \ DOMAIN d
    IN With(d, [k \in missing |-> New("active", w)])

RoomOpen(d, w, r) == Live(d, r) /\ d[r].in = w

\* Also workspace_status and meeting_messages_page: rooms are made on the first look.
meeting_rooms(d, c) ==
    LET e == _ensure_default_meeting_rooms(d, c.in)
    IN IF e = d THEN Refused ELSE e

ParentRules == [goal |-> {"project"}, task |-> {"project", "goal"},
                game |-> {"project"}, gamesession |-> {"game", "project"}]

create_meeting_room(d, c) ==
    LET e == _ensure_default_meeting_rooms(d, c.in)
        room == Room(c.in, c.of)
        f == Put(e, room, New("active", c.in))
        projects == Under(d, "project", c.in)
        parent == IF c.to /= Nobody THEN c.to
                  ELSE IF projects /= {} THEN CHOOSE p \in projects : TRUE ELSE c.in
        registers == /\ c.of[1] \in DOMAIN ParentRules
                     /\ parent[1] \in ParentRules[c.of[1]]
                     /\ CompanyOf(d, parent) = In(d, c.in)
    IN IF registers /\ c.of \notin DOMAIN f
       THEN Put(f, c.of, New("active", parent)) ELSE f

MeetingMessage(c, room) == [New("sent", room) EXCEPT !.by = c.as]

submit_meeting_message(d, c) ==
    LET e == _ensure_default_meeting_rooms(d, c.in)
    IN IF RoomOpen(e, c.in, c.of)
       THEN Put(e, <<"meeting", c.n>>, MeetingMessage(c, c.of)) ELSE Refused

submit_routing_decision(d, c) ==
    LET e == _ensure_default_meeting_rooms(d, c.in)
        said == Put(e, <<"meeting", c.n>>, MeetingMessage(c, c.of))
    IN IF RoomOpen(e, c.in, c.of) /\ RoomOpen(e, c.in, c.to)
       THEN Put(said, <<"routing", c.n>>,
                [New("active", c.to) EXCEPT !.by = c.as, !.to = <<"meeting", c.n>>])
       ELSE Refused

\* to names the message to read up to; Nobody means the last one of the room.
mark_meeting_room_read(d, c) ==
    LET e == _ensure_default_meeting_rooms(d, c.in)
        talk == Under(e, "meeting", c.of)
        selected == IF c.to /= Nobody THEN c.to
                    ELSE IF talk = {} THEN Nobody
                    ELSE CHOOSE m \in talk : \A o \in talk : o[2] <= m[2]
    IN IF RoomOpen(e, c.in, c.of) /\ selected \in talk \cup {Nobody}
       THEN Put(e, <<"read", <<c.of, c.as>>>>,
                [New("read", c.of) EXCEPT !.by = c.as, !.to = selected])
       ELSE Refused

---------------------------------------------------------------------------
(* Projects, knowledge documents and external links. *)

upsert_project(d, c) ==
    IF c.in \in DOMAIN d /\ In(d, c.of) \in {Nobody, c.in}
    THEN _ensure_default_meeting_rooms(Put(d, c.of, New("active", c.in)), c.in)
    ELSE Refused

\* to names the document that supersedes this one; how is the scope it asks for.
upsert_knowledge_document(d, c) ==
    LET project == IF c.how = "project" THEN c.body ELSE 0
    IN IF /\ c.in \in DOMAIN d
          /\ project = 0 \/ <<"project", project>> \in DOMAIN d
          /\ c.to /= c.of
          /\ c.to = Nobody \/ (c.to \in DOMAIN d /\ d[c.to].in = c.in)
       THEN Put(d, c.of, [New(IF c.to = Nobody THEN "current" ELSE "superseded", c.in)
                             EXCEPT !.by = c.as, !.to = c.to])
       ELSE Refused

ReviewRank == [unreviewed |-> 0, reviewed |-> 1, quarantined |-> 2, rejected |-> 3]

_merge_external_link_review_status(known, asked) ==
    IF ReviewRank[known] >= ReviewRank[asked] THEN known ELSE asked

\* The keywords of a link accumulate; to names the document that cites it.
upsert_external_link(d, c) ==
    LET known == IF c.of \in DOMAIN d THEN d[c.of] ELSE New("unreviewed", c.in)
        link == [known EXCEPT !.status = _merge_external_link_review_status(@, c.how),
                              !.val = IF c.body \in {@[i] : i \in DOMAIN @}
                                      THEN @ ELSE Append(@, c.body)]
    IN IF /\ c.in \in DOMAIN d
          /\ c.to = Nobody \/ (c.to \in DOMAIN d /\ d[c.to].in = c.in)
       THEN LET e == Put(d, c.of, link)
            IN IF c.to = Nobody THEN e
               ELSE Put(e, <<"mention", <<c.of, c.to>>>>,
                        [New("cited", c.of) EXCEPT !.to = c.to])
       ELSE Refused

---------------------------------------------------------------------------
(* Sync devices and mutations. *)

register_sync_device(d, c) ==
    IF c.of \in DOMAIN d
    THEN [d EXCEPT ![c.of].status = "active", ![c.of].by = c.as]
    ELSE Put(d, c.of, [New("active", c.in) EXCEPT !.by = c.as, !.rev = 1])

rotate_sync_device(d, c) ==
    IF Status(d, c.of) \notin {"absent", "revoked"}
    THEN [d EXCEPT ![c.of].rev = @ + 1] ELSE Refused

revoke_sync_device(d, c) ==
    IF c.of \in DOMAIN d THEN Mark(d, {c.of}, "revoked") ELSE Refused

_sync_next_sequence(d) ==
    LET used == {d[k].rev : k \in Section(d, "revision")}
    IN IF used = {} THEN 1 ELSE 1 + CHOOSE m \in used : \A o \in used : o <= m

\* Mutated form: a tombstoned memory is written again when the parent fits.
Resurrects(head, c) ==
    IF c.how \in {"upsert", "delete"} /\ head.to /= Nobody /\ c.to /= head.to
    THEN "parent_revision_mismatch"
    ELSE IF c.how = "delete" /\ head.to = Nobody THEN "head_not_found" ELSE ""

ConflictCode(head, c) ==
    IF c.how = "upsert" /\ head.status = "tombstoned" THEN "tombstone_resurrection_blocked"
    ELSE IF c.how \in {"upsert", "delete"} /\ head.to /= Nobody /\ c.to /= head.to
    THEN "parent_revision_mismatch"
    ELSE IF c.how = "delete" /\ head.to = Nobody THEN "head_not_found" ELSE ""

\* The document that is saved was loaded first (seen[1]); the device is looked
\* up by a load of its own.  of names the memory, to the parent, as the device,
\* body the epoch the sender believes in.
submit_sync_mutation(d, c) ==
    LET base == c.seen[1]
        device == IF c.as \in DOMAIN d THEN d[c.as] ELSE New("absent", Nobody)
        rejected == \/ c.as /= Nobody /\ (device.status \in {"absent", "revoked"}
                                          \/ device.rev /= c.body)
                    \/ c.how = "hard_forget"
        head == IF c.of \in DOMAIN base THEN base[c.of] ELSE New("", c.in)
        conflict == ConflictCode(head, c)
        seq == _sync_next_sequence(base)
        status == IF rejected THEN "rejected"
                  ELSE IF conflict /= "" THEN "conflict" ELSE "applied"
        revision == [New(status, c.of) EXCEPT !.by = c.as, !.to = c.to, !.rev = seq]
        kept == IF rejected THEN base ELSE Put(base, <<"revision", c.n>>, revision)
        headed == IF status = "applied"
                  THEN Put(kept, c.of,
                           [New(IF c.how = "delete" THEN "tombstoned" ELSE "active", c.in)
                              EXCEPT !.to = <<"revision", c.n>>, !.rev = seq])
                  ELSE kept
    IN Put(headed, <<"syncreceipt", c.n>>,
           [New(status, c.of) EXCEPT
              !.to = IF rejected THEN Nobody ELSE <<"revision", c.n>>,
              !.rev = IF rejected THEN 0 ELSE seq])

---------------------------------------------------------------------------
(* Agents, uploaded packages and their records. *)

register_agent(d, c) == Put(d, c.as, New("active", c.in))

create_uai_package(d, c) ==
    IF /\ c.in \in DOMAIN d
       /\ Live(d, c.as)
       /\ c.how = "accountless_browser_ai"
       /\ <<"package", c.as>> \notin DOMAIN d
    THEN Put(d, <<"package", c.as>>, [New("setup_required", c.in) EXCEPT !.by = c.as])
    ELSE Refused

RequiredPaths == {1, 2}

\* body digests the content and how is its path; the revision the caller
\* expects is the one of the record it has read (seen[1]).
upsert_uai_record(d, c) ==
    LET package == <<"package", c.as>>
        path == IF c.how = "first" THEN 1 ELSE 2
        record == <<"record", <<c.as, path>>>>
        expected == IF record \in DOMAIN c.seen[1] THEN c.seen[1][record].rev ELSE 0
        current == IF record \in DOMAIN d THEN d[record].rev ELSE 0
        same == current > 0 /\ d[record].val = <<c.body>>
        new == [New("active", package) EXCEPT !.rev = current + 1, !.val = <<c.body>>]
        written == Put(Put(d, record, new),
                       <<"recordrevision", <<c.as, path, current + 1>>>>,
                       [New("kept", record) EXCEPT !.rev = current + 1, !.val = new.val])
        ready == \A p \in RequiredPaths : <<"record", <<c.as, p>>>> \in DOMAIN written
    IN IF package \in DOMAIN d /\ d[package].in = c.in /\ expected = current /\ ~same
       THEN Mark(written, {package}, IF ready THEN "ready" ELSE "setup_required")
       ELSE Refused

---------------------------------------------------------------------------
(* Edit claims on files that stay with the agents. *)

_expire_uai_edit_claims_data(d, c) ==
    LET ended == {k \in Section(d, "claim") \cap c.late : d[k].status = "active"}
        freed == [k \in DOMAIN d |->
                    IF k[1] = "uaihead" /\ d[k].to \in ended
                    THEN [d[k] EXCEPT !.to = Nobody] ELSE d[k]]
    IN Mark(freed, ended, "expired")

\* uai_collaboration_heads and uai_edit_claims save only when a lease ended.
uai_edit_claims(d, c) ==
    LET e == _expire_uai_edit_claims_data(d, c) IN IF e = d THEN Refused ELSE e

\* of is the head (project and path), body the hash the editor starts from.
acquire_uai_edit_claim(d, c) ==
    LET e == _expire_uai_edit_claims_data(d, c)
        project == c.of[2][1]
        head == IF c.of \in DOMAIN e THEN e[c.of]
                ELSE [New("tracked", project) EXCEPT !.val = <<c.body>>]
        claim == <<"claim", c.n>>
    IN IF /\ In(e, project) = c.in
          /\ Live(e, c.as)
          /\ ~Live(e, head.to)
          /\ head.val = <<c.body>>
       THEN Put(Put(e, c.of, [head EXCEPT !.to = claim]), claim,
                [New("active", c.of) EXCEPT !.by = c.as, !.val = <<c.body>>])
       ELSE Refused

OwnsClaim(e, c) ==
    /\ Live(e, c.of)
    /\ e[c.of].by = c.as
    /\ e[c.of].in \in DOMAIN e
    /\ e[e[c.of].in].to = c.of

heartbeat_uai_edit_claim(d, c) ==
    LET e == _expire_uai_edit_claims_data(d, c)
    IN IF OwnsClaim(e, c) THEN e ELSE Refused

complete_uai_edit_claim(d, c) ==
    LET e == _expire_uai_edit_claims_data(d, c)  head == e[c.of].in
    IN IF OwnsClaim(e, c) /\ e[head].val = e[c.of].val
       THEN [Mark(e, {c.of}, "completed") EXCEPT ![head].to = Nobody, ![head].rev = @ + 1,
                                                  ![head].val = <<c.body>>]
       ELSE Refused

release_uai_edit_claim(d, c) ==
    LET e == _expire_uai_edit_claims_data(d, c)
    IN IF OwnsClaim(e, c)
       THEN [Mark(e, {c.of}, "released") EXCEPT ![e[c.of].in].to = Nobody] ELSE Refused

---------------------------------------------------------------------------
(* Memory, reviews, direct messages. *)

\* how is the firewall's verdict on the content.
submit_memory(d, c) ==
    LET status == IF c.how = "quarantine_for_review" THEN "quarantined" ELSE "active"
        review == IF status = "active" THEN "pending" ELSE status
    IN Put(Put(d, <<"memory", c.n>>, [New(status, c.in) EXCEPT !.by = c.as]),
           <<"review", c.n>>,
           [New(review, c.in) EXCEPT !.by = c.as, !.to = <<"memory", c.n>>])

TargetStatus == [promote |-> "promoted", approve |-> "promoted", reject |-> "rejected",
                 quarantine |-> "quarantined"]

decide_review(d, c) ==
    IF c.of \in DOMAIN d /\ d[c.of].in = c.in
    THEN LET target == TargetStatus[c.how]
             shown == IF target = "promoted" THEN "active" ELSE target
         IN Mark(Mark(d, {c.of}, target), {d[c.of].to}, shown)
    ELSE Refused

_active_agent_ids(d, c) ==
    {k \in Under(d, "agent", c.in) : d[k].status = "active"} \cup {c.as}

submit_message(d, c) ==
    LET targets == IF c.to /= Nobody THEN {c.to} ELSE _active_agent_ids(d, c)
        notes == {<<"notification", <<c.n, a>>>> : a \in targets}
        sent == Put(d, <<"message", c.n>>,
                    [New("sent", c.in) EXCEPT !.by = c.as, !.to = c.to])
    IN With(sent, [k \in notes |-> [New("unread", <<"message", c.n>>) EXCEPT !.to = k[2][2]]])

ack(d, c) ==
    IF c.of \in DOMAIN d
    THEN Put(Mark(d, {c.of}, "read"), <<"receipt", c.n>>,
             [New("read", c.of) EXCEPT !.by = c.as])
    ELSE Refused

\* audit_log and company_audit_log save what they loaded.
audit_log(d, c) == d

record_audit(d, c) == audit(d, c.n)

=============================================================================
