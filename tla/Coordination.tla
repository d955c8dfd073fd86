---------------------------- MODULE Coordination ----------------------------
(* Current messages and meeting rooms: the inbox with its notifications and   *)
(* receipts, the room transcripts with their read cursors, and the sweep that *)
(* deletes both when their retention ends.  A call is a sequence of store     *)
(* calls, a store call a sequence of SQL statements; the statements before    *)
(* the first write of a transaction commit on their own, so what they read    *)
(* may be gone when the writes run.  One process runs one store call at a     *)
(* time (its lock); several processes interleave at every statement.          *)
EXTENDS Integers, FiniteSets, FiniteSetsExt

CONSTANTS Agents,       \* identities that may be registered in the workspace
          Founders,     \* those registered at the start
          Rooms,        \* scopes that may have a meeting room
          Defaults,     \* rooms derived from the company, workspace and projects
          Workers,      \* threads, or processes, carrying out calls
          Lanes,        \* bounds: the kinds of call and their number in one behaviour,
                        \* and how many messages were sent before it
          Targets,      \* bound: whom messages are sent to, {} for everyone
          Keys,         \* idempotency keys a client may use for one notification
          Statuses,     \* statuses a client may acknowledge with
          AckedFor, UnackedFor, MeetingFor,   \* retention, in ticks of the clock
          MaxStamps, Horizon,   \* bounds
          None

ASSUME CoordinationAssumption ==
    /\ Founders \subseteq Agents /\ Founders # {}
    /\ Defaults \subseteq Rooms
    /\ Targets \subseteq SUBSET Agents
    /\ \A lane \in Lanes : lane.calls \in Nat /\ lane.sent \in 0..MaxStamps
    /\ {AckedFor, UnackedFor, MeetingFor, MaxStamps, Horizon}
         \subseteq Nat
    /\ AckedFor < UnackedFor

VARIABLES oneProcess,   \* whether every worker is a thread of one process
          lane,         \* the lane of this behaviour
          now,          \* the clock of the host
          agents,       \* registered agents
          messages,     \* current messages by creation time, with notifications
          receipts,     \* acknowledgement receipts
          rooms,        \* rooms that exist
          posts,        \* transcript of all rooms, by creation time
          reads,        \* the read cursor of each agent in each room
          stored, pending, \* idempotency keys with an answer, and in progress
          calls,        \* what each worker is doing
          begun,        \* calls begun so far
          stamps,       \* creation times given so far, all different
          walk,         \* one agent paging through its inbox
          covered       \* history: posts an agent has marked read

coordinationVars == <<oneProcess, lane, now, agents, messages, receipts, rooms, posts, reads,
                      stored, pending, calls, begun, stamps, walk, covered>>
direct == <<messages, receipts, stored, pending>>
meeting == <<rooms, posts, reads, covered>>
setting == <<oneProcess, lane, now, agents, stamps>>

Times == 0..Horizon
Partial(D, R) == UNION {[S -> R] : S \in SUBSET D}

Note == [status: Statuses \cup {"unread"}, readAt: Times \cup {None}]
Message == [sender: Agents, at: Times, required: BOOLEAN, notes: Partial(Agents, Note)]
Receipt == [message: 1..MaxStamps, target: Agents, consumer: Agents, status: Statuses]
Post == [room: Rooms, at: Times, routed: BOOLEAN]
Ack == [agent: Agents, key: Keys, item: 1..MaxStamps, of: Agents, status: Statuses]

Steps == {"sweep", "purge", "look", "defaults", "claim", "read", "write", "record"}
Maybe(S) == S \cup {None}
Call == [op: {"send", "ack", "page", "post", "route", "mark", "open"},
         step: Steps, wrote: BOOLEAN, agent: Maybe(Agents), room: Maybe(Rooms),
         with: Maybe(Rooms), item: 0..MaxStamps, of: Maybe(Agents), key: Maybe(Keys),
         status: Maybe(Statuses), required: BOOLEAN, to: SUBSET Agents, at: Times,
         due: SUBSET (1..MaxStamps), stale: SUBSET (1..MaxStamps),
         rows: SUBSET (1..MaxStamps), missing: SUBSET Rooms]
Idle == [op |-> "none"]
Walk == [agent: Agents, cursor: (1..MaxStamps) \cup {None}, must: SUBSET (1..MaxStamps),
         got: SUBSET (1..MaxStamps), ended: BOOLEAN]
ASSUME NoneIsNoWalk == None \notin Walk

CoordinationTypeOK ==
    /\ oneProcess \in BOOLEAN /\ lane \in Lanes /\ now \in Times /\ agents \in SUBSET Agents
    /\ DOMAIN messages \subseteq 1..MaxStamps
    /\ \A m \in DOMAIN messages : messages[m] \in Message
    /\ receipts \in SUBSET Receipt
    /\ calls \in [Workers -> Call \cup {Idle}]
    /\ rooms \in SUBSET Rooms
    /\ DOMAIN posts \subseteq 1..MaxStamps
    /\ \A p \in DOMAIN posts : posts[p] \in Post
    /\ reads \in [Agents -> [Rooms -> (1..MaxStamps) \cup {None}]]
    /\ stored \in SUBSET Ack /\ pending \in SUBSET Ack
    /\ begun \in 0..lane.calls /\ stamps \in 0..MaxStamps
    /\ walk \in Walk \cup {None}
    /\ covered \in [Agents -> SUBSET (1..MaxStamps)]

-----------------------------------------------------------------------------
(* Retention.  An acknowledged message is due AckedFor after its last         *)
(* acknowledgement, any other UnackedFor after it was written; a post is due  *)
(* MeetingFor after it was written unless a routing decision refers to it.    *)
Acknowledged(m) == \A a \in DOMAIN messages[m].notes : messages[m].notes[a].status # "unread"
LastRead(m) == Max({messages[m].notes[a].readAt : a \in DOMAIN messages[m].notes})
DueMessages ==
    {m \in DOMAIN messages : IF Acknowledged(m) THEN now - LastRead(m) > AckedFor
                             ELSE now - messages[m].at > UnackedFor}
DuePosts == {p \in DOMAIN posts : ~posts[p].routed /\ now - posts[p].at > MeetingFor}

(* An agent's inbox: unread notifications, those that require a response      *)
(* first, then the newest first.  After(c, m): m comes after c in that order. *)
Unread(a) == {m \in DOMAIN messages :
                 a \in DOMAIN messages[m].notes /\ messages[m].notes[a].status = "unread"}
After(c, m) == \/ messages[c].required /\ ~messages[m].required
               \/ messages[c].required = messages[m].required /\ m < c

(* What meeting_rooms counts as unread: everything when no post is named, and *)
(* nothing when the post named is not in the transcript any more.             *)
InRoom(r) == {p \in DOMAIN posts : posts[p].room = r}
UnreadPosts(a, r) ==
    IF reads[a][r] = None THEN InRoom(r)
    ELSE {p \in InRoom(r) : reads[a][r] \in InRoom(r) /\ p > reads[a][r]}

-----------------------------------------------------------------------------
(* Within a store call: every step but its first.  The threads of one process *)
(* enter a store call only when no other thread is inside one.                *)
Inside(w) == calls[w] # Idle /\ calls[w].step \in {"purge", "look", "defaults", "write"}
May(w) == oneProcess => \A v \in Workers \ {w} : ~Inside(v)
At(w, step) == calls[w] # Idle /\ calls[w].step = step /\ May(w)
Goto(w, step) == calls' = [calls EXCEPT ![w].step = step]
End(w) == calls' = [calls EXCEPT ![w] = Idle]
Blank == [op |-> "none", step |-> "sweep", wrote |-> FALSE, agent |-> None, room |-> None,
          with |-> None, item |-> 0, of |-> None, key |-> None, status |-> None, required |-> FALSE,
          to |-> {}, at |-> 0, due |-> {}, stale |-> {}, rows |-> {}, missing |-> {}]

(* The sweep at the start of every reading of an inbox, a transcript or the   *)
(* list of rooms selects what is due.                                         *)
\* Mutated form: an acknowledged message is due at once.
SweepingAcknowledged(call) ==
    LET due == DueMessages \cup {m \in DOMAIN messages : Acknowledged(m)}
    IN [call EXCEPT !.due = due, !.stale = DuePosts,
                    !.step = IF due \cup DuePosts = {} THEN "look" ELSE "purge"]

Sweeping(call) == [call EXCEPT !.due = DueMessages, !.stale = DuePosts,
                     !.step = IF DueMessages \cup DuePosts = {} THEN "look" ELSE "purge"]
Readback(w) == [Blank EXCEPT !.op = calls[w].op, !.wrote = TRUE]
AndReadback(w) == calls' = [calls EXCEPT ![w] = Readback(w)]

(* A call arrives and takes its first step.                                   *)
Begin(w, call) == /\ calls[w] = Idle /\ begun < lane.calls /\ call.op \in lane.ops
                  /\ May(w)
                  /\ begun' = begun + 1
                  /\ calls' = [calls EXCEPT ![w] = call]

BeginAck(w, a, m, of, key, status) ==
    /\ Begin(w, Sweeping([Blank EXCEPT !.op = "ack", !.agent = a, !.item = m, !.of = of,
                                       !.key = key, !.status = status]))
    /\ UNCHANGED <<setting, direct, meeting, walk>>
BeginPost(w, r) ==
    /\ Begin(w, Sweeping([Blank EXCEPT !.op = "post", !.room = r, !.with = r]))
    /\ UNCHANGED <<setting, direct, meeting, walk>>
BeginRoute(w, r, destination) ==
    /\ Begin(w, Sweeping([Blank EXCEPT !.op = "route", !.room = r, !.with = destination]))
    /\ UNCHANGED <<setting, direct, meeting, walk>>
BeginMark(w, a, r, p) ==
    /\ Begin(w, Sweeping([Blank EXCEPT !.op = "mark", !.agent = a, !.room = r, !.with = r,
                                       !.item = p]))
    /\ UNCHANGED <<setting, direct, meeting, walk>>

(* A page of the inbox, one notification long; the agent passes the cursor    *)
(* of the page before.                                                        *)
BeginPage(w, a) ==
    /\ \/ walk = None /\ walk' = [agent |-> a, cursor |-> None, must |-> Unread(a),
                                  got |-> {}, ended |-> FALSE]
       \/ walk # None /\ walk.agent = a /\ ~walk.ended /\ UNCHANGED walk
    /\ \A v \in Workers : calls[v] # Idle => calls[v].op # "page"
    /\ Begin(w, Sweeping([Blank EXCEPT !.op = "page", !.agent = a]))
    /\ UNCHANGED <<setting, direct, meeting>>

-----------------------------------------------------------------------------
(* What the sweep selected is deleted with everything that refers to it; a    *)
(* reading of the list of rooms creates the default rooms in the same         *)
(* transaction.  After a write, the readback sweeps again.                    *)
ListsRooms(w) == calls[w].op \in {"mark", "open"}
                 \/ (calls[w].op \in {"post", "route"} /\ ~calls[w].wrote)

Sweep(w) ==
    /\ At(w, "sweep")
    /\ IF DueMessages \cup DuePosts = {} /\ ~ListsRooms(w) THEN End(w)
       ELSE calls' = [calls EXCEPT ![w] = Sweeping(@)]
    /\ UNCHANGED <<setting, direct, meeting, begun, walk>>

Without(f, S) == [x \in DOMAIN f \ S |-> f[x]]

PurgeDue(w) ==
    LET c == calls[w] IN
    /\ At(w, "purge")
    /\ messages' = Without(messages, c.due)
    /\ receipts' = {x \in receipts : x.message \notin c.due}
    /\ posts' = Without(posts, c.stale)
    /\ reads' = [a \in Agents |-> [r \in Rooms |->
                   IF reads[a][r] \in c.stale THEN None ELSE reads[a][r]]]
    /\ rooms' = rooms \cup (IF ListsRooms(w) THEN Defaults ELSE {})
    /\ IF c.wrote /\ ~ListsRooms(w) THEN End(w)
       ELSE calls' = [calls EXCEPT ![w].step = "look", ![w].due = {}, ![w].stale = {}]
    /\ UNCHANGED <<setting, stored, pending, covered, begun, walk>>

-----------------------------------------------------------------------------
(* After the sweep.  A room list creates the default rooms it misses; a room  *)
(* that appeared since they were looked for makes the whole call fail.        *)
RoomsListed(w, present) ==
    LET c == calls[w] IN
    IF ~c.wrote /\ c.room \in present /\ c.with \in present THEN Goto(w, "read") ELSE End(w)

ListRooms(w) ==
    /\ At(w, "look") /\ ListsRooms(w)
    /\ IF Defaults \subseteq rooms THEN RoomsListed(w, rooms)
       ELSE calls' = [calls EXCEPT ![w].step = "defaults", ![w].missing = Defaults \ rooms]
    /\ UNCHANGED <<setting, direct, meeting, begun, walk>>

EnsureDefaults(w) ==
    LET missing == calls[w].missing IN
    /\ At(w, "defaults")
    /\ IF missing \cap rooms # {} THEN End(w) /\ UNCHANGED rooms
       ELSE rooms' = rooms \cup missing /\ RoomsListed(w, rooms \cup missing)
    /\ UNCHANGED <<setting, direct, posts, reads, covered, begun, walk>>

\* Mutated form: the page starts after every notification of the cursor's rank.
PageByRank(w) ==
    LET c == walk.cursor
        a == walk.agent
        found == c # None /\ c \in DOMAIN messages
        rest == {m \in Unread(a) : found => messages[c].required /\ ~messages[m].required}
        first == CHOOSE m \in rest : \A n \in rest \ {m} : After(m, n)
    IN
    /\ At(w, "look") /\ calls[w].op = "page"
    /\ walk' = IF rest = {} THEN [walk EXCEPT !.ended = TRUE]
               ELSE [walk EXCEPT !.got = @ \cup {first}, !.ended = Cardinality(rest) = 1,
                                 !.cursor = IF Cardinality(rest) = 1 THEN None ELSE first]
    /\ End(w)
    /\ UNCHANGED <<setting, direct, meeting, begun>>

Page(w) ==
    LET c == walk.cursor
        a == walk.agent
        rest == {m \in Unread(a) : c # None /\ c \in DOMAIN messages => After(c, m)}
        first == CHOOSE m \in rest : \A n \in rest \ {m} : After(m, n)
    IN
    /\ At(w, "look") /\ calls[w].op = "page"
    /\ walk' = IF rest = {} THEN [walk EXCEPT !.ended = TRUE]
               ELSE [walk EXCEPT !.got = @ \cup {first}, !.ended = Cardinality(rest) = 1,
                                 !.cursor = IF Cardinality(rest) = 1 THEN None ELSE first]
    /\ End(w)
    /\ UNCHANGED <<setting, direct, meeting, begun>>

-----------------------------------------------------------------------------
(* Acknowledgement.  The agent must see the notification as unread; then the  *)
(* key is looked up and reserved; then the notification is read again and,    *)
(* with its receipt, written.  A notification deleted between the last two is *)
(* a broken reference: nothing is written and the key stays reserved.         *)
\* Mutated form: whoever asks may acknowledge.
SeesAny(w) ==
    LET c == calls[w] IN
    /\ At(w, "look") /\ c.op = "ack"
    /\ IF c.item \in Unread(c.of) THEN Goto(w, "claim") ELSE End(w)
    /\ UNCHANGED <<setting, direct, meeting, begun, walk>>

Sees(w) ==
    LET c == calls[w] IN
    /\ At(w, "look") /\ c.op = "ack"
    /\ IF c.of = c.agent /\ c.item \in Unread(c.agent) THEN Goto(w, "claim") ELSE End(w)
    /\ UNCHANGED <<setting, direct, meeting, begun, walk>>

Body(c) == [agent |-> c.agent, key |-> c.key, item |-> c.item, of |-> c.of,
            status |-> c.status]
Claim(w) ==
    LET c == calls[w] IN
    /\ At(w, "claim")
    /\ IF \E k \in stored \cup pending : k.agent = c.agent /\ k.key = c.key
       THEN End(w) /\ UNCHANGED pending
       ELSE Goto(w, "read") /\ pending' = pending \cup {Body(c)}
    /\ UNCHANGED <<setting, messages, receipts, stored, meeting, begun, walk>>

Notified(w) == /\ calls[w].item \in DOMAIN messages
               /\ calls[w].of \in DOMAIN messages[calls[w].item].notes

AckRead(w) ==
    /\ At(w, "read") /\ calls[w].op = "ack"
    /\ IF Notified(w) THEN /\ calls' = [calls EXCEPT ![w].step = "write", ![w].at = now]
                           /\ UNCHANGED pending
       ELSE End(w) /\ pending' = pending \ {Body(calls[w])}
    /\ UNCHANGED <<setting, messages, receipts, stored, meeting, begun, walk>>

AckWrite(w) ==
    LET c == calls[w]
        seen == [status |-> c.status, readAt |-> c.at]
        receipt == [message |-> c.item, target |-> c.of, consumer |-> c.agent,
                    status |-> c.status]
    IN
    /\ At(w, "write") /\ c.op = "ack"
    /\ IF Notified(w)
       THEN /\ messages' = [messages EXCEPT ![c.item].notes[c.of] = seen]
            /\ receipts' = receipts \cup {receipt}
            /\ walk' = IF walk # None /\ walk.agent = c.of /\ c.status # "unread"
                       THEN [walk EXCEPT !.must = @ \ {c.item}] ELSE walk
            /\ Goto(w, "record")
       ELSE End(w) /\ UNCHANGED <<messages, receipts, walk>>
    /\ UNCHANGED <<setting, stored, pending, meeting, begun>>

Record(w) ==
    /\ At(w, "record")
    /\ stored' = stored \cup {Body(calls[w])} /\ pending' = pending \ {Body(calls[w])}
    /\ End(w)
    /\ UNCHANGED <<setting, messages, receipts, meeting, begun, walk>>

-----------------------------------------------------------------------------
(* A message goes to its target or to every registered agent and the sender,  *)
(* as they are when the call reads them; message and notifications are one    *)
(* transaction.  An agent that registers after the reading gets none.         *)
SendRead(w, a, to, required) ==
    /\ stamps < MaxStamps
    /\ stamps' = stamps + 1
    /\ Begin(w, [Blank EXCEPT !.op = "send", !.step = "write", !.agent = a, !.item = stamps + 1,
                              !.at = now, !.required = required,
                              !.to = IF to = {} THEN agents \cup {a} ELSE to])
    /\ UNCHANGED <<oneProcess, lane, now, agents, direct, meeting, walk>>

With(f, x, y) == [z \in DOMAIN f \cup {x} |-> IF z = x THEN y ELSE f[z]]

SendWrite(w) ==
    LET c == calls[w]
        unread == [status |-> "unread", readAt |-> None]
    IN
    /\ At(w, "write") /\ c.op = "send"
    /\ messages' = With(messages, c.item,
                        [sender |-> c.agent, at |-> c.at, required |-> c.required,
                         notes |-> [a \in c.to |-> unread]])
    /\ AndReadback(w)
    /\ UNCHANGED <<setting, receipts, stored, pending, meeting, begun, walk>>

(* A post, alone or with the routing decision it announces: the rooms are     *)
(* read again (rooms are never deleted) and the post stamped, then written.   *)
PostRead(w) ==
    /\ At(w, "read") /\ calls[w].op \in {"post", "route"} /\ stamps < MaxStamps
    /\ {calls[w].room, calls[w].with} \subseteq rooms
    /\ stamps' = stamps + 1
    /\ calls' = [calls EXCEPT ![w].step = "write", ![w].item = stamps + 1, ![w].at = now]
    /\ UNCHANGED <<oneProcess, lane, now, agents, direct, meeting, begun, walk>>

PostWrite(w) ==
    LET c == calls[w] IN
    /\ At(w, "write") /\ c.op \in {"post", "route"}
    /\ posts' = With(posts, c.item,
                     [room |-> c.room, at |-> c.at, routed |-> c.op = "route"])
    /\ AndReadback(w)
    /\ UNCHANGED <<setting, direct, rooms, reads, covered, begun, walk>>

(* Marking a room read up to a post, the last one when none is named: the     *)
(* transcript is read, then the cursor replaced, whatever it was before.      *)
MarkRead(w) ==
    LET c == calls[w] IN
    /\ At(w, "read") /\ c.op = "mark"
    /\ IF c.room \in rooms /\ (c.item = 0 \/ c.item \in InRoom(c.room))
       THEN calls' = [calls EXCEPT ![w].step = "write", ![w].rows = InRoom(c.room),
              ![w].item = IF @ = 0 /\ InRoom(c.room) # {} THEN Max(InRoom(c.room)) ELSE @]
       ELSE End(w)
    /\ UNCHANGED <<setting, direct, meeting, begun, walk>>

MarkWrite(w) ==
    LET c == calls[w] IN
    /\ At(w, "write") /\ c.op = "mark"
    /\ reads' = [reads EXCEPT ![c.agent][c.room] = IF c.item = 0 THEN None ELSE c.item]
    /\ covered' = [covered EXCEPT ![c.agent] = @ \cup {p \in c.rows : p <= c.item}]
    /\ AndReadback(w)
    /\ UNCHANGED <<setting, direct, rooms, posts, begun, walk>>

(* Creating a custom room, or updating the one there is; a room created since *)
(* it was looked for makes the call fail.                                     *)
OpenRead(w, r) ==
    /\ r \notin Defaults
    /\ Begin(w, [Blank EXCEPT !.op = "open", !.step = "write", !.missing = {r} \ rooms])
    /\ UNCHANGED <<setting, direct, meeting, walk>>

OpenWrite(w) ==
    LET missing == calls[w].missing IN
    /\ At(w, "write") /\ calls[w].op = "open"
    /\ IF missing \cap rooms # {} THEN End(w) /\ UNCHANGED rooms
       ELSE rooms' = rooms \cup missing /\ AndReadback(w)
    /\ UNCHANGED <<setting, direct, posts, reads, covered, begun, walk>>

-----------------------------------------------------------------------------
(* Registration, and the passing of days.                                     *)
Register(a) ==
    /\ a \notin agents
    /\ agents' = agents \cup {a}
    /\ UNCHANGED <<oneProcess, lane, now, stamps, direct, meeting, calls, begun, walk>>

Tick == /\ now < Horizon
        /\ now' = now + 1
        /\ UNCHANGED <<oneProcess, lane, agents, stamps, direct, meeting, calls, begun, walk>>

\* What the founders may have sent one another before the behaviour begins.
Sent == {[sender |-> a, at |-> 0, required |-> required,
          notes |-> [b \in Founders |-> [status |-> "unread", readAt |-> None]]] :
            a \in Founders, required \in BOOLEAN}

CoordinationInit ==
    /\ oneProcess \in BOOLEAN /\ lane \in Lanes /\ now = 0 /\ agents = Founders
    /\ messages \in [1..lane.sent -> Sent] /\ stamps = lane.sent /\ begun = 0
    /\ receipts = {} /\ stored = {} /\ pending = {} /\ walk = None
    /\ rooms = {} /\ posts = [p \in {} |-> None]
    /\ reads = [a \in Agents |-> [r \in Rooms |-> None]]
    /\ covered = [a \in Agents |-> {}]
    /\ calls = [w \in Workers |-> Idle]

Arrive(w) ==
    \/ \E a \in agents : BeginPage(w, a)
    \/ \E a \in agents, to \in Targets, required \in BOOLEAN : SendRead(w, a, to, required)
    \/ \E a \in agents, m \in DOMAIN messages, key \in Keys, status \in Statuses :
         \E of \in DOMAIN messages[m].notes : BeginAck(w, a, m, of, key, status)
    \/ \E r \in Rooms : BeginPost(w, r)
    \/ \E r, destination \in Rooms : BeginRoute(w, r, destination)
    \/ \E a \in agents, r \in Rooms : \E p \in {0} \cup InRoom(r) : BeginMark(w, a, r, p)
    \/ \E r \in Rooms : OpenRead(w, r)

Server(w) ==
    \/ Sweep(w) \/ PurgeDue(w) \/ ListRooms(w) \/ EnsureDefaults(w) \/ Page(w)
    \/ Sees(w) \/ Claim(w) \/ AckRead(w) \/ AckWrite(w) \/ Record(w)
    \/ SendWrite(w) \/ PostRead(w) \/ PostWrite(w) \/ MarkRead(w) \/ MarkWrite(w)
    \/ OpenWrite(w)

CoordinationNext == \/ \E w \in Workers : Arrive(w) \/ Server(w)
        \/ \E a \in Agents : Register(a)
        \/ Tick

CoordinationSpec == CoordinationInit /\ [][CoordinationNext]_coordinationVars

-----------------------------------------------------------------------------
(* Properties.                                                                *)

(* A receipt is the consumer's own, for a notification that is still there,   *)
(* and a notification that is not unread has a receipt that says so, whatever *)
(* sweeps and acknowledgements came between.                                  *)
ReceiptsAreTrue ==
    /\ \A x \in receipts : /\ x.consumer = x.target /\ x.message \in DOMAIN messages
                           /\ x.target \in DOMAIN messages[x.message].notes
    /\ \A m \in DOMAIN messages : \A a \in DOMAIN messages[m].notes :
         messages[m].notes[a].status # "unread" =>
           \E x \in receipts : x.message = m /\ x.target = a
                               /\ x.status = messages[m].notes[a].status

(* What is deleted is due: a post in any deployment, so never one a routing   *)
(* decision refers to; a message in one process, where no acknowledgement     *)
(* comes between the selection and the deletion.                              *)
OnlyDueIsDeleted ==
    [][/\ DOMAIN posts \ DOMAIN posts' \subseteq DuePosts
       /\ oneProcess => DOMAIN messages \ DOMAIN messages' \subseteq DueMessages]_coordinationVars

(* In one process, a post that no mark of an agent ever covered counts as     *)
(* unread for it, whatever was deleted and however cursors moved.             *)
UncoveredIsUnread ==
    oneProcess => \A a \in Agents, r \in Rooms : InRoom(r) \ covered[a] \subseteq UnreadPosts(a, r)

(* An agent that follows the cursors of its inbox to the end has been shown   *)
(* every message that was unread from the first page to the last, though      *)
(* messages arrive, are acknowledged and are deleted under it.                *)
WalkMissesNothing ==
    walk # None => (walk.ended => walk.must \cap Unread(walk.agent) \subseteq walk.got)

(* What agents are told of what they have read is true, whatever sweeps and   *)
(* acknowledgements came between.                                             *)
ReceiptsAndCursorsAreTrue ==
    /\ CoordinationTypeOK
    /\ ReceiptsAreTrue
    /\ UncoveredIsUnread
=============================================================================
