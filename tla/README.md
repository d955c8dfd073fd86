# Multi-Agent-Memory: TLA+ models and proofs

This directory models the server of Multi-Agent-Memory (`src/memoryendpoints`), a
WSGI application over an SQL store (SQLite by default, MySQL in production, one
JSON file for development) that keeps shared memory, messages, work claims and
credentials for the agents of several companies and workspaces, its MCP server,
and the client library that connects an unattended service to it
(`src/memoryendpoints/managed_connection.py`).

`PROJECT.json` lists every component, run, mutated form, mapped definition,
hazard and theorem; this file explains them. Abbreviations: `ST` is
`src/memoryendpoints/storage.py`, `APP` is `src/memoryendpoints/app.py`, `MC` is
`src/memoryendpoints/managed_connection.py`, `CMS` is
`src/memoryendpoints/commons_storage.py`, `MCP` is
`src/memoryendpoints/mcp_server.py`.

## 1. The system

The program is one WSGI callable (`APP`, `application`) over one store object
(`APP:1610`, `_store`). A hosting front end (Passenger) runs it in several worker
processes, each of which may run several threads; `serve_lan.py` runs one process
with threads. There is no background thread in the server: retention, expiry and
the end of leases are evaluated by the request that meets them. What interleaves,
and how:

- `_LOCK`, a re-entrant lock of `storage.py`, serialises the *store calls* of the
  threads of one process. A handler makes several store calls and holds nothing
  between them.
- Processes exclude each other only through the database. On SQLite, Python's
  driver opens a transaction at the first INSERT, UPDATE or DELETE, so the SELECTs
  before it are autocommitted and see different states. On MySQL autocommit is off
  and the isolation is REPEATABLE READ: the first plain SELECT fixes a snapshot,
  while `SELECT ... FOR UPDATE` and UPDATE see the present rows.
- The connector, Commons, bootstrap and human-memory calls take the write lock
  first (`BEGIN IMMEDIATE`, `FOR UPDATE`): each of their transactions is atomic.
- `with connection:` commits when the block is left without an exception, also by
  an early `return`: whatever was written before a refusal is committed.
- A call is authenticated in a transaction or a store call of its own, before the
  one that acts: between the two the credential may end.
- A request may be repeated by its client, duplicated on the way, or cut off at
  any point; a worker may be killed at any point.

### Components

| Component | State | Operations | What is hard | What makes it correct |
| --- | --- | --- | --- | --- |
| Idempotency reservations | `matm_idempotency`; claim flags of the request | claim, replay, conflict, mark, record, release | duplicates in two processes, crashes and failures between mutation and record | one effect per key; genuine replays; no reservation is dropped after an effect |
| Distributed sync | devices, revisions, heads, receipts | register, rotate, revoke, submit, readback, page | stale heads, shared sequence, revoked devices, paging under commits | head = last applied; no lost update; deletes are final; a replayed copy lacks only what is ahead |
| Local `.uai` edit claims | claims, heads, outbox | acquire, heartbeat, complete, release, list, sweep | leases that end between read and write, isolation of two databases | one active claim per path; compare-and-swap completions; closed stays closed |
| Managed connection client | controller record, enrolment files, profile lock | install, initialise, reconcile, redeem | crashes between disk and network, late requests, overlapping controllers | no credential is lost; ends are final; attempts take turns and end |
| Agent access | requests, identities, invites, grants, tokens, replacements | request, decide, invite, redeem, authenticate, revoke, replace | concurrent decisions, repeated redemption, late activation | one token per invitation, no access without a live chain of authority |
| Connector pairing | requests, pairings, codes, credentials, rotations | create, approve, claim, exchange, activate, rotate, disconnect, cancel, revoke, expire, purge | lost answers, expiry between calls, two live credentials | authority is given once and handed on; the client is never locked out by a rotation |
| Commons | policy, enrolments, profiles, sessions, rooms, messages, acknowledgements | enrol, decide, expire, compact, join, publish, correct, withdraw, acknowledge, rotate | capacities, expiry materialised late, calls that act after their credential ended | no name or credential is held twice; attribution survives compaction |
| Direct messages, meeting rooms | messages, notifications, receipts; rooms, posts, cursors | submit, page, acknowledge; create, post, route, mark read; sweep | retention against acknowledgement, paging by cursor | receipts are true, walks are complete, only what is due goes |
| Records | packages, `.uai` records, memories, reviews, knowledge, links, projects | create, upsert by revision, submit, promote, decide, cite | stale merges, late second decisions, quota read beforehand | revisions form a chain, the last review governs, the quota is nearly kept |
| Human owners | proofs, accounts, authorities, sessions, contexts | enrol, login, re-authenticate, select, submit | concurrent rotations, proofs presented twice | one authority per proof, one successor per session |
| Company: bootstrap, master keys, lifecycle | companies, setups, keys, intents, exports | bootstrap, delegate, register, close, delete, restore, purge | stale issuers, intents used twice, order of delete and restore | authority is current; limits hold; purged stays purged |
| Outbound MCP policy, rate limits | servers, policies, approvals, checks; windows | register, approve, decide; count | policy read before its use; window edges | an allowed check is allowed at that moment; windows stay within limits |
| File store | one JSON document | all of the above | whole-file rewrite, unlocked methods, several processes, a crash while writing | the document is consistent after every call |
| Inbound MCP server | consents, codes, tokens; tool calls | authorise, exchange, refresh, revoke, call | lost answers, reuse, crashes in the one tool that writes | a grant is used once, an ended family stays ended, one memory per call |

Interactions. Every mutating route of `APP` goes through the idempotency
reservations: the handler claims, calls the store, marks the mutation as
started, reads back, records the response; `application` releases or preserves
what is left. Agent access issues the credentials that the managed client redeems
and that every other route authenticates; connector pairing and the Commons insert
into the same identities, grants and tokens; closing a company ends, in one
transaction, what they have granted. A post may be promoted to a memory record;
knowledge records are cited by links; every write counts against one quota. The
tool of the MCP server goes through the same reservations as the routes.

## 2. Modules

| Module | Component |
| --- | --- |
| `Idempotency`, `MutationContract` | reservations, and the contract of a mutating request |
| `DistributedSync` | distributed sync |
| `UaiEditClaims` | local edit claims |
| `ManagedConnection` | the client library against the invitation of the server |
| `AgentAccess` | agent access, with the closing of a company |
| `ConnectorPairing`, `Commons`, `ConnectorGrant` | pairing, the Commons, and the grant that both implement |
| `Coordination` | direct messages and meeting rooms, which share the retention sweep |
| `Records` | packages, memories, reviews, knowledge, links, projects, quota |
| `Ownership` | bootstrap, master keys, humans and their sessions, console, company lifecycle |
| `FileDocument`; `FileWorkspace`, `FileAccess`, `FileGovernance`, `FileAgents`, `FileConnectors`; `FileStore`; `FilePromises` | the JSON document; its methods; lock, load and save; what it promises |
| `InboundMcp` | the MCP server |
| `...Proofs` | theorems of the modules named before it; `SyncAndOwnershipProofs`, `AccessAndCoordinationProofs`, `ManagedAndInboundProofs` and `ClaimsAndFilesProofs` serve two components each and `WritesAndPairingsProofs` serves reservations, records and pairing; `FileDocumentsProofs` and `FileCredentialsProofs` hold the lemmas about documents and methods that the theorems on the file store rest on |
| `MC...` | the instance for TLC |

What composes with what. `Coordination`, `Records` and `Ownership` each put several
components over the state they share, and so does `FileStore`, which joins all
methods of the file variant over one document. `Commons` and `ConnectorPairing`
are two implementations of one abstract specification, `ConnectorGrant`: authority
is given once, is passed on from credential to credential, and an end is final.
The other modules meet through what each keeps of its neighbours: `AgentAccess`
has the company's life, `ConnectorPairing` the identities that invitations take
(`TakeName`), `Commons` the access requests of invited agents (`Invited`),
`ManagedConnection` the server's row of the invitation.

## 3. Conventions

Each module is parameterised by CONSTANTS with one named assumption; an `MC` module
gives values and symmetry. One action stands for one store call's transaction, or for
one autocommitted statement where another process may act in between. Definitions
keep the names of the source where they can. A *mutated form* stands before the
definition it mutates: a plausible bug, listed under `mutants`, which makes the
named property fail in the named run. In proofs, `IInv` is the inductive invariant
of a module. Validation, redaction, hashing and rendering appear only as the free
choice of an action to refuse. Deadlines are flags that turn TRUE at any time where
only their order with other steps matters, and ticks of a clock where durations do.

A listed property is often the conjunction of a few named ones, each with its own
comment; the conjunction is what a run checks and a theorem proves.

Some constants choose among *deployments* or *lanes*: a behaviour picks one at the
start and keeps it. A deployment is a number of processes, and for the edit claims
a database. A lane is a group of calls that share state with each other: a
behaviour uses one group, so that each group gets enough calls for its interesting
cases. What a lane leaves out is the interleaving of calls that meet in no table.

Where a property is only promised for the threads of one process, its statement says
so (`oneProcess`, `OneProcess`, `Serialised`), and section 6 tells what happens in
several.

## 4. The modules

### Idempotency (`Idempotency`, `MutationContract`, `WritesAndPairingsProofs`)

A *request* is one HTTP attempt; a retry, a duplicate or a delayed copy is another
request with the same key and body. `table` is `matm_idempotency` by record key
(workspace, operation and the key scoped to the principal, `APP:309`); a row
holds the hash of the body and either the pending claim or the final response.
`claim` are the flags that the request keeps in the WSGI environment
(`mutationStarted`, `outcomeUncertain`, `finalized`); a crash loses them and not
the table. `applied` are the requests whose store call committed.

The actions follow a request: one of the four `Claim…` outcomes (`ST:18437`),
`Refuse`, or `Mutate`, `MarkStarted`, `ReadbackFails` or `Record`, and `Release`
in the `finally` of `application`. Every store call can also raise before or
after its commit (`ClaimRaises`, `MutationRaises`, `RecordRaises`,
`ReleaseFails`), and the worker can die at each step (`Crash`).

*Run* `idempotency`: three requests, two keys, two bodies, every assignment of
keys and bodies: a first try, its retry and a changed reuse at once.
`OneEffectTrulyTold`: a key has one effect (`AtMostOneEffect`), a stored response
goes only to exact copies (`AnswersNameTheEffect`), handlers of one key exclude each
other (`ExclusiveHandler`). `RowsAreFinal`: a stored response is never replaced.
`ImplementsContract` is the refinement, `EveryRequestSettles` the liveness. Three
requests are an owner, a competitor and a late observer; the protocol compares
requests for equality only.

*Fairness*: each worker that is not killed takes its next step (`WF` of
`Serve`). `ClaimTimeout` is part of it: the polling loop has a deadline
(`ST:18496`), which is what keeps a key that stays pending for ever from
blocking its copies.

A key whose owner died after its mutation stays pending for ever; that is what
`_release_request_idempotency_claims` intends ("requires operator
reconciliation", `APP:5690`), and `MutationContract` allows it.

### Distributed sync (`DistributedSync`, `SyncAndOwnershipProofs`)

`device` is `matm_sync_devices`; `log` the revisions by `server_sequence`;
`head` the sequence of each memory's head; `receipt` the receipts by the call that
wrote them. A call starts by reading its device, then the head, then the last
sequence (`ST:20258`, `:20277`, `_sync_next_sequence_sql`), and writes revision,
head and receipt in one transaction (`Commit`), refused as a whole when a unique
index is violated (`RowsFit`, `StoreRaises`). Confirmation reads the store again
without the lock (`Confirm`, `ReadbackRaises`). `Snapshot` says whether the reads of
a call see one state.

`SelectPage` is `sync_changes`, which selects a row more than the page has
(`LastRow`) and answers the items and `nextAfterSequence` (`Items`, `NextAfter`).
The client is external: it replays the items of an answer one by one (`Replay`) into
`copy`, its notion of the heads, keeps the checkpoint after the last (`Follow`), and
may lose an answer or start again in the middle of one (`StartOver`). Any step of any
call comes between two of these.

*Run* `sync`: three calls in up to two processes with snapshot reads, one memory, one
device, two epochs, a reader with pages of one. Two mixes are followed (`Mixes`): edits
that name no device in any processes, or every call but a deletion, with the
rotations and revocations of the device, in one process. The reader reads beside
edits of one process: it can tell calls apart only by what they log, and these log
all that edits can. Three mutations make the
shortest history in which a deleted memory could come back or a child could lose
its parent. `HeadsFollowTheLog`: heads are the last applied revision,
tombstones are final, and a client that replays pages has for each memory a revision
that was applied to it, the head itself unless that is ahead of its checkpoint
(`CopiesLackOnlyWhatIsAhead`; a checkpoint taken from the row beyond the page breaks
it). `ReceiptsAreTrue`: answers and receipts name what was committed, a problem is
answered only where there is a receipt to learn from, no revision lacks its receipt,
and a receipt is found by one key. `HeadOnlyReplacedByItsChild`
is the compare-and-swap of heads. `AuthorityIsCurrent`: epochs only advance and a
revision is written under the epoch of its device, in one process.

### Local `.uai` edit claims (`UaiEditClaims`, `ClaimsAndFilesProofs`)

`claim` is `matm_uai_edit_claims` (a claim is named by the call that inserts it),
`head` is `matm_uai_collaboration_heads`, `events` the completion events of
the outbox. Every store call sweeps first (`_expire_uai_edit_claims_sql`,
`ST:17213`): it reads the overdue claims and updates those rows, whatever has
become of them. `view` is what the store call has read; `Ready` says when it goes
on in one transaction: always on MySQL, on SQLite only if the sweep wrote
something or the call is an acquire. `TargetSeenActive`, `SeenHead` and
`ClaimSeenActive` say which of the two isolation levels each read has. After an
operation, the handler confirms by two more store calls (`ConfirmClaim`,
`ConfirmHead`; `APP:5740-5765`).

*Run* `uai_claims`: three calls on one path, two hashes, leases of 2 on a clock
of 2 ticks, in four deployments (SQLite and MySQL, one process and two): a claim, its
expiry and a competitor, in every order. `TablesAgree`: heads and claims name each
other, revisions count completions, a confirmed change happened, events are true.
`ClosedByCompareAndSwap`: a completion replaces the content it was claimed for and
what is closed stays closed. `LeasesAreHonoured`: in one process no path is granted
during a lease. Paths are independent of each other, so one is enough; `Agents` has
one member, as a claim of another agent is refused before anything is changed.
Nothing here is eventual: a lease that nobody asks about is never swept.

On SQLite with two processes an event may be untrue: `complete` reads its claim in an
autocommitted SELECT, another process closes it, and the UPDATEs, whose row counts
nobody looks at (`ST:17513`), change nothing while the event is written. The answer
is still a problem, as `ConfirmedChangesHappened` shows.

### Managed connection (`ManagedConnection`, `ManagedAndInboundProofs`)

Controllers are processes that call `reconcile_managed_connection` for one
service; `disk` is the durable record of the compare-and-swap store, `files` the
installer's files with the enrolment state (`.pending`, `.target`), `lock` the
profile lock, `server` the row of the invitation, `network` the redemption
requests that may still arrive. A call reads the clock and the profile (`Begin`), the
record (`ReadState`), writes its attempt (`Intend`), takes the lock, resumes from
what is on disk (`Local`), redeems (`Send`), stores, promotes, verifies and
retires, and records how it ended (`Succeed`, `BackOff`, `Consult`). Between any two
steps the process may die; with `faulty` every file operation may fail, before or
after the rename that makes it durable. Times are relative, so no absolute clock
bounds the model: `due` counts down, and the `age` of a call is how far back its
clock lies.

*Run* `managed_connection`: two controllers, two tokens, a budget of two
attempts, lease and delay 1, calls of length up to 1, one crash. Two controllers
overlap in every way that one lock and one compare-and-swap allow; a budget of two
has a first, a last and an exhausted attempt; a call of length 1 outlives a lease of
1. `EnrolmentSurvives`: no credential is lost, files never conflict, an
interrupted installation can be resumed, and what is recorded as active is enrolled.
`AttemptsAreBounded`: ends are final and attempts wait their turn. `AttemptsEnd` is
the liveness.

*Fairness*: the supervisor keeps calling, a running call keeps running, time passes.
`AttemptsEnd` assumes in addition that the files work (`~faulty`), as a store that
never accepts a write keeps any record for ever.

Abstracted: paths, signatures of profiles, secret protection and the validation of
documents are success or failure. The store's own lock, taken with a timeout of
zero, is modelled as a failing write; that it is busy for an instant is therefore
possible only in the faulty runs. The state file is taken to be in a directory of
its own. `connect_managed_agent`, the per-user diagnostic, takes the same steps
under the same lock without the record and is not modelled separately.

### Agent access (`AgentAccess`, `AccessAndCoordinationProofs`)

One company. `request` are the access requests, `invite` the invitation of each (a
reissue replaces the row; `round` counts), `token` the tokens with their grants,
`replacement` the replacements by their successors, `company` and `intent` the
lifecycle. `caller` holds whose master credential was accepted: it is verified in
a store call before the one that uses it, so a company may close in between.
`identity` are the names with an identity row.

A store call is two steps: what it reads and decides (`Read…`, kept in `held`), and
what it writes (`RequestAccess`, `Decide`, `IssueInvite`, `Prepare`, `Confirm`, `Drop`,
`Close`, `SoftDelete`, `Restore`, `Purge`). `Unlocked` keeps the threads of one process
apart, so with one process the two steps are as one. Calls whose writes repeat
what they read in their WHERE clauses are one step. `FindNothing` is a call
that decided before the company was purged: its updates match nothing and its
inserts violate a foreign key.

*Run* `agent_access`: one name, invitations reissued once, one closure intent at a
time, and four deployments with bounds of their own: one process or two, each once
with three tokens (a token, its successor and a rival) and closing only, and once
with every purpose of closure and as many closures, deletions, restores and purges
as there may be. Two requests, so that names compete, are made where one process
closes only. `TokensAreSound`: a request gives one token, replacement rows are
true, a token has one successor and a name one holder. `ClosedHasNoCredential`, and
`RevocationsHold`: no successor undoes a revocation. One token per request and true
replacement rows hold for any number of processes; the others state `Serialised`,
one process, because they fail without it (section 6). Nothing here is eventual:
every expiry waits for a call that meets it.

Abstracted: a known idempotency key turns a call into an answer that changes nothing;
scopes, capabilities, secrets and the authority of the human session are choices to
refuse; `EntryAvailable` keeps of the entry room that its workspace is active. Left
out: Commons-only tokens, which these calls refuse; the four
`…_agent_token_replacement` methods that no route calls; master keys issued
after a restore.

### Connector pairing (`ConnectorPairing`, `ConnectorGrant`, `WritesAndPairingsProofs`)

A request is created, approved by a human, claimed for a code, exchanged for a pending
credential and activated; later the credential is rotated. `request`, `pairing`,
`cred` and `rotation` are the four tables; `identity`, `workspaces` and `agents` what
an activation inserts beside them. `vault` is what the desktop holds: the answer that
carries a secret may be lost (`Heard`), and the exact retry derives it again
(`RetryExchange`, `RetryPrepare`). Every call takes the write lock before it reads, so
a transaction is one step; rotate, disconnect and cancel authenticate in one before
their own (`Authenticate`, `caller`). `Sweep` is `expire_connector_pairings`, which
heads most calls; each call also checks its own deadline. Early returns commit what
they wrote: `RefuseName` is an activation that finds its name taken after inserting
the workspace.

*Run* `connector_pairing`: two requests that compete for the name, three credentials (a
first, its successor, another's), two calls between authentication and transaction,
lost answers and deadlines at any point, and the company closed, deleted and restored.
`PairingsAreSound`: credentials follow their pairing and a name has one holder.
`NeverLockedOut`: the desktop holds the credential that is accepted. `ImplementsGrant`:
authority is given once, passes from one to the next, and is never had again.
`PendingIsResolved`: every code, provisional pairing and rotation is used, ended or
expired, without the desktop's help.

*Fairness*: time passes, and calls that sweep keep arriving. Nothing is asked of
the desktop or of the people.

A pairing that expired leaves its request `exchanged`, so the name stays reserved until
`purge_abandoned_connector_pairings`, which only tests call; disconnect and
revocation never free the identity. A call authenticated by a credential that is
superseded before its transaction is still carried out (`ST:27273`, `:27472`).

### Commons (`Commons`, `ConnectorGrant`, `CommonsProofs`)

One project. An agent enrols itself under a name with a credential that it generated,
at once or after an approval; it rotates and revokes the credential, opens browser
sessions, joins the room, publishes, corrects, withdraws and acknowledges. A request is
named by the credential it proposes, an agent by its name. `caller` is the calls
between their authentication and their transaction, each with the versions of the
messages its agent had read. Compaction is part of the call that needs the room
(`Retire`, `Lapsed`); a refusal rolls back. Master revocations and the access
requests of invited agents touch the same rows (`RevokedByMaster`, `Invited`).

*Run* `commons`: six settings, as the parts of the state grow independently: competing
enrolments under both policies with room for one agent; one agent with two
credentials and two sessions; two agents in the room; two agents with room for one; a
reply; a session in the room. `AgentsAreDistinct`: no name, credential or session is
held twice, and an agent that took part in public is never retired.
`ChangesFollowTheReading`: a message changes only by a call that had read the version
it changes and whose credential is the agent's at that moment. `ImplementsGrant`: the
same promise as the pairing's, by a refinement mapping from names and tokens.

The other ceilings (rooms, memberships, messages) have the same shape as the two
modelled; batch limits and the revision of the policy are abstracted. The file
variant is the same rules behind one lock. A call of a browser session that was
revoked before its transaction is still carried out (`CMS:3466`).

### Direct messages and meeting rooms (`Coordination`, `AccessAndCoordinationProofs`)

A call is a sequence of store calls, a store call a sequence of statements; what is
read before the first write of a transaction may be gone when the writes run. `calls`
says where each worker is and what it read. Every reading of an inbox or a transcript
begins with the sweep (`Sweeping` selects, `Purge` deletes). `walk` is an agent that
pages through its inbox by cursors, `covered` a history of what an agent marked read.

*Run* `coordination`: two agents, one of whom may register later, two workers in one
process or in several, two rooms of which one is a default, three creation times, a
clock of two ticks with retentions of 0, 1 and 0, three calls of the inbox on two
messages sent before, or three of the rooms. `ReceiptsAndCursorsAreTrue`: receipts
and notifications agree and, in one process, what no mark covered counts as unread.
`WalkMissesNothing`: a walk shows everything that was unread throughout.
`OnlyDueIsDeleted`: a routing decision keeps its post, and in one process an
acknowledgement keeps its message as long as the retention says.

Behaviour that the model has and no property forbids: agents are never inactive, so
broadcasts address retired ones; a recipient may acknowledge before the sender's
readback, and the sender is answered 500 with its key reserved; a late mark-read
moves a cursor back; two acknowledgements with different keys each write a receipt;
the loser of two racing room inserts fails. In several processes a post may be
stamped before a mark and committed after it, and stays behind the cursor; and a
mark whose post is swept in between leaves a cursor that counts nothing as unread.

### Records (`Records`, `WritesAndPairingsProofs`)

Memories with their reviews, the virtual package of an agent with its `.uai` records and
their revisions, knowledge documents with sources and supersession, links with
citations, and projects. `usage` is what the quota counts, `unchecked` the part written
by calls that do not ask. Each call is the check of the quota in a connection of its
own (`CheckQuota`), a read and a write.

*Run* `records`: two workers in one process or in several, up to four calls from one
of four groups of tables, with quotas that the calls reach. `RecordsAreTrue`: a
search shows a memory exactly while the last decision allows it, the revisions of a
record have no gap and its package is ready exactly when the required records are
there, and admitted writes exceed the quota by at most one for each worker beside
the last. `UpsertsCompareAndSwap`, in any deployment; `LinksAccumulate`, in one
process: with several, the merge of keywords and review may use a stale row.

Nothing makes a review final: a later decision replaces an earlier one, and the
model shows that memory and search follow. A superseding document is only checked to
exist. The confirmation of memory, knowledge and link writes looks in the last 50
audit rows, so it may miss the row under more concurrent writes than that; the
readback that misses is in `Idempotency`. Package and record calls are only more
atomic on MySQL, whose `FOR UPDATE` reads the model does not assume.

### Ownership (`Ownership`, `SyncAndOwnershipProofs`)

The companies and who may act for them: bootstrap with a capability, master
credentials issued by another or by the top-level agent, proofs of a master
credential and what humans make of them (accounts, authorities), their sessions and
contexts, the memories they submit, and intents, closing, soft deletion, restore,
purge and export. `sessions` is a sequence: every rotation appends a successor
(`from`, `root`), and a login expires with all its successors. A call is
authenticated when it begins and acts in a later step, in which the read and the
write are apart for calls that do not take the write lock first (`DelegateRead`,
`RegisterRead`, `ClosureRead`, `RestoreRead`).

*Run* `ownership`: one company, three keys with a limit of two, two proofs, accounts
and intents, and seven groups of calls, each from the situation it needs: no company
yet, or one with an owner who has selected it. `OwnersAreSound`: a proof makes one
authority, the limit holds, and two successors of one session are never both made by
calls that count its end. `ActsAreAuthorised`: in one process a key is issued on a
word that counts at that moment; a memory is written for an open session of an
owner. `PurgedStaysPurged`: no capability, request or credential brings a purged
company back.

Reached by no route, so left to the start or to environment steps:
`create_free_account`, and the creation of accounts by the bootstrap scripts. The
proof of a master credential does not look at the credential's revocation. Human
memories skip the quota.

### File store (`FileDocument`, `FileWorkspace`, `FileAccess`, `FileGovernance`, `FileAgents`, `FileConnectors`, `FileStore`, `FilePromises`, `FileDocumentsProofs`, `FileCredentialsProofs`, `ClaimsAndFilesProofs`)

`FileStore` keeps every table in one JSON file: "explicit development fallback" in
`docs/storage-backends.md`. `FileDocument` is a document, a function from keys to
entries, with the sweep of `_load`. The five modules after it give each method as an
operator from a document and a call to the document it saves, or `Refused`:
workspace records; rate windows, outbound servers and policies; companies, humans
and their sessions; agents' access; connectors. `FileStore` is the protocol around
them: a call is the `Sections` its route runs, each of which loads, changes and
saves; `_LOCK` is held from load to save except by the methods of `WithoutLock`; a save
replaces the file at once, or writes into it where replacing is not permitted, and
may crash half way; so does the save of a load that swept (`Tidy`, `SweepInPlace`). The requests of `lane.start` come first, one after the other,
and run as any other (`Preparing`, `Offered`); those of `lane.calls` follow, side by
side. `Formed` says what a request is: each identifier in it is one of the section
in which its method looks it up, and what a client chooses itself (a token, a master
key, a setup) is nothing that the store generates. The situations are of such
requests (`LanesAreFormed`), and nothing else is assumed of them.

*Run* `filestore`: 37 situations, each a document made by the methods themselves, call
by call, and a few calls that arrive at two workers in one process or in two, with
deadlines that pass. `CredentialsAgree`, `DocumentsAgree`: what a call writes in
several places fits together in every document. `CallsRespectEnds`: nothing that ended
comes back unless a stale document is saved over a newer one, and a check recorded as
allowed is one that the server and the policy of that moment allow (`AllowedIsCurrent`,
said of the situations of one process whose calls all take the lock). `LockHolds`: in one process a locked section saves what it made of the
document that is in the file (`Stale` says when not, also for the sweep that a load
saves and for a write in place), and no request meets half a file unless the process
crashed. A locked call that has to sweep is in the `messages` situation, and in
`swept in place` the sweep goes into the file and may be cut.

An unlocked method does lose updates: a revocation saved between its load and its
save is undone, a reserved key too. Between two sections the company may be purged,
and `create_human_session`, `create_company_master_proof` and the export receipt
then insert rows of it. Other observations of the translation: workspace methods
such as `submit_memory` do not check that the workspace exists; `upsert_project`
sets a closed company's project active; `confirm_human_agent_token_replacement`
marks the successor's grant active although a master revoked the successor; approval
and exchange do not check that the company is open (its activation does);
`meeting_messages_page` returns a tuple for a missing room; re-authentication and
logout raise `KeyError` for a purged session.

### Inbound MCP server (`InboundMcp`, `ManagedAndInboundProofs`)

`consents`, `codes` and `pairs` are the tables of the server's own SQLite file; a
family is named by its first pair of tokens. `_connect` begins a block by an UPDATE
of the token tables (`MCP:437-446`), which takes the file's write lock, so a block
is one step in any process; the conditional updates are a second guard that never
decides. The tool `memory_remember` reserves a key of the family and the message id,
submits, reads back and records, and holds nothing between these (`Bearer`,
`ClaimKey`, `Submit`, `RecordAnswer`). A submission may raise before or after its commit;
unlike `APP`, the tool then releases the key (`SubmitRaises`), so `WrittenOnce`
assumes `sure`, that a commit which raises wrote nothing. `HandlerStops` may come at
each step.

*Run* `inbound_mcp`: two consents, two codes, four pairs (a chain of three and a
rival), two tool calls with one message. `GrantsAreSound`: one code from a consent,
one family from a code, one live refresh token in a family. `EndedStaysEnded`: reuse
or revocation ends a family for good. `WrittenOnce`: a repeated call writes one
memory. Reusing a code does not revoke what it gave; a lost refresh answer followed
by a retry ends the family; rotation leaves the old access token valid until it
expires; and access is checked when a tool call starts, so it goes on after its
family ended.

## 5. Proofs

All proofs are checked for every value of the constants, from the module's
assumption on them alone.

- Reservations (`WritesAndPairingsProofs`). `IInv` relates the stage of each request to the row of its
  key: a request that works owns the row; a request whose mutation is applied has
  the row pending or final; only a request with no flags can drop it. From it follow
  `EffectOnce`, `EffectReserved`, `AnswersGenuine`, `Exclusion`, together
  `ClientsAreToldTrue`; `FinalRows`; and step by step the refinement of
  `MutationContract` (`Refinement`). `AtMostOneEffect` alone is not inductive: it
  needs that the row of an applied request was never freed.
- Distributed sync (`SyncAndOwnershipProofs`). `HeadsFollowLog` holds for any isolation: the commit is
  refused by the unique index on the sequence unless no one has committed since the
  sequence was read. `NoLostUpdate` and `NoResurrection` have the hypothesis
  `Serialised` (snapshot reads, or one process): then a call that passes the index
  also read the present head. Without it both are false (section 6).
  `CopiesKeepUp` carries `ReadersFollow`: what a reader holds is a piece of the log
  right after its checkpoint, as rows are only ever appended; the items replayed
  count as passed, and a head that was passed is what the copy names, also when an
  interrupted replay is repeated from its beginning; a commit moves a head beyond
  every checkpoint. It holds for any page size and number of readers. `ReceiptsTrue` ties an answer to the
  receipt that the call or an earlier one of its key wrote. `AuthorityCurrent` uses
  that with one process nothing has come between a call's reading of its device and
  its commit. `HeadsAndReaders` puts the parts of `HeadsFollowTheLog` together.
- Edit claims (`ClaimsAndFilesProofs`). `IInv` says of each call what its view still guarantees: a
  claim read as active is active or closed now, a claim overdue when read stays
  overdue unless it was extended, and with one process nothing has changed since the
  view was taken. `LeasesHold` and half of `HeadsAgree` use the last part; the rest
  of it, `CompletionCompares` and `ClosedStayClosed` (together `ClosesOnce`) hold in
  every deployment. `TablesTellOneStory` is the whole of `TablesAgree`. A second
  invariant, `HInv`, carries the history that its parts need: the revision of a head
  is the number of completions on its path, a finite set that grows by the one claim
  a step completes (`RevisionsAreCounted`); what a call saw stays named by the rows
  while it is confirmed (`SeenStayNamed`), and its answer is what its UPDATEs did
  (`ResultsAreTrue`), so that a change that both readbacks confirm has happened.
- Managed connection (`ManagedAndInboundProofs`). `IInv` has four parts: the lock is held by the call
  whose step needs it; each step fits the files it has left (`StepsFitFiles`); the
  credential invariants (`NoCredentialIsLost`, `NoConflictingFiles`,
  `CredentialsAreRedeemed`, `ResumableInstallation`); and the record
  (`ActiveIsEnrolled`, and that `current` calls have read the present record).
  `CredentialsKept` is the main theorem: it needs `StepsFitFiles` because a
  credential is safe only while no step can make up a second token.
  `EnrolmentIsKept` and `AttemptsBounded` state what the run checks.
- Agent access (`AccessAndCoordinationProofs`). `RowsInv` is what the rows say of each other whatever the
  processes do: a replacement is `prepared` exactly while its grant is
  `pending_activation`, predecessors exist, a redeemed token and its invitation name
  each other. From it follow `RequestsGiveOneToken` and `ReplacementStatusIsTrue`.
  `SerialInv` adds, for one process, that what is `held` still holds
  (`DecisionsHold`), and that a company that is closed, or would be after a restore,
  has nothing open (`Shut`). From it follow `TokensHaveOneSuccessor`,
  `NamesAreUnique`, `ClosingEndsCredentials` and `RevokedTokensAreNotSucceeded`;
  `TokenRowsAreSound` is their conjunction that the run checks.
  `ClosedHasNoCredential` alone is not inductive: a deleted company that was closed
  is not closed, and is again after its restore.
- Inbound MCP (`ManagedAndInboundProofs`). `McpInv` says that a consent names one code (`CodesOnce`), that
  a family is headed by its first pair (`Headed`) and was given by one code
  (`FamiliesOnce`) with one refresh token to spend (`OneToSpend`), and that a claim
  is held by the one call whose memory is not yet, or just, written (`ClaimsHeld`).
  From it follow `GrantsSound`, `OneMemory` and `EndsStay`: an ended family has no
  live refresh token, and only a live one adds a pair.
- Connector pairing (`WritesAndPairingsProofs`). `PairingIInv` adds to `PairingsAreSound` what a row
  says of the rows it names: the current credential of a pairing that has not ended has its
  status (`CurrentFollowsPairing`, which the desktop's vault needs too), the request
  has gone as far as its pairing (`RequestsFollowPairing`: an exchange finds no
  pairing yet), and an accepted call's credential has a pairing
  (`CredentialsHaveOwners`). Every step is of one of eight kinds (`PairingSteps`): seven make
  or move something; disconnect, cancellation, revocation, closing, sweep, purge,
  expiry at a call and the passing of time are one, `OnlyEnds`, with one proof that
  the invariant survives it. The same kinds give the refinement of `ConnectorGrant`
  (`GrantIsKept`): an activation gives, a rotation passes, `OnlyEnds` ends, and the
  rest leaves the grant as it was. From `PairingIInv` follow `RowsAgree` and
  `DesktopHasAWayIn`.
- Commons (`CommonsProofs`). `IInv` adds to `AgentsAreDistinct` that the rows which name each
  other exist: a profile names a credential issued under its name
  (`ProfilesHaveTokens`), an accepted credential is the one its profile names
  (`CredentialsHaveNames`, which gives one credential per agent), sessions and calls
  have credentials, a request that waits has a name, and no one has read what is not
  published (`ReadsAreOld`). The steps are of six kinds (`Steps`); `Winds` covers all
  that begin a call or end something. From it follow `AgentsStayApart`,
  `ReadingComesFirst` and the second refinement of `ConnectorGrant` (`GrantIsKept`).
- Messages and rooms (`AccessAndCoordinationProofs`). `CoordinationInv` says what each
  call holds at each step (`CallsAreSound`), that creation times are given once and
  in order to whoever asked (`StampsAreFresh`), that notifications and receipts name
  each other across a sweep (`NotesAreSound`), that what a sweep selected is due
  when it is deleted (`StaleIsDue`), that one call of a process is in the store
  (`InsideIsAlone`), and where cursors and walks stand (`CursorsAreSound`,
  `WalkIsSound`). `WalkMissesNothing` alone says only what a finished walk has shown;
  `WalkIsSound` says what an unfinished one has behind it: every message that was
  unread throughout is shown or after the cursor, whatever is acknowledged, swept or
  sent meanwhile. From it follow `ReceiptsHold`, `WalksMissNothing`, `DeletedIsDue`.
- Records (`WritesAndPairingsProofs`). `RecordsInv`: a call merges with the
  row it read only where that is still the present one (`MergeIsPresent`, from
  `InsideIsAlone`), the admitted calls are counted (`NumbersAreCounted`), each of them
  may pass the quota by one (`QuotaIsShared`, over the finite set of workers that are
  past the check), the revisions of a record have no gap and end in it
  (`PackagesAreSound`), and the last review decides what a search shows. From it
  follow `RecordsTrue`, `UpsertsCompare` and `LinksOnlyGain`.
- Ownership (`SyncAndOwnershipProofs`). `OwnershipInv` says of the calls what they
  refer to (`ArgumentsAreSound`: a row named by a call that began stays, or went with
  its company when that was purged), that rows are those of companies once founded
  (`RowsAreOfFounded`), that an authority's proof is consumed and of no other
  (`ProofsAreSpent`), that the active masters of a company are a finite set within
  the limit (`MastersAreCounted`), that a session's successor names it and comes
  after it (`SuccessorsFollow`), and that with one process what a call read before
  its write is so when it writes (`ReadingsAreCurrent`). The limit and the currency
  of an issuer are not inductive without the last part, since the count and the
  insertion are two steps. From it follow `OwnersHold`, `ActsHold`, `PurgesHold`.
- File store (`FileDocumentsProofs`, `FileCredentialsProofs`, `ClaimsAndFilesProofs`). `LockInv` speaks of the
  records of the workers and of no method: with one process one worker holds the
  lock, and it has what is in the file, or what a sweep or its section makes of that
  (`HasRead`); half a file has a living writer or a crash behind it
  (`HalfIsWritten`). `LockIsKept` is `LockHolds` for any calls, sections, methods,
  situations and number of requests.

  `RecordsFitTogether` is `DocumentsAgree` and `CredentialsFitTogether` is
  `CredentialsAgree`. A document may be put back by a stale save, so the invariant
  `StoreInv` cannot speak of the file alone: every document that a call may still
  save, which is the one in the file, those in the hands of workers and those a call
  read in an earlier section, is `Sound` (`Known`): `Good`, with `Credentials`. `Good`
  is about one document and the request numbers not yet spent: each key belongs to
  its section and each entry names entries of the right sections (`Shaped`), nothing
  in it is named by an unspent number, a replacement and its tokens follow each
  other (`SuccessionInv`), and the records agree (`Records`: claims and heads,
  revisions and sequence numbers, packages, reviews, receipts, routing, approvals,
  windows, the finite sets that are counted among them). `FileDocumentsProofs` shows
  that each of the methods makes a good document of any good document
  (`OwnGood`, `AuxGood`), and so does the sweep: most change only
  sections that no agreement is about (`Free`), and each of the others has a lemma.
  No method is shown to need the present file, which is why lost updates cannot
  break the agreement.

  `Credentials` strengthens `CredentialsAgree` by what keeps it: the entries that a
  token, an authority, an invite, a pairing or a rotation names are there and of its
  company; a request of a pairing has gone as far as the pairing, so that an exchange
  finds none of its own; a pairing that is not activated has one credential, so that
  its activation leaves no other; the active masters of a company are a finite set
  within the limit; and in a company that is shut, closed or deleted after its
  closing, nothing is open (`ShutInv`), since a restore brings the closed status
  back. `FileCredentialsProofs` takes this through every method and the sweep
  (`OwnCredentials`, `AuxCredentials`, `SweepCredentials`). Most change no section that
  credentials are told in (`Untold`); others only end entries, which keeps every part
  that is about open ones (`CredentialsStay`); the rest make or name an entry and have
  a lemma each.

  `ClaimsAndFilesProofs` takes this through lock, load and save:
  a call's number stays unspent until its own section has made its document
  (`Awaited`), one worker runs a call (`SameCall`), and the sections that come before
  read and reserve but make nothing under the number (`Aux`).

The assumptions are on constants only and say that the values standing for "none"
are no values of the other sorts (`NoneIsNoWalk`, `NoneIsNoRow` and parts of the
others), that counters and bounds are natural numbers, that sets of workers and
required paths are finite and not empty where they are counted, that a limit of
masters is at least one, and that a lane which starts with an owner has the three
sessions which its start consists of.

Model-checked only: the liveness properties (`EveryRequestSettles`, `AttemptsEnd`,
`PendingIsResolved`), as liveness under fairness is out of the prover's reach; and of
the file store `CallsRespectEnds`. The argument for `DocumentsAgree` and
`CredentialsAgree` does not carry over to it: they say what a method makes of any
sound document, while `AllowedIsCurrent` relates what a call read in earlier sections
to the document it changes later, and needs the history of the policies' revisions.

## 6. Where the code and its documents disagree

The models do what the code does: each of these is a behaviour of the module named,
and the property that the document suggests is stated only as far as it holds. The
traces are short and were found by TLC with the plain form of the property.

- `DistributedSync`, `Snapshot = FALSE`. "A stale parent … returns a conflict
  receipt instead of silently overwriting the authoritative head"
  (`docs/api-contract.md:1843`). On SQLite with two processes A reads the head, B
  commits a child of it, A reads the last sequence and commits: a head is replaced
  that is not the parent (`ST:20277`).
- `DistributedSync`, `ReadbackRaises`. "Safe no-op means the system reports that it
  did not perform the requested action" (`docs/system-architecture.md:335`). A
  readback that fails answers a problem with `safeNoOp` after a commit (`APP:9264`).
- `UaiEditClaims`, several processes. A claim is granted "only when no unexpired
  active claim owns the path" (`docs/api-contract.md:1427`). A reads an overdue
  claim, its owner extends it by a heartbeat that began before its end, and A's
  sweep expires it all the same (`ST:17227`).
- `UaiEditClaims`, MySQL with two processes. A conflict "returns `409`,
  `safeNoOp=true`" (`:1431`). The head is read with a lock and the claim it names in
  the snapshot (`ST:17356`), where a claim committed in between is missing: the
  acquire inserts its own, finds the head taken, answers a conflict, and leaves that
  claim active.
- `ManagedConnection`. The reconciler "returns a closed redacted action" with its
  retry count and terminal state (`docs/api-contract.md:429`). The retry that the
  authority grants on the last attempt but one uses up the budget: every call then
  answers `quarantined` while the record says `retry_wait` (`MC:3294`, `:3544`).
- `AgentAccess`. Confirmation "atomically activates the successor and revokes the
  predecessor" (`docs/human-one-time-access-contract.md:124`). A pending successor
  that a master revokes is confirmed all the same (`ST:25558`), as neither the proof
  nor the update looks at its revocation: the predecessor is revoked and the agent
  has no working token.
- `Commons`, `Invited` after `Enroll`. "Names are unique per company"
  (`docs/api-contract.md:614`). An access request asks for a free name, an agent
  enrols in the Commons under it, and the approval reuses that identity
  (`ST:22652`): two agents share it. The converse order is refused (`CMS:2422`).
- `ConnectorPairing`, `RefuseName`. Cancellation and expiry leave "provisional
  workspaces, projects, agents, and grants non-durable"
  (`docs/api-contract.md:660`). An activation refused because its name is taken
  commits the workspace, and the identity if the registration is what is in the way,
  and nothing removes them (`ST:27011`).
- `Coordination`, `Sees`. "Exact retries replay the original safe response"
  (`docs/route-inventory.md:160`). The acknowledgement looks for an unread
  notification before it looks at its key (`APP:10843`), so the retry of one that
  was carried out may be refused.
- `Ownership`. `tests/test_human_lifecycle_storage.py:257` expects a selection to
  replace the session. It does not count the rows of the update that ends the
  session (`ST:24502`), as rotation does (`ST:24227`): a session that rotated since
  it was authenticated gets a second live successor.
- `Records`. A citation with an invalid order is refused with 422 after the row of
  the link was written, and the return commits it (`ST:16111`; the safe no-op of
  `docs/system-architecture.md:335`).

Met while modelling, and without a trace of their own:

- `ST:20241` turns every mutation other than `upsert`, `delete` and `hard_forget`
  into an upsert, so the operation `tombstone` of `docs/api-contract.md:1841` leaves
  an active head.
- `ST:20271` compares the epoch of a device only if the client sent one, so a
  mutation without it is applied after a rotation; `docs/api-contract.md:1833` says
  that mutations "must present the current epoch".
- With two processes, `rotate_sync_device` (`ST:20112-20135`) computes the epoch
  from a row read before its UPDATE: A reads epoch 1; B rotates to 2 and to 3; A
  writes 2, and the epoch that B's second rotation superseded is valid again.
  Registering a revoked device again has the same effect. Hence `OneProcess` in
  `AuthorityIsCurrent`.
- `ST:25578-25579`: with two processes, two pending successors of one token can both
  be confirmed, or one confirmed and an invitation for the same predecessor
  redeemed, as the updates of the predecessor may change no row. Two access requests
  for one name can both be made. Hence `Serialised` in `AgentAccess`.
- `ST:23781`, `ST:23798`: a closed company that is deleted twice records
  `soft_deleted` as the status to restore; the first restore gives that status back,
  and the second falls back to `active`. `tests/test_company_lifecycle.py:1125`
  expects `closed` after one deletion and one restore. Restoring also gives every
  workspace and project the status of the company, whatever theirs was (`ST:23801`).
- Two principals that use one `Idempotency-Key` reach different records, but the
  sync receipts are unique by key: the second insert fails, and its reservation
  stays pending.
- The setup of a bootstrap outlives a purge in SQL, so a replay is told that it is
  unavailable; `FileStore` purges the setup too, and the same capability, while it
  has not expired, makes the account again.

## 7. What is not modelled

- Schema, migrations and the MySQL adapter, HTTP dispatch, configuration, static
  site, browser code, scripts: no protocol of their own. What the adapter changes,
  the isolation of reads, is a constant of `DistributedSync` and `UaiEditClaims`;
  for the other modules MySQL's locking reads only remove interleavings.
- `SQLiteStore._load` and `_save` (`ST:20531-22533`), which convert the tables to
  the JSON document and back for exports, a health check and
  `scripts/migrate_file_store_to_sqlite.py`. Company exports and history policy are
  read-only projections and pure functions.
- The SQL variants of the outbound policy and of the rate limits (`ST:16258-16526`,
  `ST:12725-13090`): the rules are those of the file store in `FileAccess`, with
  transactions instead of its lock; their status is `partly`.
- Bounds on bytes, audit entries and `lastUsedAt`; listings and their cursors,
  except the inbox and the change log, whose cursors meet concurrent writes.
- Secrets are opaque values; what hashing and encryption promise is not examined.
  Rate limits of the MCP server are memory of one process and only refuse.

Some hazards are caught only in part, because the code has them: the model takes the
step, and the property says no more than what holds.

- Several processes. `_LOCK` is of one process, so a read and the write that relies on
  it are kept together only there: the successors of a token (`ST:25578`), the
  retention of acknowledged messages (`ST:15134`, the acknowledgement may come
  between select and delete), the issuer of a key (`ST:18060`), the merge of a link
  (`ST:16045`), the device of a mutation (`ST:20258`) and the overdue claim
  (`ST:17216`) are promised in one process.
- The file store. A method without the lock puts back the document it loaded, and
  what was saved since is lost (`ST:12222`); `LockHolds` speaks of locked sections. A
  process beside the writer may read half a file (`ST:3343`). A check of an outbound
  call may rest on a policy that another process, or an unlocked call, has replaced
  (`ST:5079`).
- Answers. A tool call whose submission raises after its commit releases its key, and
  the repeated call writes again (`MCP:1454`); an acknowledgement repeated after its
  notification was read is refused (`APP:10843`); a session selected after it has
  ended gets a second successor (`ST:24502`).

Bounds, beyond those named with the runs: identifiers are finite sets, so a
behaviour ends when they are used up and the system rests; deadlock is therefore
checked in `managed_connection` only, where the supervisor calls for ever, and what
has to go on is stated as liveness in `idempotency`, `connector_pairing` and
`managed_connection`.
