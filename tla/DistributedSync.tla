-------------------------- MODULE DistributedSync --------------------------
(***************************************************************************)
(* Distributed sync of one workspace (storage.py, sync_* of SQLiteStore,   *)
(* and the handlers of /api/matm/sync): device authorities, the numbered   *)
(* log of revisions, the head of every logical memory, the receipts, and   *)
(* clients that keep a copy of the heads by paging through the log.        *)
(*                                                                         *)
(* A store call reads its rows one statement after the other, then writes  *)
(* in one transaction.  _LOCK excludes the other threads of the process,   *)
(* not the other processes.  Without Snapshot the reads are autocommitted  *)
(* (SQLite); with it they all see the database as of the first (MySQL).    *)
(* The duplicates a reservation refuses are those of module Idempotency:   *)
(* here every call is one that got its reservation.                        *)
(***************************************************************************)
EXTENDS Naturals, Sequences

CONSTANTS
    Calls,          \* POST requests to the sync routes
    Processes,      \* worker processes of the server
    Snapshot,       \* the reads of a store call see one snapshot
    Operations,     \* the operations the clients ask for
    Devices, NoDevice,
    Memories, NoMemory,
    ClientKeys,     \* Idempotency-Key headers, before they are scoped
    MaxEpoch,       \* bound on rotations
    Readers,        \* clients that follow /api/matm/sync/changes
    Page,           \* their limit parameter
    NoRequest, NoView, NoReceipt

DeviceOperations == {"register", "rotate", "revoke"}

\* "tombstone" is what the contract document calls a delete, "hard_forget"
\* what the capabilities advertise as a safe rejection.
MutationOperations == {"upsert", "delete", "tombstone", "hard_forget"}

Request == [op : Operations, device : Devices \cup {NoDevice}, epoch : Nat,
            memory : Memories \cup {NoMemory}, parent : Nat,
            key : ClientKeys, process : Processes]

Device == [status : {"none", "active", "revoked"}, epoch : Nat]

\* What a store call has read: its device, the head, the last sequence.
View == [device : Device, head : Nat, last : Nat]

Revision == [by : Calls, status : {"applied", "conflict"}]

Receipt == [status : {"applied", "conflict", "rejected"}, revision : Nat]

Stages == {"idle", "reading", "counting", "writing", "confirming", "done"}

Answers == {"none", "device", "applied", "conflict", "rejected", "refused",
            "problem", "uncertain"}

ASSUME ConstantsAssumption ==
    /\ Operations \subseteq DeviceOperations \cup MutationOperations
    /\ Snapshot \in BOOLEAN
    /\ MaxEpoch \in Nat \ {0}
    /\ Page \in Nat \ {0}
    /\ NoDevice \notin Devices
    /\ NoMemory \notin Memories
    /\ NoRequest \notin Request
    /\ NoView \notin View
    /\ NoReceipt \notin Receipt

VARIABLES
    device,     \* matm_sync_devices
    log,        \* matm_sync_revisions, by server_sequence
    head,       \* matm_sync_heads: sequence of the head revision, 0 if none
    receipt,    \* matm_sync_receipts, by the call that wrote it
    request,    \* what each call asks for
    stage,      \* where the worker is in the call
    view,       \* what its store call has read
    answer,
    cursor,     \* after_sequence of each reader
    page,       \* the rows of the page it is working through
    played,     \* how many of them it has replayed
    copy        \* the revision it takes for the head of each memory

store == <<device, log, head, receipt>>
callvars == <<request, stage, view, answer>>
readers == <<cursor, page, played, copy>>
vars == <<device, log, head, receipt, request, stage, view, answer, cursor, page, played, copy>>

\* submit_sync_mutation turns an operation it does not know into an upsert.
Operation(c) ==
    IF request[c].op \in {"upsert", "delete", "hard_forget"} THEN request[c].op ELSE "upsert"

\* The applied revisions of a memory, by sequence.
Applied(m) == {i \in DOMAIN log : log[i].status = "applied" /\ request[log[i].by].memory = m}

Tombstone(i) == i # 0 /\ Operation(log[i].by) = "delete"

HeadOf(m) == IF m = NoMemory THEN 0 ELSE head[m]

NoDeviceRow == [status |-> "none", epoch |-> 0]

DeviceRow(d) == IF d = NoDevice THEN NoDeviceRow ELSE device[d]

TypeOK ==
    /\ device \in [Devices -> Device]
    /\ log \in Seq(Revision)
    /\ head \in [Memories -> Nat]
    /\ receipt \in [Calls -> Receipt \cup {NoReceipt}]
    /\ request \in [Calls -> Request \cup {NoRequest}]
    /\ stage \in [Calls -> Stages]
    /\ view \in [Calls -> View \cup {NoView}]
    /\ answer \in [Calls -> Answers]
    /\ cursor \in [Readers -> Nat]
    /\ page \in [Readers -> Seq(Revision)]
    /\ played \in [Readers -> Nat]
    /\ copy \in [Readers -> [Memories -> Nat]]

Init ==
    /\ device = [d \in Devices |-> NoDeviceRow]
    /\ log = <<>>
    /\ head = [m \in Memories |-> 0]
    /\ receipt = [c \in Calls |-> NoReceipt]
    /\ request = [c \in Calls |-> NoRequest]
    /\ stage = [c \in Calls |-> "idle"]
    /\ view = [c \in Calls |-> NoView]
    /\ answer = [c \in Calls |-> "none"]
    /\ cursor = [r \in Readers |-> 0]
    /\ page = [r \in Readers |-> <<>>]
    /\ played = [r \in Readers |-> 0]
    /\ copy = [r \in Readers |-> [m \in Memories |-> 0]]

----------------------------------------------------------------------------
(* The store calls: what they read                                         *)

InStore(c) == stage[c] \in {"reading", "counting", "writing"}

\* _LOCK: the store calls of one process exclude each other.
Unlocked(p) == \A c \in Calls : InStore(c) => request[c].process # p

Goto(c, s) == stage' = [stage EXCEPT ![c] = s]

Say(c, a) ==
    /\ answer' = [answer EXCEPT ![c] = a]
    /\ view' = [view EXCEPT ![c] = NoView]
    /\ Goto(c, "done")

\* The requests a client can send now: a parent it has heard of, an epoch for
\* a device only, and no memory only where no fresh id is made up for it.
DeviceRequests ==
    {q \in [op : Operations \cap DeviceOperations, device : Devices, epoch : {0},
            memory : {NoMemory}, parent : {0}, key : ClientKeys, process : Processes] :
        q.op = "rotate" => device[q.device].epoch < MaxEpoch}

MutationRequests ==
    {q \in [op : Operations \cap MutationOperations, device : Devices \cup {NoDevice},
            epoch : 0..MaxEpoch, memory : Memories \cup {NoMemory},
            parent : 0..Len(log), key : ClientKeys, process : Processes] :
        /\ q.device = NoDevice => q.epoch = 0
        /\ q.memory = NoMemory => q.op \in {"delete", "hard_forget"}}

\* The first SELECT of the call reads the device; a snapshot is all of it.
Start(c) ==
    /\ stage[c] = "idle"
    /\ \E q \in DeviceRequests \cup MutationRequests :
          /\ Unlocked(q.process)
          /\ request' = [request EXCEPT ![c] = q]
          /\ view' = [view EXCEPT ![c] = [device |-> DeviceRow(q.device),
                                         head |-> HeadOf(q.memory), last |-> Len(log)]]
    /\ Goto(c, "reading")
    /\ UNCHANGED <<store, readers, answer>>

ReadHead(c) ==
    /\ stage[c] = "reading"
    /\ request[c].op \in MutationOperations
    /\ view' = IF Snapshot THEN view
               ELSE [view EXCEPT ![c].head = HeadOf(request[c].memory)]
    /\ Goto(c, "counting")
    /\ UNCHANGED <<store, readers, request, answer>>

\* _sync_next_sequence_sql
ReadLastSequence(c) ==
    /\ stage[c] = "counting"
    /\ view' = IF Snapshot THEN view ELSE [view EXCEPT ![c].last = Len(log)]
    /\ Goto(c, "writing")
    /\ UNCHANGED <<store, readers, request, answer>>

----------------------------------------------------------------------------
(* Device authorities                                                      *)

\* The caller ends with the device; UNIQUE (workspace_id, device_id) refuses
\* the second of two first registrations, see StoreRaises.
Register(c) ==
    /\ stage[c] = "reading"
    /\ request[c].op = "register"
    /\ LET d == request[c].device IN
       \/ /\ view[c].device.status = "none"
          /\ device[d].status = "none"
          /\ device' = [device EXCEPT ![d] = [status |-> "active", epoch |-> 1]]
       \/ /\ view[c].device.status # "none"
          /\ device' = [device EXCEPT ![d].status = "active"]
    /\ Say(c, "device")
    /\ UNCHANGED <<log, head, receipt, request, readers>>

\* The new epoch is computed from the row that was read.
Rotate(c) ==
    /\ stage[c] = "reading"
    /\ request[c].op = "rotate"
    /\ view[c].device.status = "active"
    /\ device' = [device EXCEPT ![request[c].device].epoch = view[c].device.epoch + 1]
    /\ Say(c, "device")
    /\ UNCHANGED <<log, head, receipt, request, readers>>

Revoke(c) ==
    /\ stage[c] = "reading"
    /\ request[c].op = "revoke"
    /\ view[c].device.status # "none"
    /\ device' = [device EXCEPT ![request[c].device].status = "revoked"]
    /\ Say(c, "device")
    /\ UNCHANGED <<log, head, receipt, request, readers>>

RefuseDevice(c) ==
    /\ stage[c] = "reading"
    /\ \/ request[c].op = "rotate" /\ view[c].device.status # "active"
       \/ request[c].op = "revoke" /\ view[c].device.status = "none"
    /\ Say(c, "refused")
    /\ UNCHANGED <<store, request, readers>>

----------------------------------------------------------------------------
(* submit_sync_mutation                                                    *)

\* Mutated form: a superseded epoch is accepted.
RejectedAnyEpoch(c) ==
    \/ request[c].device # NoDevice /\ view[c].device.status # "active"
    \/ Operation(c) = "hard_forget"
    \/ request[c].memory = NoMemory

Rejected(c) ==
    \/ request[c].device # NoDevice /\ view[c].device.status # "active"
    \/ request[c].device # NoDevice /\ request[c].epoch \notin {0, view[c].device.epoch}
    \/ Operation(c) = "hard_forget"
    \/ request[c].memory = NoMemory

\* Mutated form: the parent is not compared.
ConflictingAnyParent(c) ==
    \/ Operation(c) = "upsert" /\ Tombstone(view[c].head)
    \/ Operation(c) = "delete" /\ view[c].head = 0

Conflicting(c) ==
    \/ view[c].head # 0 /\ request[c].parent # view[c].head
    \/ Operation(c) = "upsert" /\ Tombstone(view[c].head)
    \/ Operation(c) = "delete" /\ view[c].head = 0

Verdict(c) ==
    CASE Rejected(c) -> "rejected"
      [] ~Rejected(c) /\ Conflicting(c) -> "conflict"
      [] OTHER -> "applied"

\* Mutated form: no unique index on the key of the receipt.
RowsFitAnyKey(c) == Verdict(c) # "rejected" => view[c].last = Len(log)

\* The unique indexes on the sequence and on the key of the receipt.
RowsFit(c) ==
    /\ Verdict(c) # "rejected" => view[c].last = Len(log)
    /\ \A d \in Calls : receipt[d] # NoReceipt => request[d].key # request[c].key

\* server_sequence of the revision, 0 when there is none.
Sequence(c) == IF Verdict(c) = "rejected" THEN 0 ELSE view[c].last + 1

Logged(c) ==
    log' = IF Verdict(c) = "rejected" THEN log
           ELSE Append(log, [by |-> c, status |-> Verdict(c)])

HeadMoved(c) ==
    head' = IF Verdict(c) = "applied"
            THEN [head EXCEPT ![request[c].memory] = Sequence(c)]
            ELSE head

\* The writing transaction: revision, head and receipt, or nothing.
Commit(c) ==
    /\ stage[c] = "writing"
    /\ RowsFit(c)
    /\ Logged(c)
    /\ HeadMoved(c)
    /\ receipt' = [receipt EXCEPT ![c] = [status |-> Verdict(c), revision |-> Sequence(c)]]
    /\ view' = [view EXCEPT ![c] = NoView]
    /\ Goto(c, "confirming")
    /\ UNCHANGED <<device, request, answer, readers>>

\* A statement raises (a unique index, a lost connection): rolled back.
StoreRaises(c) ==
    /\ InStore(c)
    /\ Say(c, "uncertain")
    /\ UNCHANGED <<store, request, readers>>

\* The transaction committed, but its confirmation did not arrive.
CommitRaises(c) ==
    /\ stage[c] = "confirming"
    /\ Say(c, "uncertain")
    /\ UNCHANGED <<store, request, readers>>

\* _sync_mutation_confirmation swallows what its store calls raise.
ReadbackRaises(c) ==
    /\ stage[c] = "confirming"
    /\ Say(c, "problem")
    /\ UNCHANGED <<store, request, readers>>

\* It reads the store again, without the lock: an applied revision has to be
\* the head still.
Confirm(c) ==
    /\ stage[c] = "confirming"
    /\ Say(c, IF /\ receipt[c].status = "applied"
                 /\ head[request[c].memory] # receipt[c].revision
              THEN "problem" ELSE receipt[c].status)
    /\ UNCHANGED <<store, request, readers>>

----------------------------------------------------------------------------
(* sync_changes, and a client that replays its pages                       *)

\* The SELECT asks for one row more than the page has.
LastRow(r) == IF cursor[r] + Page + 1 < Len(log) THEN cursor[r] + Page + 1 ELSE Len(log)

\* An empty page changes nothing.  Reads are served between any two steps of a
\* call, as they are by a process of their own.
SelectPage(r) ==
    /\ page[r] = <<>>
    /\ cursor[r] < Len(log)
    /\ page' = [page EXCEPT ![r] = SubSeq(log, cursor[r] + 1, LastRow(r))]
    /\ UNCHANGED <<store, callvars, cursor, played, copy>>

\* The items of the answer; the row beyond them only says that there are more.
Items(r) == IF Len(page[r]) > Page THEN Page ELSE Len(page[r])

\* Mutated form: the sequence of the last row that was read.
NextAfterOfRows(r) == cursor[r] + Len(page[r])

\* nextAfterSequence: the sequence of the last item.
NextAfter(r) == cursor[r] + Items(r)

\* The client replays the items in their order: an applied revision is the head.
Replay(r) ==
    /\ played[r] < Items(r)
    /\ LET row == page[r][played[r] + 1]
       IN copy' = IF row.status = "applied"
                  THEN [copy EXCEPT ![r][request[row.by].memory] = cursor[r] + played[r] + 1]
                  ELSE copy
    /\ played' = [played EXCEPT ![r] = @ + 1]
    /\ UNCHANGED <<store, callvars, cursor, page>>

\* After the last item it keeps the checkpoint, and asks from there.
Follow(r) ==
    /\ page[r] # <<>>
    /\ played[r] = Items(r)
    /\ cursor' = [cursor EXCEPT ![r] = NextAfter(r)]
    /\ page' = [page EXCEPT ![r] = <<>>]
    /\ played' = [played EXCEPT ![r] = 0]
    /\ UNCHANGED <<store, callvars, copy>>

\* The answer is lost, or the client starts again from the checkpoint it kept.
StartOver(r) ==
    /\ page[r] # <<>>
    /\ page' = [page EXCEPT ![r] = <<>>]
    /\ played' = [played EXCEPT ![r] = 0]
    /\ UNCHANGED <<store, callvars, cursor, copy>>

Read(r) == SelectPage(r) \/ Replay(r) \/ Follow(r) \/ StartOver(r)

----------------------------------------------------------------------------
Serve(c) ==
    \/ ReadHead(c) \/ ReadLastSequence(c)
    \/ Register(c) \/ Rotate(c) \/ Revoke(c) \/ RefuseDevice(c)
    \/ Commit(c) \/ StoreRaises(c) \/ CommitRaises(c) \/ ReadbackRaises(c) \/ Confirm(c)

Next ==
    \/ \E c \in Calls : Start(c) \/ Serve(c)
    \/ \E r \in Readers : Read(r)

Spec == Init /\ [][Next]_vars

----------------------------------------------------------------------------
(* Properties                                                              *)

\* The head of a memory is its last applied revision, as any client computes
\* it that replays the log (submit_sync_mutation writes both).
HeadIsLastApplied ==
    \A m \in Memories :
        IF Applied(m) = {} THEN head[m] = 0
        ELSE head[m] \in Applied(m) /\ \A i \in Applied(m) : i <= head[m]

\* No update is lost: a head is replaced only by a revision whose parent it is.
HeadOnlyReplacedByItsChild ==
    [][\A m \in Memories :
          /\ head[m] # 0
          /\ head'[m] # head[m]
          => request[log'[head'[m]].by].parent = head[m]]_vars

\* A memory once deleted stays deleted: no upsert is applied after a delete.
TombstonesAreFinal ==
    \A m \in Memories : \A i, j \in Applied(m) :
        i < j /\ Tombstone(i) => Tombstone(j)

\* An answer tells what the store holds: a receipt of that status, and with it
\* the numbered revision, and neither for a call that was refused.  A problem
\* answer is of a mutation with a receipt, and no revision is without one: who
\* was answered "not persisted", or nothing, learns from the receipt what became
\* of the mutation.
AnswersAreTrue ==
    \A c \in Calls :
        /\ answer[c] \in {"applied", "conflict", "rejected"} =>
              receipt[c] # NoReceipt /\ receipt[c].status = answer[c]
        /\ answer[c] \in {"refused", "device"} => receipt[c] = NoReceipt
        /\ answer[c] = "problem" => receipt[c] # NoReceipt
        /\ receipt[c] # NoReceipt /\ receipt[c].status # "rejected" =>
              /\ receipt[c].revision \in DOMAIN log
              /\ log[receipt[c].revision] = [by |-> c, status |-> receipt[c].status]
        /\ \A i \in DOMAIN log :
              log[i].by = c => receipt[c] # NoReceipt /\ receipt[c].revision = i

\* GET /api/matm/sync/receipts by Idempotency-Key finds one receipt at most.
ReceiptLookupIsUnique ==
    \A c, d \in Calls :
        /\ receipt[c] # NoReceipt
        /\ receipt[d] # NoReceipt
        /\ request[c].key = request[d].key
        => c = d

\* What a reader takes for the head of a memory was applied to it, and is its
\* head unless the head is a revision that the checkpoint has yet to reach:
\* whatever is committed between and during its pages, and replayed twice.
CopiesLackOnlyWhatIsAhead ==
    \A r \in Readers, m \in Memories :
        /\ copy[r][m] # 0 => copy[r][m] \in Applied(m)
        /\ head[m] <= cursor[r] => copy[r][m] = head[m]

\* One process makes the calls: its lock holds from the read of a device to the
\* write that relies on it.
OneProcess ==
    \A c, d \in Calls : request[c] # NoRequest /\ request[d] # NoRequest
                            => request[c].process = request[d].process

\* Rotation moves the authority epoch of a device by one, never back: an epoch
\* that was superseded is not valid again.
EpochsAdvance ==
    [][OneProcess => \A d \in Devices :
          device'[d].epoch # device[d].epoch => device'[d].epoch = device[d].epoch + 1]_vars

\* A revision is written only while the device it names is active and the
\* epoch it presents is current.
RevisionsAreAuthorised ==
    [][OneProcess => \A c \in Calls :
          /\ Len(log') > Len(log) /\ log'[Len(log')].by = c
          /\ request[c].device # NoDevice
          => /\ device[request[c].device].status = "active"
             /\ request[c].epoch \in {0, device[request[c].device].epoch}]_vars

\* The heads, and the readers' copies of them, are what a replay of the log
\* computes.
HeadsFollowTheLog ==
    /\ TypeOK
    /\ HeadIsLastApplied
    /\ TombstonesAreFinal
    /\ CopiesLackOnlyWhatIsAhead

\* A receipt is of what was done, and the only one of its key.
ReceiptsAreTrue == AnswersAreTrue /\ ReceiptLookupIsUnique

\* Where one process makes the calls, a device acts only on the authority it has
\* at that moment, which never goes back.
AuthorityIsCurrent == EpochsAdvance /\ RevisionsAreAuthorised
=============================================================================
