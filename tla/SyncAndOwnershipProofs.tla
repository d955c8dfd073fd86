----------------------- MODULE SyncAndOwnershipProofs -----------------------
(* Part one: the sync log and its heads, for any calls, devices and           *)
(* memories.  Part two: who owns a company, for any humans, credentials and   *)
(* workers, in one process and in several.                                    *)
EXTENDS DistributedSync, Ownership, FiniteSetTheorems, SequenceTheorems, TLAPS

----------------------------------------------------------------------------
(* Part one: the sync log and its heads                                    *)

\* The store serialises what matters: either the reads of a call see one
\* snapshot, or one process, with its lock, makes all the calls.
Serialised == Snapshot \/ \A p, q \in Processes : p = q

\* A call has a request once it is started, and a view while it is in the store.
CallsAreSound ==
    \A c \in Calls :
        /\ stage[c] # "idle" => request[c] \in Request
        /\ InStore(c) => view[c] \in View
        /\ stage[c] # "idle" /\ request[c].op \in DeviceOperations =>
              request[c].device \in Devices
        /\ stage[c] = "confirming" => receipt[c] \in Receipt

\* Who is in the log has left the store, so its request does not change.
LogIsSettled == \A i \in DOMAIN log : stage[log[i].by] \in {"confirming", "done"}

\* Whoever has read the last sequence as it still is has read the head as it
\* still is; with one process, everyone has.
ViewsAreCurrent ==
    \A c \in Calls :
        InStore(c) =>
            /\ view[c].last <= Len(log)
            /\ view[c].last = Len(log) \/ ~Snapshot =>
                  view[c].head = HeadOf(request[c].memory)

\* With one process, one call is in the store at a time.
OneInStore ==
    (\A p, q \in Processes : p = q) =>
        \A c, d \in Calls : InStore(c) /\ InStore(d) => c = d

IInv ==
    /\ TypeOK
    /\ CallsAreSound
    /\ LogIsSettled
    /\ HeadIsLastApplied
    /\ Serialised => ViewsAreCurrent /\ OneInStore /\ TombstonesAreFinal

----------------------------------------------------------------------------
(* Types                                                                   *)

\* What a client can send is a request.
LEMMA RequestsTyped == DeviceRequests \cup MutationRequests \subseteq Request
BY ConstantsAssumption DEF DeviceRequests, MutationRequests, Request

\* The rows a call reads have their types.
LEMMA RowsTyped ==
    ASSUME TypeOK
    PROVE  /\ \A d \in Devices \cup {NoDevice} : DeviceRow(d) \in Device
           /\ \A m \in Memories \cup {NoMemory} : HeadOf(m) \in Nat
           /\ Len(log) \in Nat
BY DEF TypeOK, DeviceRow, NoDeviceRow, Device, HeadOf

\* An update of one column keeps the type of a row.
LEMMA RowUpdates ==
    ASSUME NEW row \in Device, NEW n \in Nat
    PROVE  /\ [row EXCEPT !.status = "active"] \in Device
           /\ [row EXCEPT !.status = "revoked"] \in Device
           /\ [row EXCEPT !.epoch = n] \in Device
BY DEF Device

\* An update of one column keeps the type of a view.
LEMMA ViewUpdates ==
    ASSUME NEW v \in View, NEW n \in Nat
    PROVE  [v EXCEPT !.head = n] \in View /\ [v EXCEPT !.last = n] \in View
BY DEF View

\* Init establishes the invariant.
LEMMA InitIInv == Init => IInv
<1> SUFFICES ASSUME Init PROVE IInv
  OBVIOUS
<1>. USE DEF Init
<1>1. TypeOK
  BY DEF TypeOK, Device, NoDeviceRow, Stages, Answers
<1>2. CallsAreSound /\ ViewsAreCurrent /\ OneInStore
  BY DEF CallsAreSound, ViewsAreCurrent, OneInStore, InStore
<1>3. LogIsSettled /\ HeadIsLastApplied /\ TombstonesAreFinal
  BY DEF LogIsSettled, HeadIsLastApplied, TombstonesAreFinal, Applied
<1>. QED  BY <1>1, <1>2, <1>3 DEF IInv

\* The view of a call at work is well typed, and so is its verdict.
LEMMA ViewTyped ==
    ASSUME TypeOK, CallsAreSound, NEW c \in Calls, InStore(c)
    PROVE  /\ request[c] \in Request /\ view[c] \in View
           /\ view[c].device.status \in {"none", "active", "revoked"}
           /\ view[c].device.epoch \in Nat
           /\ view[c].head \in Nat /\ view[c].last \in Nat
           /\ request[c].memory \in Memories \cup {NoMemory}
           /\ Verdict(c) \in {"applied", "conflict", "rejected"}
           /\ Verdict(c) # "rejected" => request[c].memory \in Memories
<1>1. request[c] \in Request /\ view[c] \in View
  BY DEF CallsAreSound, InStore
<1>2. request[c].memory \in Memories \cup {NoMemory}
  BY <1>1 DEF Request
<1>3. Verdict(c) \in {"applied", "conflict", "rejected"}
  BY DEF Verdict
<1>4. Verdict(c) # "rejected" => request[c].memory \in Memories
  BY <1>2 DEF Verdict, Rejected
<1>. QED  BY <1>1, <1>2, <1>3, <1>4 DEF View, Device

\* The caller of a device operation names a device.
LEMMA DeviceCalls ==
    ASSUME CallsAreSound, NEW c \in Calls, stage[c] # "idle",
           request[c].op \in DeviceOperations
    PROVE  request[c].device \in Devices
BY DEF CallsAreSound

\* Readers write nothing in the store and nothing of the calls.
LEMMA ReadsOnly ==
    ASSUME NEW r \in Readers, Read(r)
    PROVE  UNCHANGED store /\ UNCHANGED callvars
BY DEF Read, SelectPage, Replay, Follow, StartOver

\* Calls touch nothing of the readers.
LEMMA ReadersAside ==
    ASSUME NEW c \in Calls, Start(c) \/ Serve(c)
    PROVE  UNCHANGED readers
BY DEF Start, Serve, ReadHead, ReadLastSequence, Register, Rotate, Revoke, RefuseDevice,
   Commit, StoreRaises, CommitRaises, ReadbackRaises, Confirm, readers

\* The page that a reader selects: rows of the log, from its cursor on.
LEMMA PageIs ==
    ASSUME TypeOK, NEW r \in Readers, SelectPage(r)
    PROVE  /\ page'[r] \in Seq(Revision)
           /\ Len(page'[r]) \in Nat
           /\ cursor[r] + Len(page'[r]) <= Len(log)
           /\ \A i \in 1..Len(page'[r]) : page'[r][i] = log[cursor[r] + i]
           /\ \A q \in Readers : q # r => page'[q] = page[q]
<1>1. log \in Seq(Revision) /\ Len(log) \in Nat /\ cursor[r] \in Nat /\ cursor[r] < Len(log)
  BY LenProperties DEF TypeOK, SelectPage
<1>2. LastRow(r) \in Nat /\ cursor[r] + 1 <= LastRow(r) /\ LastRow(r) <= Len(log)
  BY <1>1, ConstantsAssumption DEF LastRow
<1>3. page'[r] = SubSeq(log, cursor[r] + 1, LastRow(r))
      /\ \A q \in Readers : q # r => page'[q] = page[q]
  BY DEF SelectPage, TypeOK
<1>4. \A i \in (cursor[r] + 1)..LastRow(r) : log[i] \in Revision
  BY <1>1, <1>2, ElementOfSeq
<1>5. /\ SubSeq(log, cursor[r] + 1, LastRow(r)) \in Seq(Revision)
      /\ Len(SubSeq(log, cursor[r] + 1, LastRow(r))) = LastRow(r) - cursor[r]
      /\ \A i \in 1..(LastRow(r) - cursor[r]) :
            SubSeq(log, cursor[r] + 1, LastRow(r))[i] = log[cursor[r] + i]
  BY <1>1, <1>2, <1>4, SubSeqProperties
<1>6. /\ page'[r] \in Seq(Revision) /\ Len(page'[r]) = LastRow(r) - cursor[r]
      /\ \A i \in 1..(LastRow(r) - cursor[r]) : page'[r][i] = log[cursor[r] + i]
  BY <1>3, <1>5
<1>7. Len(page'[r]) \in Nat /\ cursor[r] + Len(page'[r]) <= Len(log)
  BY <1>1, <1>2, <1>6
<1>. QED  BY <1>3, <1>6, <1>7

\* The numbers of a reader that has a page.
LEMMA ItemsAre ==
    ASSUME TypeOK, NEW r \in Readers
    PROVE  /\ cursor[r] \in Nat /\ played[r] \in Nat /\ Items(r) \in Nat
           /\ Len(page[r]) \in Nat /\ Items(r) <= Len(page[r])
<1>1. page[r] \in Seq(Revision)
  BY DEF TypeOK
<1>2. Len(page[r]) \in Nat
  BY <1>1, LenProperties
<1>. QED  BY <1>2, ConstantsAssumption DEF TypeOK, Items

\* Every step keeps the types and the soundness of the calls.
LEMMA TypeStep ==
    ASSUME TypeOK, CallsAreSound, [Next]_vars
    PROVE  TypeOK' /\ CallsAreSound'
<1>1. ASSUME NEW c \in Calls, Start(c)
      PROVE  TypeOK' /\ CallsAreSound'
  <2>1. PICK q \in Request :
            /\ q \in DeviceRequests \cup MutationRequests
            /\ request' = [request EXCEPT ![c] = q]
            /\ view' = [view EXCEPT ![c] = [device |-> DeviceRow(q.device),
                                           head |-> HeadOf(q.memory), last |-> Len(log)]]
    BY <1>1, RequestsTyped DEF Start
  <2>2. view'[c] \in View
    BY <2>1, RowsTyped DEF View, Request, TypeOK
  <2>3. TypeOK'
    BY <1>1, <2>1, <2>2 DEF TypeOK, Start, Goto, Stages, store, readers
  <2>4. CallsAreSound'
    <3>1. q.op \in DeviceOperations => q.device \in Devices
      BY <2>1 DEF DeviceRequests, MutationRequests, DeviceOperations, MutationOperations
    <3>. QED  BY <1>1, <2>1, <2>2, <3>1 DEF CallsAreSound, Start, Goto, InStore, TypeOK, store
  <2>. QED  BY <2>3, <2>4
<1>2. ASSUME NEW c \in Calls, Serve(c)
      PROVE  TypeOK' /\ CallsAreSound'
  <2>1. CASE ReadHead(c)
    <3>1. TypeOK'
      <4>1. view[c] \in View /\ HeadOf(request[c].memory) \in Nat
        BY <2>1, RowsTyped, ViewTyped DEF ReadHead, InStore
      <4>2. [view[c] EXCEPT !.head = HeadOf(request[c].memory)] \in View
        BY <4>1, ViewUpdates
      <4>3. view' \in [Calls -> View \cup {NoView}]
        BY <2>1, <4>2 DEF ReadHead, TypeOK
      <4>. QED  BY <2>1, <4>3 DEF ReadHead, TypeOK, Goto, Stages, store, readers
    <3>2. CallsAreSound'
      <4>1. view'[c] \in View
        BY <2>1, RowsTyped, ViewTyped, ViewUpdates DEF ReadHead, InStore, TypeOK
      <4>. QED  BY <2>1, <4>1 DEF CallsAreSound, TypeOK, ReadHead, Goto, InStore, store
    <3>. QED  BY <3>1, <3>2
  <2>2. CASE ReadLastSequence(c)
    <3>1. TypeOK'
      <4>1. view[c] \in View /\ Len(log) \in Nat
        BY <2>2, RowsTyped, ViewTyped DEF ReadLastSequence, InStore
      <4>2. [view[c] EXCEPT !.last = Len(log)] \in View
        BY <4>1, ViewUpdates
      <4>3. view' \in [Calls -> View \cup {NoView}]
        BY <2>2, <4>2 DEF ReadLastSequence, TypeOK
      <4>. QED  BY <2>2, <4>3 DEF ReadLastSequence, TypeOK, Goto, Stages, store, readers
    <3>2. CallsAreSound'
      <4>1. view'[c] \in View
        BY <2>2, RowsTyped, ViewTyped, ViewUpdates DEF ReadLastSequence, InStore, TypeOK
      <4>. QED  BY <2>2, <4>1 DEF CallsAreSound, TypeOK, ReadLastSequence, Goto, InStore, store
    <3>. QED  BY <3>1, <3>2
  <2>3. CASE Register(c)
    <3>1. TypeOK'
      <4>1. request[c].device \in Devices
        BY <2>3, DeviceCalls DEF Register, InStore, DeviceOperations
      <4>2. [device[request[c].device] EXCEPT !.status = "active"] \in Device
        BY <4>1, RowUpdates DEF TypeOK
      <4>3. [status |-> "active", epoch |-> 1] \in Device
        BY DEF Device
      <4>4. device' \in [Devices -> Device]
        BY <2>3, <4>2, <4>3 DEF Register, TypeOK
      <4>. QED  BY <2>3, <4>4 DEF Register, TypeOK, Say, Goto, Stages, Answers, readers
    <3>2. CallsAreSound'
      BY <2>3 DEF CallsAreSound, TypeOK, Register, Goto, Say, InStore, store
    <3>. QED  BY <3>1, <3>2
  <2>4. CASE Rotate(c)
    <3>1. TypeOK'
      <4>1. request[c].device \in Devices /\ view[c].device.epoch + 1 \in Nat
        BY <2>4, ViewTyped, DeviceCalls DEF Rotate, InStore, DeviceOperations
      <4>2. device[request[c].device] \in Device
        BY <4>1 DEF TypeOK
      <4>3. [device[request[c].device] EXCEPT !.epoch = view[c].device.epoch + 1] \in Device
        BY <4>1, <4>2, RowUpdates
      <4>4. device' \in [Devices -> Device]
        BY <2>4, <4>3 DEF Rotate, TypeOK
      <4>. QED  BY <2>4, <4>4 DEF Rotate, TypeOK, Say, Goto, Stages, Answers, readers
    <3>2. CallsAreSound'
      BY <2>4 DEF CallsAreSound, TypeOK, Rotate, Goto, Say, InStore, store
    <3>. QED  BY <3>1, <3>2
  <2>5. CASE Revoke(c)
    <3>1. TypeOK'
      <4>1. request[c].device \in Devices /\ view[c].device.epoch + 1 \in Nat
        BY <2>5, ViewTyped, DeviceCalls DEF Revoke, InStore, DeviceOperations
      <4>2. device[request[c].device] \in Device
        BY <4>1 DEF TypeOK
      <4>3. [device[request[c].device] EXCEPT !.status = "revoked"] \in Device
        BY <4>1, <4>2, RowUpdates
      <4>4. device' \in [Devices -> Device]
        BY <2>5, <4>3 DEF Revoke, TypeOK
      <4>. QED  BY <2>5, <4>4 DEF Revoke, TypeOK, Say, Goto, Stages, Answers, readers
    <3>2. CallsAreSound'
      BY <2>5 DEF CallsAreSound, TypeOK, Revoke, Goto, Say, InStore, store
    <3>. QED  BY <3>1, <3>2
  <2>6. CASE RefuseDevice(c)
    <3>1. TypeOK'
      BY <2>6 DEF RefuseDevice, TypeOK, Say, Goto, Stages, Answers, store, readers
    <3>2. CallsAreSound'
      BY <2>6 DEF CallsAreSound, TypeOK, RefuseDevice, Goto, Say, InStore, store
    <3>. QED  BY <3>1, <3>2
  <2>7. CASE Commit(c)
    <3>1. TypeOK'
      <4>1. /\ view[c].last + 1 \in Nat
            /\ Verdict(c) \in {"applied", "conflict", "rejected"}
        BY <2>7, ViewTyped DEF Commit, InStore
      <4>2. Sequence(c) \in Nat
        BY <4>1 DEF Sequence
      <4>3. log' \in Seq(Revision)
        <5>1. CASE Verdict(c) = "rejected"
          BY <2>7, <5>1 DEF Commit, Logged, TypeOK
        <5>2. CASE Verdict(c) # "rejected"
          <6>1. [by |-> c, status |-> Verdict(c)] \in Revision
            BY <4>1, <5>2 DEF Revision
          <6>. QED  BY <2>7, <5>2, <6>1 DEF Commit, Logged, TypeOK
        <5>. QED  BY <5>1, <5>2
      <4>4. head' \in [Memories -> Nat]
        BY <2>7, <4>2 DEF Commit, HeadMoved, TypeOK
      <4>5. receipt' \in [Calls -> Receipt \cup {NoReceipt}]
        <5>1. [status |-> Verdict(c), revision |-> Sequence(c)] \in Receipt
          BY <4>1, <4>2 DEF Receipt
        <5>. QED  BY <2>7, <5>1 DEF Commit, TypeOK
      <4>. QED  BY <2>7, <4>3, <4>4, <4>5 DEF Commit, TypeOK, Goto, Stages, readers
    <3>2. CallsAreSound'
      <4>1. receipt'[c] = [status |-> Verdict(c), revision |-> Sequence(c)]
        BY <2>7 DEF Commit, TypeOK
      <4>2. receipt'[c] \in Receipt
        BY <2>7, <4>1, ViewTyped DEF Commit, InStore, Sequence, Receipt
      <4>. QED  BY <2>7, <4>2 DEF CallsAreSound, TypeOK, Commit, Goto, InStore
    <3>. QED  BY <3>1, <3>2
  <2>8. CASE StoreRaises(c)
    <3>1. TypeOK'
      BY <2>8 DEF StoreRaises, TypeOK, Say, Goto, Stages, Answers, store, readers
    <3>2. CallsAreSound'
      BY <2>8 DEF CallsAreSound, TypeOK, StoreRaises, Goto, Say, InStore, store
    <3>. QED  BY <3>1, <3>2
  <2>9. CASE CommitRaises(c)
    <3>1. TypeOK'
      BY <2>9 DEF CommitRaises, TypeOK, Say, Goto, Stages, Answers, store, readers
    <3>2. CallsAreSound'
      BY <2>9 DEF CallsAreSound, TypeOK, CommitRaises, Goto, Say, InStore, store
    <3>. QED  BY <3>1, <3>2
  <2>10. CASE ReadbackRaises(c)
    <3>1. TypeOK'
      BY <2>10 DEF ReadbackRaises, TypeOK, Say, Goto, Stages, Answers, store, readers
    <3>2. CallsAreSound'
      BY <2>10 DEF CallsAreSound, TypeOK, ReadbackRaises, Goto, Say, InStore, store
    <3>. QED  BY <3>1, <3>2
  <2>11. CASE Confirm(c)
    <3>1. TypeOK'
      <4>1. receipt[c].status \in Answers
        BY <1>2, <2>11 DEF Confirm, CallsAreSound, TypeOK, Receipt, Answers
      <4>. QED  BY <2>11, <4>1 DEF Confirm, TypeOK, Say, Goto, Stages, Answers, store, readers
    <3>2. CallsAreSound'
      BY <2>11 DEF CallsAreSound, TypeOK, Confirm, Goto, Say, InStore, store
    <3>. QED  BY <3>1, <3>2
  <2>. QED
    BY <1>2, <2>1, <2>2, <2>3, <2>4, <2>5, <2>6, <2>7, <2>8, <2>9, <2>10, <2>11 DEF Serve
<1>3. ASSUME NEW r \in Readers, Read(r)
      PROVE  TypeOK' /\ CallsAreSound'
  <2>1. UNCHANGED store /\ UNCHANGED callvars
    BY <1>3, ReadsOnly
  <2>2. /\ cursor' \in [Readers -> Nat] /\ page' \in [Readers -> Seq(Revision)]
        /\ played' \in [Readers -> Nat] /\ copy' \in [Readers -> [Memories -> Nat]]
    <3>1. CASE SelectPage(r)
      BY <3>1, PageIs DEF SelectPage, TypeOK
    <3>2. CASE Replay(r)
      <4>. DEFINE m == request[page[r][played[r] + 1].by].memory
                  n == cursor[r] + played[r] + 1
      <4>1. n \in Nat
        BY ItemsAre
      <4>2. copy' = [copy EXCEPT ![r][m] = n] \/ copy' = copy
        BY <3>2 DEF Replay
      <4>. HIDE DEF m, n
      <4>4. [copy[r] EXCEPT ![m] = n] \in [Memories -> Nat]
        BY <4>1 DEF TypeOK
      <4>3. copy' \in [Readers -> [Memories -> Nat]]
        BY <4>2, <4>4 DEF TypeOK
      <4>. QED  BY <3>2, <4>3 DEF Replay, TypeOK
    <3>3. CASE Follow(r)
      BY <3>3, ItemsAre DEF Follow, NextAfter, TypeOK
    <3>4. CASE StartOver(r)
      BY <3>4 DEF StartOver, TypeOK
    <3>. QED  BY <1>3, <3>1, <3>2, <3>3, <3>4 DEF Read
  <2>3. TypeOK'
    BY <2>1, <2>2 DEF TypeOK, store, callvars
  <2>4. CallsAreSound'
    BY <2>1 DEF CallsAreSound, store, callvars, InStore
  <2>. QED  BY <2>3, <2>4
<1>4. CASE UNCHANGED vars
  BY <1>4 DEF vars, TypeOK, CallsAreSound, InStore
<1>. QED  BY <1>1, <1>2, <1>3, <1>4 DEF Next

----------------------------------------------------------------------------
(* The log and the heads                                                   *)

\* The log and the heads change only when a submitted mutation is committed.
LogGrows(c) ==
    /\ Commit(c)
    /\ Verdict(c) # "rejected"
    /\ view[c].last = Len(log)
    /\ log' = Append(log, [by |-> c, status |-> Verdict(c)])
    /\ head' = IF Verdict(c) = "applied"
               THEN [head EXCEPT ![request[c].memory] = Len(log) + 1] ELSE head

\* A commit that is not refused is such an append, and no other step touches
\* the log or the heads.
LEMMA LogStep ==
    ASSUME IInv, [Next]_vars
    PROVE  (log' = log /\ head' = head) \/ \E c \in Calls : LogGrows(c)
<1>1. ASSUME NEW c \in Calls, Commit(c)
      PROVE  (log' = log /\ head' = head) \/ LogGrows(c)
  <2>1. CASE Verdict(c) = "rejected"
    BY <1>1, <2>1 DEF Commit, Logged, HeadMoved
  <2>2. CASE Verdict(c) # "rejected"
    BY <1>1, <2>2 DEF Commit, Logged, HeadMoved, RowsFit, LogGrows, Sequence
  <2>. QED  BY <2>1, <2>2
<1>2. ASSUME NEW c \in Calls, Start(c) \/ (Serve(c) /\ ~Commit(c))
      PROVE  log' = log /\ head' = head
  BY <1>2 DEF Start, Serve, ReadHead, ReadLastSequence, Register, Rotate, Revoke,
     RefuseDevice, StoreRaises, CommitRaises, ReadbackRaises, Confirm, store
<1>3. ASSUME NEW r \in Readers, Read(r)
      PROVE  log' = log /\ head' = head
  BY <1>3, ReadsOnly DEF store
<1>4. CASE UNCHANGED vars
  BY <1>4 DEF vars
<1>. QED  BY <1>1, <1>2, <1>3, <1>4 DEF Next

\* The requests of started calls are fixed, and who is out of the store stays out.
LEMMA RequestStep ==
    ASSUME IInv, [Next]_vars, NEW c \in Calls, stage[c] # "idle"
    PROVE  /\ request'[c] = request[c]
           /\ stage[c] \in {"confirming", "done"} => stage'[c] \in {"confirming", "done"}
<1>1. ASSUME NEW d \in Calls, Start(d) \/ Serve(d)
      PROVE  /\ request'[c] = request[c]
             /\ stage[c] \in {"confirming", "done"} => stage'[c] \in {"confirming", "done"}
  BY <1>1 DEF IInv, TypeOK, Start, Serve, ReadHead, ReadLastSequence, Register, Rotate,
     Revoke, RefuseDevice, Commit, StoreRaises, CommitRaises, ReadbackRaises, Confirm,
     Goto, Say
<1>2. ASSUME NEW r \in Readers, Read(r)
      PROVE  request' = request /\ stage' = stage
  BY <1>2, ReadsOnly DEF callvars
<1>3. CASE UNCHANGED vars
  BY <1>3 DEF vars
<1>. QED  BY <1>1, <1>2, <1>3 DEF Next

\* The entries of the log, as sequences have them.
LEMMA LogEntries ==
    ASSUME IInv
    PROVE  /\ Len(log) \in Nat /\ DOMAIN log = 1..Len(log)
           /\ \A i \in DOMAIN log :
                 /\ log[i] \in Revision /\ log[i].by \in Calls
                 /\ stage[log[i].by] \in {"confirming", "done"}
<1>1. log \in Seq(Revision)
  BY DEF IInv, TypeOK
<1>2. Len(log) \in Nat /\ DOMAIN log = 1..Len(log)
  BY <1>1, LenProperties
<1>3. ASSUME NEW i \in DOMAIN log
      PROVE  log[i] \in Revision
  BY <1>1, <1>2, ElementOfSeq
<1>. QED  BY <1>2, <1>3 DEF Revision, IInv, LogIsSettled

\* A growing log keeps its entries and gets one more.
LEMMA LogAppended ==
    ASSUME IInv, NEW c \in Calls, LogGrows(c)
    PROVE  /\ DOMAIN log' = DOMAIN log \cup {Len(log) + 1}
           /\ Len(log)' = Len(log) + 1
           /\ Len(log) + 1 \notin DOMAIN log
           /\ \A i \in DOMAIN log : log'[i] = log[i]
           /\ log'[Len(log) + 1] = [by |-> c, status |-> Verdict(c)]
<1>1. log \in Seq(Revision) /\ [by |-> c, status |-> Verdict(c)] \in Revision
  BY ViewTyped DEF IInv, TypeOK, LogGrows, Commit, InStore, Revision
<1>. QED  BY <1>1, AppendProperties, LenProperties DEF LogGrows

\* Whoever wrote a revision is settled, and stays so.
LEMMA LogSettledStep ==
    ASSUME IInv, [Next]_vars
    PROVE  LogIsSettled'
<1>1. ASSUME NEW i \in DOMAIN log
      PROVE  stage'[log[i].by] \in {"confirming", "done"}
  <2>1. log[i].by \in Calls /\ stage[log[i].by] \in {"confirming", "done"}
    BY LogEntries
  <2>. QED  BY <2>1, RequestStep
<1>2. CASE log' = log
  BY <1>1, <1>2 DEF LogIsSettled
<1>3. ASSUME NEW c \in Calls, LogGrows(c)
      PROVE  LogIsSettled'
  <2> SUFFICES ASSUME NEW i \in DOMAIN log \cup {Len(log) + 1}
               PROVE  stage'[log'[i].by] \in {"confirming", "done"}
    BY <1>3, LogAppended DEF LogIsSettled
  <2>1. CASE i \in DOMAIN log
    BY <1>1, <1>3, <2>1, LogAppended
  <2>2. CASE i = Len(log) + 1
    <3>1. log'[i].by = c
      <4>1. log'[i] = [by |-> c, status |-> Verdict(c)]
        BY <1>3, <2>2, LogAppended
      <4>. QED  BY <4>1
    <3>2. stage'[c] = "confirming"
      BY <1>3 DEF LogGrows, Commit, Goto, IInv, TypeOK
    <3>. QED  BY <3>1, <3>2
  <2>. QED  BY <2>1, <2>2
<1>. QED  BY <1>2, <1>3, LogStep

\* A logged revision keeps its place, its status and its request.
LEMMA LogKept ==
    ASSUME IInv, [Next]_vars, NEW i \in DOMAIN log
    PROVE  /\ i \in DOMAIN log' /\ log'[i] = log[i]
           /\ request'[log[i].by] = request[log[i].by]
           /\ Tombstone(i)' = Tombstone(i)
<1>1. log[i].by \in Calls /\ stage[log[i].by] # "idle"
  BY LogEntries
<1>2. i \in DOMAIN log' /\ log'[i] = log[i]
  BY LogStep, LogAppended
<1>3. request'[log[i].by] = request[log[i].by]
  BY <1>1, RequestStep
<1>. QED  BY <1>2, <1>3 DEF Tombstone, Operation

\* The applied revisions of a memory: one more, when one is committed.
LEMMA AppliedStep ==
    ASSUME IInv, [Next]_vars, NEW m \in Memories
    PROVE  \/ log' = log /\ head' = head /\ Applied(m)' = Applied(m)
           \/ \E c \in Calls :
                 /\ LogGrows(c)
                 /\ Applied(m)' = IF Verdict(c) = "applied" /\ request[c].memory = m
                                  THEN Applied(m) \cup {Len(log) + 1} ELSE Applied(m)
<1>1. CASE log' = log /\ head' = head
  BY <1>1, LogKept DEF Applied
<1>2. ASSUME NEW c \in Calls, LogGrows(c)
      PROVE  Applied(m)' = IF Verdict(c) = "applied" /\ request[c].memory = m
                           THEN Applied(m) \cup {Len(log) + 1} ELSE Applied(m)
  <2>1. DOMAIN log' = DOMAIN log \cup {Len(log) + 1} /\ Len(log) + 1 \notin DOMAIN log
    BY <1>2, LogAppended
  <2>2. log'[Len(log) + 1] = [by |-> c, status |-> Verdict(c)]
    BY <1>2, LogAppended
  <2>3. request'[c] = request[c]
    BY <1>2 DEF LogGrows, Commit
  <2>. QED  BY <2>1, <2>2, <2>3, LogKept DEF Applied
<1>. QED  BY <1>1, <1>2, LogStep

\* The head stays the last applied revision.
LEMMA HeadStep ==
    ASSUME IInv, [Next]_vars
    PROVE  HeadIsLastApplied'
<1> SUFFICES ASSUME NEW m \in Memories
             PROVE  IF Applied(m)' = {} THEN head'[m] = 0
                    ELSE head'[m] \in Applied(m)' /\ \A i \in Applied(m)' : i <= head'[m]
  BY DEF HeadIsLastApplied, Applied
<1>1. IF Applied(m) = {} THEN head[m] = 0
      ELSE head[m] \in Applied(m) /\ \A i \in Applied(m) : i <= head[m]
  BY DEF IInv, HeadIsLastApplied
<1>2. head \in [Memories -> Nat]
  BY DEF IInv, TypeOK
<1>3. CASE head' = head /\ Applied(m)' = Applied(m)
  BY <1>1, <1>3
<1>4. ASSUME NEW c \in Calls, LogGrows(c),
             Applied(m)' = IF Verdict(c) = "applied" /\ request[c].memory = m
                           THEN Applied(m) \cup {Len(log) + 1} ELSE Applied(m)
      PROVE  IF Applied(m)' = {} THEN head'[m] = 0
             ELSE head'[m] \in Applied(m)' /\ \A i \in Applied(m)' : i <= head'[m]
  <2>1. CASE Verdict(c) = "applied" /\ request[c].memory = m
    <3>1. head'[m] = Len(log) + 1
      BY <1>2, <1>4, <2>1 DEF LogGrows
    <3>2. \A i \in Applied(m) : i <= Len(log) + 1
      BY LogEntries DEF Applied
    <3>. QED  BY <1>4, <2>1, <3>1, <3>2, LogEntries
  <2>2. CASE ~(Verdict(c) = "applied" /\ request[c].memory = m)
    <3>1. head'[m] = head[m]
      BY <1>2, <1>4, <2>2 DEF LogGrows
    <3>. QED  BY <1>1, <1>4, <2>2, <3>1
  <2>. QED  BY <2>1, <2>2
<1>. QED  BY <1>3, <1>4, AppliedStep

----------------------------------------------------------------------------
(* Where the store serialises                                              *)

\* One process: its lock keeps all but one call out of the store.
LEMMA OneInStoreStep ==
    ASSUME IInv, Serialised, [Next]_vars
    PROVE  OneInStore'
<1> SUFFICES ASSUME \A p, q \in Processes : p = q,
                    NEW c \in Calls, NEW d \in Calls, InStore(c)', InStore(d)'
             PROVE  c = d
  BY DEF OneInStore
<1>1. ASSUME NEW e \in Calls, InStore(e)'
      PROVE  \/ InStore(e)
             \/ Start(e) /\ (\A f \in Calls : ~InStore(f))
                /\ (\A f \in Calls : f # e => stage'[f] = stage[f])
  <2>1. ASSUME NEW f \in Calls, Start(f)
        PROVE  /\ \A g \in Calls : ~InStore(g)
               /\ \A g \in Calls : g # f => stage'[g] = stage[g]
    <3>1. PICK q \in Request : Unlocked(q.process)
      BY <2>1, RequestsTyped DEF Start
    <3>2. \A g \in Calls : InStore(g) => request[g].process \in Processes /\ q.process \in Processes
      BY <3>1, ViewTyped DEF Request, IInv
    <3>. QED  BY <2>1, <3>1, <3>2 DEF Unlocked, Start, Goto, IInv, TypeOK
  <2>2. ASSUME NEW f \in Calls, Serve(f)
        PROVE  InStore(e)
    BY <1>1, <2>2 DEF Serve, ReadHead, ReadLastSequence, Register, Rotate, Revoke,
       RefuseDevice, Commit, StoreRaises, CommitRaises, ReadbackRaises, Confirm, Goto,
       Say, InStore, IInv, TypeOK
  <2>3. ASSUME NEW r \in Readers, Read(r)
        PROVE  InStore(e)
    BY <1>1, <2>3, ReadsOnly DEF callvars, InStore
  <2>4. CASE UNCHANGED vars
    BY <1>1, <2>4 DEF vars, InStore
  <2>. QED  BY <1>1, <2>1, <2>2, <2>3, <2>4 DEF Next, InStore
<1>2. InStore(c) /\ InStore(d) => c = d
  BY DEF OneInStore, IInv
<1>. QED  BY <1>1, <1>2 DEF InStore

\* Once the head moves, a view with the old head has an old last sequence.
LEMMA ViewsStep ==
    ASSUME IInv, Serialised, [Next]_vars
    PROVE  ViewsAreCurrent'
<1> SUFFICES ASSUME NEW c \in Calls, InStore(c)'
             PROVE  /\ view'[c].last <= Len(log)'
                    /\ view'[c].last = Len(log)' \/ ~Snapshot =>
                          view'[c].head = HeadOf(request[c].memory)'
  BY DEF ViewsAreCurrent
<1>1. ViewsAreCurrent /\ OneInStore /\ TypeOK /\ Len(log) \in Nat
  BY LogEntries DEF IInv
<1>2. ASSUME NEW d \in Calls, Start(d)
      PROVE  /\ view'[c].last <= Len(log)'
             /\ view'[c].last = Len(log)' \/ ~Snapshot =>
                   view'[c].head = HeadOf(request[c].memory)'
  <2>1. log' = log /\ head' = head
    BY <1>2 DEF Start, store
  <2>2. CASE c = d
    BY <1>1, <1>2, <2>1, <2>2 DEF Start, TypeOK, HeadOf
  <2>3. CASE c # d
    <3>1. InStore(c) /\ view'[c] = view[c] /\ request'[c] = request[c]
      BY <1>1, <1>2, <2>3 DEF Start, Goto, InStore, TypeOK
    <3>. QED  BY <1>1, <2>1, <3>1 DEF ViewsAreCurrent, HeadOf
  <2>. QED  BY <2>2, <2>3
<1>3. ASSUME NEW d \in Calls, Serve(d), ~Commit(d)
      PROVE  /\ view'[c].last <= Len(log)'
             /\ view'[c].last = Len(log)' \/ ~Snapshot =>
                   view'[c].head = HeadOf(request[c].memory)'
  <2>1. log' = log /\ head' = head /\ request' = request
    BY <1>3 DEF Serve, ReadHead, ReadLastSequence, Register, Rotate, Revoke, RefuseDevice,
       StoreRaises, CommitRaises, ReadbackRaises, Confirm, store
  <2>2. CASE ReadHead(d) /\ c = d
    <3>1. InStore(c) /\ view[c] \in View
      BY <2>2, ViewTyped DEF ReadHead, InStore, IInv
    <3>2. view'[c].last = view[c].last
          /\ view'[c].head \in {view[c].head, HeadOf(request[c].memory)}
      BY <1>1, <2>2, <3>1 DEF ReadHead, TypeOK, View
    <3>. QED  BY <1>1, <2>1, <3>1, <3>2 DEF ViewsAreCurrent, HeadOf
  <2>3. CASE ReadLastSequence(d) /\ c = d
    <3>1. InStore(c) /\ view[c] \in View
      BY <2>3, ViewTyped DEF ReadLastSequence, InStore, IInv
    <3>2. view'[c].head = view[c].head /\ view'[c].last \in {view[c].last, Len(log)}
      BY <1>1, <2>3, <3>1 DEF ReadLastSequence, TypeOK, View
    <3>3. Snapshot => view'[c] = view[c]
      BY <2>3 DEF ReadLastSequence
    <3>. QED  BY <1>1, <2>1, <3>1, <3>2, <3>3 DEF ViewsAreCurrent, HeadOf
  <2>4. CASE ~(ReadHead(d) /\ c = d) /\ ~(ReadLastSequence(d) /\ c = d)
    <3>1. InStore(c) /\ view'[c] = view[c]
      BY <1>1, <1>3, <2>4 DEF Serve, ReadHead, ReadLastSequence, Register, Rotate, Revoke,
         RefuseDevice, StoreRaises, CommitRaises, ReadbackRaises, Confirm, Goto, Say,
         InStore, TypeOK
    <3>. QED  BY <1>1, <2>1, <3>1 DEF ViewsAreCurrent, HeadOf
  <2>. QED  BY <2>2, <2>3, <2>4
<1>4. ASSUME NEW d \in Calls, Commit(d)
      PROVE  /\ view'[c].last <= Len(log)'
             /\ view'[c].last = Len(log)' \/ ~Snapshot =>
                   view'[c].head = HeadOf(request[c].memory)'
  <2>1. c # d /\ InStore(c) /\ InStore(d) /\ view'[c] = view[c] /\ request'[c] = request[c]
    BY <1>1, <1>4 DEF Commit, Goto, InStore, TypeOK
  <2>2. Snapshot
    BY <1>1, <2>1 DEF Serialised, OneInStore
  <2>3. view[c].last \in Nat
    BY <2>1, ViewTyped DEF IInv
  <2>4. CASE log' = log /\ head' = head
    BY <1>1, <2>1, <2>2, <2>4 DEF ViewsAreCurrent, HeadOf
  <2>5. CASE Len(log)' = Len(log) + 1
    BY <1>1, <2>1, <2>2, <2>3, <2>5 DEF ViewsAreCurrent
  <2>. QED  BY <2>4, <2>5, LogStep, LogAppended
<1>5. ASSUME NEW r \in Readers, Read(r)
      PROVE  UNCHANGED <<log, head, request, view, stage>>
  BY <1>5, ReadsOnly DEF store, callvars
<1>6. CASE UNCHANGED <<log, head, request, view, stage>>
  BY <1>1, <1>6 DEF ViewsAreCurrent, HeadOf, InStore
<1>7. CASE UNCHANGED vars
  BY <1>6, <1>7 DEF vars
<1>. QED  BY <1>2, <1>3, <1>4, <1>5, <1>6, <1>7 DEF Next

\* What is committed is a child of the head it replaces, and never an upsert
\* of a tombstone.
LEMMA CommitIsChild ==
    ASSUME IInv, Serialised, NEW c \in Calls, LogGrows(c), Verdict(c) = "applied"
    PROVE  /\ request[c].memory \in Memories
           /\ head[request[c].memory] # 0 => request[c].parent = head[request[c].memory]
           /\ Tombstone(head[request[c].memory]) => Operation(c) = "delete"
<1>1. InStore(c) /\ view[c].last = Len(log)
  BY DEF LogGrows, Commit, InStore
<1>2. request[c].memory \in Memories
  BY <1>1, ViewTyped DEF IInv
<1>3. view[c].head = head[request[c].memory]
  BY <1>1, <1>2, ConstantsAssumption DEF IInv, ViewsAreCurrent, HeadOf
<1>4. ~Rejected(c) /\ ~Conflicting(c)
  BY DEF Verdict
<1>. QED  BY <1>2, <1>3, <1>4 DEF Conflicting, Rejected, Operation

\* No upsert is applied after a delete.
LEMMA TombstoneStep ==
    ASSUME IInv, Serialised, [Next]_vars
    PROVE  TombstonesAreFinal'
<1> SUFFICES ASSUME NEW m \in Memories, NEW i \in Applied(m)', NEW j \in Applied(m)',
                    i < j, Tombstone(i)'
             PROVE  Tombstone(j)'
  BY DEF TombstonesAreFinal
<1>1. Applied(m) \subseteq DOMAIN log /\ DOMAIN log = 1..Len(log) /\ Len(log) \in Nat
  BY LogEntries DEF Applied
<1>2. ASSUME i \in Applied(m), j \in Applied(m)
      PROVE  Tombstone(j)'
  BY <1>1, <1>2, LogKept DEF IInv, TombstonesAreFinal
<1>3. ASSUME NEW c \in Calls, LogGrows(c), Verdict(c) = "applied", request[c].memory = m,
             Applied(m)' = Applied(m) \cup {Len(log) + 1}
      PROVE  Tombstone(j)'
  <2>1. CASE j \in Applied(m)
    <3>1. i \in Applied(m)
      BY <1>1, <1>3, <2>1
    <3>. QED  BY <1>2, <2>1, <3>1
  <2>2. CASE j = Len(log) + 1
    <3>1. i \in Applied(m) /\ Tombstone(i)
      BY <1>1, <1>3, <2>2, LogKept
    <3>2. head[m] \in Applied(m) /\ i <= head[m]
      BY <3>1 DEF IInv, HeadIsLastApplied
    <3>3. Tombstone(head[m])
      BY <1>1, <3>1, <3>2 DEF IInv, TombstonesAreFinal
    <3>4. Operation(c) = "delete"
      BY <1>3, <3>3, CommitIsChild
    <3>5. log'[j].by = c /\ request' = request /\ j # 0
      BY <1>1, <1>3, <2>2, LogAppended DEF LogGrows, Commit
    <3>. QED  BY <3>4, <3>5 DEF Tombstone, Operation
  <2>. QED  BY <1>3, <2>1, <2>2
<1>. QED  BY <1>2, <1>3, AppliedStep

----------------------------------------------------------------------------
(* Theorems                                                                *)

\* The invariant holds of every reachable state.
THEOREM Inductive == Spec => []IInv
<1>1. IInv /\ [Next]_vars => IInv'
  <2> SUFFICES ASSUME IInv, [Next]_vars PROVE IInv'
    OBVIOUS
  <2>1. TypeOK' /\ CallsAreSound'
    BY TypeStep DEF IInv
  <2>2. LogIsSettled' /\ HeadIsLastApplied'
    BY LogSettledStep, HeadStep
  <2>3. Serialised' = Serialised
    BY DEF Serialised
  <2>4. Serialised => ViewsAreCurrent' /\ OneInStore' /\ TombstonesAreFinal'
    BY ViewsStep, OneInStoreStep, TombstoneStep
  <2>. QED  BY <2>1, <2>2, <2>3, <2>4 DEF IInv
<1>. QED  BY InitIInv, <1>1, PTL DEF Spec

\* Every variable keeps its type, for any number of calls, devices and memories.
THEOREM TypeCorrect == Spec => []TypeOK
<1>1. IInv => TypeOK
  BY DEF IInv
<1>. QED  BY <1>1, Inductive, PTL

\* The heads are the last applied revisions of the log, however the reads of
\* the store calls are isolated and however many processes there are.
THEOREM HeadsFollowLog == Spec => []HeadIsLastApplied
<1>1. IInv => HeadIsLastApplied
  BY DEF IInv
<1>. QED  BY <1>1, Inductive, PTL

\* Where the reads are one snapshot, or one process serves, a deleted memory
\* stays deleted.
THEOREM NoResurrection ==
    ASSUME Serialised
    PROVE  Spec => []TombstonesAreFinal
<1>1. IInv => TombstonesAreFinal
  BY DEF IInv
<1>. QED  BY <1>1, Inductive, PTL

\* Under the same condition no head is overwritten by a revision that is not
\* its child.
THEOREM NoLostUpdate ==
    ASSUME Serialised
    PROVE  Spec => HeadOnlyReplacedByItsChild
<1>1. ASSUME IInv, Next, NEW m \in Memories, head[m] # 0, head'[m] # head[m]
      PROVE  request[log'[head'[m]].by].parent = head[m]
  <2>1. PICK c \in Calls : LogGrows(c)
    BY <1>1, LogStep
  <2>2. Verdict(c) = "applied" /\ request[c].memory = m /\ head'[m] = Len(log) + 1
    BY <1>1, <2>1, CommitIsChild DEF LogGrows, IInv, TypeOK
  <2>3. log'[head'[m]].by = c
    <3>1. log'[head'[m]] = [by |-> c, status |-> Verdict(c)]
      BY <1>1, <2>1, <2>2, LogAppended
    <3>. QED  BY <3>1
  <2>. QED  BY <1>1, <2>1, <2>2, <2>3, CommitIsChild
<1>2. IInv /\ [Next]_vars =>
        [\A m \in Memories :
            /\ head[m] # 0
            /\ head'[m] # head[m]
            => request[log'[head'[m]].by].parent = head[m]]_vars
  BY <1>1
<1>. QED  BY <1>2, Inductive, PTL DEF Spec, HeadOnlyReplacedByItsChild

\* A page is the rows of the log that come after the cursor, and the part of it
\* that was replayed counts as passed: the head of a memory, where the reader has
\* got that far, is what it took for the head.
ReadersFollow ==
    \A r \in Readers :
        /\ cursor[r] + Len(page[r]) <= Len(log)
        /\ played[r] <= Items(r)
        /\ \A i \in 1..Len(page[r]) : page[r][i] = log[cursor[r] + i]
        /\ \A m \in Memories :
              /\ copy[r][m] # 0 => copy[r][m] \in Applied(m)
              /\ head[m] <= cursor[r] + played[r] => copy[r][m] = head[m]

\* A row that is replayed is the last applied one of its memory, or the head of
\* the memory is still ahead.
LEMMA ReplayStep ==
    ASSUME IInv, ReadersFollow, NEW r \in Readers, Replay(r), NEW m \in Memories
    PROVE  /\ copy'[r][m] # 0 => copy'[r][m] \in Applied(m)
           /\ head[m] <= cursor[r] + played[r] + 1 => copy'[r][m] = head[m]
<1>. DEFINE n == cursor[r] + played[r] + 1
            row == page[r][played[r] + 1]
<1>1. TypeOK /\ HeadIsLastApplied
  BY DEF IInv
<1>0. /\ cursor[r] \in Nat /\ played[r] \in Nat /\ Items(r) \in Nat
      /\ Len(page[r]) \in Nat /\ Items(r) <= Len(page[r]) /\ played[r] < Items(r)
      /\ cursor[r] + Len(page[r]) <= Len(log)
      /\ \A i \in 1..Len(page[r]) : page[r][i] = log[cursor[r] + i]
  BY <1>1, ItemsAre DEF Replay, ReadersFollow
<1>9. played[r] + 1 \in 1..Len(page[r]) /\ cursor[r] + (played[r] + 1) = n
  BY <1>0
<1>2. /\ played[r] + 1 \in 1..Len(page[r]) /\ cursor[r] \in Nat /\ played[r] \in Nat
      /\ cursor[r] + Len(page[r]) <= Len(log)
      /\ row = log[n]
  BY <1>0, <1>9
<1>3. n \in DOMAIN log /\ n \in Nat
  BY <1>1, <1>2, LogEntries, ItemsAre
<1>4. copy[r][m] # 0 => copy[r][m] \in Applied(m)
  BY DEF ReadersFollow
<1>5. head[m] <= cursor[r] + played[r] => copy[r][m] = head[m]
  BY DEF ReadersFollow
<1>6. head[m] \in Nat /\ (n \in Applied(m) => head[m] \in Applied(m) /\ n <= head[m])
      /\ (head[m] # 0 => head[m] \in Applied(m))
  BY <1>1 DEF HeadIsLastApplied, TypeOK
<1>7. CASE n \in Applied(m)
  <2>1. row.status = "applied" /\ request[row.by].memory = m
    BY <1>2, <1>7 DEF Applied
  <2>2. copy'[r][m] = n
    BY <1>1, <2>1 DEF Replay, TypeOK
  <2>. QED  BY <1>2, <1>3, <1>6, <1>7, <2>2
<1>8. CASE n \notin Applied(m)
  <2>1. ~(row.status = "applied" /\ request[row.by].memory = m)
    BY <1>2, <1>3, <1>8 DEF Applied
  <2>2. copy'[r][m] = copy[r][m]
    BY <1>1, <2>1 DEF Replay, TypeOK
  <2>3. head[m] # n
    BY <1>2, <1>3, <1>6, <1>8
  <2>. QED  BY <1>2, <1>4, <1>5, <1>6, <2>2, <2>3
<1>. QED  BY <1>7, <1>8

\* A step of a reader.
LEMMA ReadStep ==
    ASSUME IInv, ReadersFollow, NEW r \in Readers, Read(r)
    PROVE  ReadersFollow'
<1>1. TypeOK /\ log' = log /\ head' = head /\ request' = request
  BY ReadsOnly DEF IInv, store, callvars
<1>2. \A m \in Memories : Applied(m)' = Applied(m)
  BY <1>1 DEF Applied
<1>3. ASSUME NEW q \in Readers, q # r
      PROVE  /\ cursor'[q] = cursor[q] /\ page'[q] = page[q]
             /\ played'[q] = played[q] /\ copy'[q] = copy[q]
  <2>1. CASE SelectPage(r)
    BY <1>1, <1>3, <2>1 DEF SelectPage, TypeOK
  <2>2. CASE Replay(r)
    BY <1>1, <1>3, <2>2 DEF Replay, TypeOK
  <2>3. CASE Follow(r) \/ StartOver(r)
    BY <1>1, <1>3, <2>3 DEF Follow, StartOver, TypeOK
  <2>. QED  BY <2>1, <2>2, <2>3 DEF Read
<1>4. /\ cursor'[r] + Len(page'[r]) <= Len(log)
      /\ played'[r] <= Items(r)'
      /\ \A i \in 1..Len(page'[r]) : page'[r][i] = log[cursor'[r] + i]
      /\ \A m \in Memories :
            /\ copy'[r][m] # 0 => copy'[r][m] \in Applied(m)
            /\ head[m] <= cursor'[r] + played'[r] => copy'[r][m] = head[m]
  <2>0. /\ cursor[r] \in Nat /\ played[r] \in Nat /\ Items(r) \in Nat /\ Len(log) \in Nat
        /\ Len(page[r]) \in Nat /\ Items(r) <= Len(page[r])
    BY <1>1, ItemsAre, LogEntries
  <2>1. CASE SelectPage(r)
    <3>1. cursor' = cursor /\ played' = played /\ copy' = copy /\ page[r] = <<>>
      BY <2>1 DEF SelectPage
    <3>2. /\ Len(page'[r]) \in Nat /\ cursor[r] + Len(page'[r]) <= Len(log)
          /\ \A i \in 1..Len(page'[r]) : page'[r][i] = log[cursor[r] + i]
      BY <1>1, <2>1, PageIs
    <3>3. played[r] = 0
      BY <2>0, <3>1, ConstantsAssumption DEF ReadersFollow, Items
    <3>4. 0 <= Items(r)'
      BY <3>2, ConstantsAssumption DEF Items
    <3>. QED  BY <3>1, <3>2, <3>3, <3>4 DEF ReadersFollow
  <2>2. CASE Replay(r)
    <3>1. cursor' = cursor /\ page' = page /\ played'[r] = played[r] + 1
          /\ played[r] < Items(r)
      BY <1>1, <2>2 DEF Replay, TypeOK
    <3>2. Items(r)' = Items(r)
      BY <3>1 DEF Items
    <3>3. cursor'[r] + played'[r] = cursor[r] + played[r] + 1 /\ played'[r] <= Items(r)
      BY <2>0, <3>1
    <3>4. /\ cursor[r] + Len(page[r]) <= Len(log)
          /\ \A i \in 1..Len(page[r]) : page[r][i] = log[cursor[r] + i]
      BY DEF ReadersFollow
    <3>5. \A m \in Memories :
              /\ copy'[r][m] # 0 => copy'[r][m] \in Applied(m)
              /\ head[m] <= cursor[r] + played[r] + 1 => copy'[r][m] = head[m]
      BY <2>2, ReplayStep
    <3>. QED  BY <3>1, <3>2, <3>3, <3>4, <3>5
  <2>3. CASE Follow(r)
    <3>1. cursor'[r] = cursor[r] + Items(r) /\ page'[r] = <<>> /\ played'[r] = 0
          /\ copy' = copy /\ played[r] = Items(r)
      BY <1>1, <2>3 DEF Follow, NextAfter, TypeOK
    <3>2. Len(page'[r]) = 0 /\ 0 <= Items(r)'
      BY <3>1, ConstantsAssumption DEF Items
    <3>. QED  BY <2>0, <3>1, <3>2 DEF ReadersFollow
  <2>4. CASE StartOver(r)
    <3>1. cursor' = cursor /\ page'[r] = <<>> /\ played'[r] = 0 /\ copy' = copy
      BY <1>1, <2>4 DEF StartOver, TypeOK
    <3>2. Len(page'[r]) = 0 /\ 0 <= Items(r)'
      BY <3>1, ConstantsAssumption DEF Items
    <3>3. head \in [Memories -> Nat]
      BY <1>1 DEF TypeOK
    <3>. QED  BY <2>0, <3>1, <3>2, <3>3 DEF ReadersFollow
  <2>. QED  BY <2>1, <2>2, <2>3, <2>4 DEF Read
<1>5. \A q \in Readers : q # r => Items(q)' = Items(q)
  BY <1>3 DEF Items
<1> SUFFICES ASSUME NEW q \in Readers
             PROVE  /\ cursor'[q] + Len(page'[q]) <= Len(log)
                    /\ played'[q] <= Items(q)'
                    /\ \A i \in 1..Len(page'[q]) : page'[q][i] = log[cursor'[q] + i]
                    /\ \A m \in Memories :
                          /\ copy'[q][m] # 0 => copy'[q][m] \in Applied(m)
                          /\ head[m] <= cursor'[q] + played'[q] => copy'[q][m] = head[m]
  BY <1>1, <1>2 DEF ReadersFollow
<1>6. CASE q = r
  BY <1>4, <1>6
<1>7. CASE q # r
  BY <1>3, <1>5, <1>7 DEF ReadersFollow
<1>. QED  BY <1>6, <1>7

\* A commit, between the pages of a reader or in the middle of one, adds a head
\* that is ahead of it.
LEMMA CommitAhead ==
    ASSUME IInv, ReadersFollow, [Next]_vars, UNCHANGED readers
    PROVE  ReadersFollow'
<1>0. TypeOK
  BY DEF IInv
<1> SUFFICES ASSUME NEW r \in Readers
             PROVE  /\ cursor[r] + Len(page[r]) <= Len(log)'
                    /\ played[r] <= Items(r)
                    /\ \A i \in 1..Len(page[r]) : page[r][i] = log'[cursor[r] + i]
                    /\ \A m \in Memories :
                          /\ copy[r][m] # 0 => copy[r][m] \in Applied(m)'
                          /\ head'[m] <= cursor[r] + played[r] => copy[r][m] = head'[m]
  BY DEF ReadersFollow, readers, Items
<1>1. /\ cursor[r] \in Nat /\ played[r] \in Nat /\ Items(r) \in Nat /\ Len(log) \in Nat
      /\ Len(page[r]) \in Nat /\ Items(r) <= Len(page[r])
  BY <1>0, ItemsAre, LogEntries
<1>2. /\ cursor[r] + Len(page[r]) <= Len(log) /\ played[r] <= Items(r)
      /\ \A i \in 1..Len(page[r]) : page[r][i] = log[cursor[r] + i]
  BY DEF ReadersFollow
<1>3. Len(log)' = Len(log) \/ Len(log)' = Len(log) + 1
  BY LogStep, LogAppended
<1>4. \A i \in 1..Len(page[r]) : page[r][i] = log'[cursor[r] + i]
  <2> SUFFICES ASSUME NEW i \in 1..Len(page[r])
               PROVE  log'[cursor[r] + i] = log[cursor[r] + i]
    BY <1>2
  <2>1. cursor[r] + i \in DOMAIN log
    BY <1>1, <1>2, LogEntries
  <2>. QED  BY <2>1, LogKept
<1>5. ASSUME NEW m \in Memories
      PROVE  /\ copy[r][m] # 0 => copy[r][m] \in Applied(m)'
             /\ head'[m] <= cursor[r] + played[r] => copy[r][m] = head'[m]
  <2>1. /\ copy[r][m] # 0 => copy[r][m] \in Applied(m)
        /\ head[m] <= cursor[r] + played[r] => copy[r][m] = head[m]
    BY DEF ReadersFollow
  <2>2. Applied(m) \subseteq Applied(m)'
    BY AppliedStep
  <2>3. head'[m] = head[m] \/ head'[m] = Len(log) + 1
    BY <1>0, LogStep DEF LogGrows, TypeOK
  <2>. QED  BY <1>1, <1>2, <2>1, <2>2, <2>3
<1>. QED  BY <1>1, <1>2, <1>3, <1>4, <1>5

\* A reader's copy of a head is that head unless the head is ahead of its
\* checkpoint, for any page size, any interleaving with commits in any number of
\* processes and any isolation of their reads, answers lost and pages replayed.
THEOREM CopiesKeepUp == Spec => []CopiesLackOnlyWhatIsAhead
<1>1. Init => ReadersFollow
  BY ConstantsAssumption DEF Init, ReadersFollow, Items
<1>2. IInv /\ ReadersFollow /\ [Next]_vars => ReadersFollow'
  <2> SUFFICES ASSUME IInv, ReadersFollow, [Next]_vars PROVE ReadersFollow'
    OBVIOUS
  <2>1. ASSUME NEW r \in Readers, Read(r)
        PROVE  ReadersFollow'
    BY <2>1, ReadStep
  <2>2. ASSUME NEW c \in Calls, Start(c) \/ Serve(c)
        PROVE  ReadersFollow'
    BY <2>2, ReadersAside, CommitAhead
  <2>3. CASE UNCHANGED vars
    BY <2>3, CommitAhead DEF vars, readers
  <2>. QED  BY <2>1, <2>2, <2>3 DEF Next
<1>3. IInv /\ ReadersFollow => CopiesLackOnlyWhatIsAhead
  <2> SUFFICES ASSUME IInv, ReadersFollow, NEW r \in Readers, NEW m \in Memories
               PROVE  /\ copy[r][m] # 0 => copy[r][m] \in Applied(m)
                      /\ head[m] <= cursor[r] => copy[r][m] = head[m]
    BY DEF CopiesLackOnlyWhatIsAhead
  <2>1. cursor[r] \in Nat /\ played[r] \in Nat /\ head[m] \in Nat
    BY DEF IInv, TypeOK
  <2>. QED  BY <2>1 DEF ReadersFollow
<1>. QED  BY <1>1, <1>2, <1>3, Inductive, PTL DEF Spec

----------------------------------------------------------------------------
(* Receipts                                                                *)

\* A call has no receipt before it commits, and no answer before it is done.
ReceiptsInTime ==
    \A c \in Calls :
        /\ stage[c] \in {"idle", "reading", "counting", "writing"} => receipt[c] = NoReceipt
        /\ stage[c] # "done" => answer[c] = "none"

\* A commit writes the receipt of what it logs, under a key that has none.
LEMMA CommitReceipt ==
    ASSUME IInv, ReceiptsInTime, ReceiptsAreTrue, NEW c \in Calls, Commit(c)
    PROVE  ReceiptsInTime' /\ ReceiptsAreTrue'
<1>1. /\ TypeOK /\ CallsAreSound /\ stage[c] = "writing" /\ answer[c] = "none"
      /\ receipt' = [receipt EXCEPT ![c] = [status |-> Verdict(c), revision |-> Sequence(c)]]
      /\ stage' = [stage EXCEPT ![c] = "confirming"]
      /\ answer' = answer /\ request' = request
  BY DEF IInv, Commit, Goto, ReceiptsInTime
<1>2. receipt'[c].status = Verdict(c) /\ receipt'[c].revision = Sequence(c)
  BY <1>1 DEF TypeOK
<1>3. [Next]_vars
  BY DEF Next, Serve
<1>4. Verdict(c) \in {"applied", "conflict", "rejected"}
  BY <1>1, ViewTyped DEF InStore
<1>5. Verdict(c) # "rejected" =>
          Sequence(c) \in DOMAIN log' /\ log'[Sequence(c)] = [by |-> c, status |-> Verdict(c)]
  <2> SUFFICES ASSUME Verdict(c) # "rejected" PROVE LogGrows(c) /\ Sequence(c) = Len(log) + 1
    BY <1>1, LogAppended, LogEntries
  <2>. QED  BY DEF Commit, Logged, HeadMoved, RowsFit, LogGrows, Sequence
<1>6. ReceiptsInTime'
  BY <1>1 DEF ReceiptsInTime, TypeOK
<1>7. AnswersAreTrue'
  <2> SUFFICES ASSUME NEW d \in Calls
               PROVE  /\ answer'[d] \in {"applied", "conflict", "rejected"} =>
                            receipt'[d] # NoReceipt /\ receipt'[d].status = answer'[d]
                      /\ answer'[d] \in {"refused", "device"} => receipt'[d] = NoReceipt
                      /\ answer'[d] = "problem" => receipt'[d] # NoReceipt
                      /\ receipt'[d] # NoReceipt /\ receipt'[d].status # "rejected" =>
                            /\ receipt'[d].revision \in DOMAIN log'
                            /\ log'[receipt'[d].revision]
                                  = [by |-> d, status |-> receipt'[d].status]
                      /\ \A i \in DOMAIN log' : log'[i].by = d =>
                            receipt'[d] # NoReceipt /\ receipt'[d].revision = i
    BY DEF AnswersAreTrue
  <2>0. \A i \in DOMAIN log :
            i \in DOMAIN log' /\ log'[i] = log[i] /\ log[i].by \in Calls /\ log[i].by # c
    BY <1>1, <1>3, LogKept, LogEntries
  <2>3. \A i \in DOMAIN log' :
            i \in DOMAIN log \/ (log'[i].by = c /\ i = Sequence(c))
    <3>1. CASE Verdict(c) = "rejected"
      BY <3>1 DEF Commit, Logged
    <3>2. CASE Verdict(c) # "rejected"
      <4>1. LogGrows(c) /\ Sequence(c) = Len(log) + 1
        BY <3>2 DEF Commit, Logged, HeadMoved, RowsFit, LogGrows, Sequence
      <4>2. /\ DOMAIN log' = DOMAIN log \cup {Len(log) + 1}
            /\ log'[Len(log) + 1] = [by |-> c, status |-> Verdict(c)]
        BY <4>1, LogAppended
      <4>3. log'[Len(log) + 1].by = c
        BY <4>2
      <4>. QED  BY <4>1, <4>2, <4>3
    <3>. QED  BY <3>1, <3>2
  <2>1. CASE d = c
    <3>1. receipt'[c] # NoReceipt
      <4>. CallsAreSound' /\ stage'[c] = "confirming"
        BY <1>1, <1>3, TypeStep DEF TypeOK
      <4>. QED  BY ConstantsAssumption DEF CallsAreSound
    <3>. QED  BY <1>1, <1>2, <1>4, <1>5, <2>0, <2>1, <2>3, <3>1
  <2>2. CASE d # c
    <3>1. receipt'[d] = receipt[d] /\ answer'[d] = answer[d]
      BY <1>1, <2>2 DEF TypeOK
    <3>. QED  BY <2>0, <2>2, <2>3, <3>1 DEF ReceiptsAreTrue, AnswersAreTrue
  <2>. QED  BY <2>1, <2>2
<1>8. ReceiptLookupIsUnique'
  <2>1. \A d \in Calls : receipt[d] # NoReceipt => request[d].key # request[c].key
    BY DEF Commit, RowsFit
  <2>2. \A d \in Calls : d # c => receipt'[d] = receipt[d]
    BY <1>1 DEF TypeOK
  <2>. QED  BY <1>1, <2>1, <2>2 DEF ReceiptLookupIsUnique, ReceiptsAreTrue
<1>. QED  BY <1>6, <1>7, <1>8 DEF ReceiptsAreTrue

\* The other steps write no receipt, and answer with the one there is.
LEMMA OtherReceipts ==
    ASSUME IInv, ReceiptsInTime, ReceiptsAreTrue, [Next]_vars,
           \A c \in Calls : ~Commit(c)
    PROVE  ReceiptsInTime' /\ ReceiptsAreTrue'
<1>1. TypeOK /\ CallsAreSound
  BY DEF IInv
<1>2. receipt' = receipt /\ log' = log
  <2>1. log' = log
    BY LogStep DEF LogGrows
  <2>2. receipt' = receipt
    BY ReadsOnly DEF Next, Start, Serve, ReadHead, ReadLastSequence, Register, Rotate,
       Revoke, RefuseDevice, StoreRaises, CommitRaises, ReadbackRaises, Confirm, store, vars
  <2>. QED  BY <2>1, <2>2
<1>3. ASSUME NEW d \in Calls, receipt[d] # NoReceipt
      PROVE  stage[d] \in {"confirming", "done"} /\ request'[d] = request[d]
  <2>1. stage[d] \in {"confirming", "done"}
    BY <1>1, <1>3 DEF ReceiptsInTime, TypeOK, Stages
  <2>. QED  BY <2>1, RequestStep
<1>4. ReceiptLookupIsUnique'
  BY <1>2, <1>3 DEF ReceiptLookupIsUnique, ReceiptsAreTrue
<1>5. ASSUME NEW d \in Calls
      PROVE  \/ answer'[d] = answer[d] /\ (stage[d] = "done" => stage'[d] = "done")
                /\ (stage'[d] # stage[d] => /\ stage[d] \in {"idle", "reading", "counting"}
                                            /\ stage'[d] \in {"reading", "counting", "writing"})
             \/ stage'[d] = "done" /\ answer'[d] = "uncertain"
             \/ stage'[d] = "done" /\ stage[d] = "confirming" /\ answer'[d] = "problem"
             \/ stage'[d] = "done" /\ stage[d] = "reading" /\ answer'[d] \in {"device", "refused"}
             \/ stage'[d] = "done" /\ stage[d] = "confirming" /\ answer'[d] = receipt[d].status
  <2>1. ASSUME NEW c \in Calls, Start(c)
        PROVE  answer'[d] = answer[d] /\ (stage[d] = "done" => stage'[d] = "done")
               /\ (stage'[d] # stage[d] => stage[d] = "idle" /\ stage'[d] = "reading")
    BY <1>1, <2>1 DEF Start, Goto, TypeOK
  <2>2. ASSUME NEW c \in Calls, ReadHead(c) \/ ReadLastSequence(c)
        PROVE  answer'[d] = answer[d] /\ (stage[d] = "done" => stage'[d] = "done")
               /\ (stage'[d] # stage[d] => /\ stage[d] \in {"reading", "counting"}
                                           /\ stage'[d] \in {"counting", "writing"})
    BY <1>1, <2>2 DEF ReadHead, ReadLastSequence, Goto, TypeOK
  <2>3. ASSUME NEW c \in Calls, StoreRaises(c) \/ CommitRaises(c) \/ ReadbackRaises(c)
        PROVE  IF c = d
               THEN /\ stage'[d] = "done"
                    /\ \/ answer'[d] = "uncertain"
                       \/ stage[d] = "confirming" /\ answer'[d] = "problem"
               ELSE stage'[d] = stage[d] /\ answer'[d] = answer[d]
    BY <1>1, <2>3 DEF StoreRaises, CommitRaises, ReadbackRaises, Say, Goto, TypeOK
  <2>4. ASSUME NEW c \in Calls, Register(c) \/ Rotate(c) \/ Revoke(c) \/ RefuseDevice(c)
        PROVE  IF c = d
               THEN /\ stage'[d] = "done" /\ stage[d] = "reading"
                    /\ answer'[d] \in {"device", "refused"}
               ELSE stage'[d] = stage[d] /\ answer'[d] = answer[d]
    BY <1>1, <2>4 DEF Register, Rotate, Revoke, RefuseDevice, Say, Goto, TypeOK
  <2>5. ASSUME NEW c \in Calls, Confirm(c)
        PROVE  IF c = d
               THEN /\ stage'[d] = "done" /\ stage[d] = "confirming"
                    /\ answer'[d] \in {"problem", receipt[d].status}
               ELSE stage'[d] = stage[d] /\ answer'[d] = answer[d]
    BY <1>1, <2>5 DEF Confirm, Say, Goto, TypeOK
  <2>6. ASSUME NEW r \in Readers, Read(r)
        PROVE  stage' = stage /\ answer' = answer
    BY <2>6, ReadsOnly DEF callvars
  <2>7. CASE UNCHANGED vars
    BY <2>7 DEF vars
  <2>. QED  BY <2>1, <2>2, <2>3, <2>4, <2>5, <2>6, <2>7 DEF Next, Serve
<1>6. ReceiptsInTime'
  BY <1>2, <1>5 DEF ReceiptsInTime
<1>7. \A d \in Calls : stage[d] = "confirming" => receipt[d] \in Receipt
  BY <1>1 DEF CallsAreSound
<1>8. AnswersAreTrue'
  <2> SUFFICES ASSUME NEW d \in Calls
               PROVE  /\ answer'[d] \in {"applied", "conflict", "rejected"} =>
                            receipt[d] # NoReceipt /\ receipt[d].status = answer'[d]
                      /\ answer'[d] \in {"refused", "device"} => receipt[d] = NoReceipt
                      /\ answer'[d] = "problem" => receipt[d] # NoReceipt
    BY <1>2 DEF AnswersAreTrue, ReceiptsAreTrue
  <2>1. /\ answer[d] \in {"applied", "conflict", "rejected"} =>
              receipt[d] # NoReceipt /\ receipt[d].status = answer[d]
        /\ answer[d] \in {"refused", "device"} => receipt[d] = NoReceipt
        /\ answer[d] = "problem" => receipt[d] # NoReceipt
    BY DEF AnswersAreTrue, ReceiptsAreTrue
  <2>2. stage[d] = "confirming" => receipt[d] # NoReceipt
           /\ receipt[d].status \in {"applied", "conflict", "rejected"}
    BY <1>7, ConstantsAssumption DEF Receipt
  <2>3. stage[d] = "reading" => receipt[d] = NoReceipt
    BY DEF ReceiptsInTime
  <2>. QED  BY <1>5, <2>1, <2>2, <2>3
<1>. QED  BY <1>4, <1>6, <1>8 DEF ReceiptsAreTrue

\* The answers and receipts tell what was done, and a key finds one receipt, for
\* any number of calls, keys and processes, and whatever raises.
THEOREM ReceiptsTrue == Spec => []ReceiptsAreTrue
<1>1. Init => ReceiptsInTime /\ ReceiptsAreTrue
  BY DEF Init, ReceiptsInTime, ReceiptsAreTrue, AnswersAreTrue, ReceiptLookupIsUnique
<1>2. IInv /\ (ReceiptsInTime /\ ReceiptsAreTrue) /\ [Next]_vars
          => (ReceiptsInTime /\ ReceiptsAreTrue)'
  BY CommitReceipt, OtherReceipts
<1>. QED  BY <1>1, <1>2, Inductive, PTL DEF Spec

\* Under the condition of NoResurrection, heads, tombstones and the readers'
\* copies agree with the log.
THEOREM HeadsAndReaders ==
    ASSUME Serialised
    PROVE  Spec => []HeadsFollowTheLog
<1>1. TypeOK /\ HeadIsLastApplied /\ TombstonesAreFinal /\ CopiesLackOnlyWhatIsAhead
          => HeadsFollowTheLog
  BY DEF HeadsFollowTheLog
<1>. QED  BY <1>1, TypeCorrect, HeadsFollowLog, NoResurrection, CopiesKeepUp, PTL

----------------------------------------------------------------------------
(* Authority                                                               *)

\* A row that was read is there.  While one process has made the calls, its lock
\* leaves one of them in the store, and that one knows its device as it is.
DevicesAreKnown ==
    /\ \A d \in Devices : device[d].status = "none" => device[d].epoch = 0
    /\ \A c \in Calls, d \in Devices :
          InStore(c) /\ request[c].device = d /\ view[c].device.status # "none"
          => device[d].status # "none"
    /\ OneProcess =>
          \A c, d \in Calls :
             /\ InStore(c) /\ InStore(d) => c = d
             /\ InStore(c) => view[c].device = DeviceRow(request[c].device)

\* A call that starts finds the store empty.
LEMMA DevicesAtStart ==
    ASSUME IInv, DevicesAreKnown, NEW e \in Calls, Start(e)
    PROVE  DevicesAreKnown'
<1>1. TypeOK /\ CallsAreSound
  BY DEF IInv
<1>2. PICK q \in Request :
          /\ Unlocked(q.process)
          /\ request' = [request EXCEPT ![e] = q]
          /\ view' = [view EXCEPT ![e] = [device |-> DeviceRow(q.device),
                                         head |-> HeadOf(q.memory), last |-> Len(log)]]
  BY RequestsTyped DEF Start
<1>3. device' = device /\ stage' = [stage EXCEPT ![e] = "reading"] /\ stage[e] = "idle"
  BY DEF Start, store, Goto
<1>4. ASSUME OneProcess', NEW c \in Calls, InStore(c)
      PROVE  FALSE
  <2>1. c # e /\ request[c] \in Request /\ request'[c] = request[c] /\ request'[e] = q
    BY <1>1, <1>2, <1>3, <1>4 DEF InStore, CallsAreSound, TypeOK
  <2>2. request[c].process = q.process
    BY <1>4, <2>1, ConstantsAssumption DEF OneProcess
  <2>. QED  BY <1>2, <1>4, <2>2 DEF Unlocked
<1>5. \A c \in Calls : InStore(c)' => InStore(c) \/ c = e
  BY <1>1, <1>3 DEF InStore, TypeOK
<1>6. view'[e].device = DeviceRow(request'[e].device)
  BY <1>1, <1>2 DEF TypeOK
<1>7. \A c \in Calls : c # e => request'[c] = request[c] /\ view'[c] = view[c]
  BY <1>1, <1>2 DEF TypeOK
<1>8. \A d \in Devices : request'[e].device = d => view'[e].device = device[d]
  BY <1>6, ConstantsAssumption DEF DeviceRow
<1>9. \A c \in Calls, d \in Devices :
          InStore(c)' /\ request'[c].device = d /\ view'[c].device.status # "none"
          => device[d].status # "none"
  BY <1>5, <1>7, <1>8 DEF DevicesAreKnown
<1>. QED  BY <1>3, <1>4, <1>5, <1>6, <1>9 DEF DevicesAreKnown, DeviceRow

\* A call that goes on reading knows its device as it knew it.
LEMMA DevicesReadOn ==
    ASSUME IInv, DevicesAreKnown, NEW e \in Calls, ReadHead(e) \/ ReadLastSequence(e)
    PROVE  DevicesAreKnown'
<1>1. TypeOK /\ CallsAreSound /\ InStore(e) /\ view[e] \in View
  BY ViewTyped DEF IInv, ReadHead, ReadLastSequence, InStore
<1>2. device' = device /\ request' = request
  BY DEF ReadHead, ReadLastSequence, store
<1>3. \A c \in Calls : InStore(c)' => InStore(c)
  BY <1>1 DEF ReadHead, ReadLastSequence, Goto, InStore, TypeOK
<1>4. \A c \in Calls : c # e => view'[c] = view[c]
  BY <1>1 DEF ReadHead, ReadLastSequence, TypeOK
<1>5. view'[e].device = view[e].device
  <2>1. /\ [view[e] EXCEPT !.head = HeadOf(request[e].memory)].device = view[e].device
        /\ [view[e] EXCEPT !.last = Len(log)].device = view[e].device
    BY <1>1 DEF View
  <2>. QED  BY <1>1, <2>1 DEF ReadHead, ReadLastSequence, TypeOK
<1>. QED  BY <1>2, <1>3, <1>4, <1>5 DEF DevicesAreKnown, OneProcess, DeviceRow

\* A call that leaves the store leaves nobody there who relies on a device.
LEMMA DevicesAtEnd ==
    ASSUME IInv, DevicesAreKnown, NEW e \in Calls, InStore(e), ~InStore(e)',
           request' = request,
           \A c \in Calls : c # e => stage'[c] = stage[c] /\ view'[c] = view[c],
           \A d \in Devices : device'[d].status = "none" => device'[d] = device[d]
    PROVE  DevicesAreKnown'
<1>1. \A c \in Calls : InStore(c)' => InStore(c) /\ c # e /\ view'[c] = view[c]
  BY DEF InStore
<1>2. \A d \in Devices : device'[d].status = "none" =>
                            device[d].status = "none" /\ device'[d].epoch = 0
  BY DEF DevicesAreKnown
<1>3. OneProcess => \A c \in Calls : ~InStore(c)'
  BY <1>1 DEF DevicesAreKnown
<1>. QED  BY <1>1, <1>2, <1>3 DEF DevicesAreKnown, OneProcess

\* What is done to a device: nothing, or the change of a call that ends.
LEMMA DeviceStep ==
    ASSUME IInv, DevicesAreKnown, [Next]_vars
    PROVE  /\ DevicesAreKnown'
           /\ OneProcess => \A d \in Devices :
                 device'[d].epoch # device[d].epoch => device'[d].epoch = device[d].epoch + 1
<1>1. TypeOK /\ CallsAreSound
  BY DEF IInv
<1>. DEFINE Advance == \A d \in Devices :
                 device'[d].epoch # device[d].epoch => device'[d].epoch = device[d].epoch + 1
<1>2. ASSUME NEW e \in Calls, Register(e) \/ Rotate(e) \/ Revoke(e)
      PROVE  DevicesAreKnown' /\ (OneProcess => Advance)
  <2>1. /\ InStore(e) /\ ~InStore(e)' /\ request' = request /\ stage[e] = "reading"
        /\ \A c \in Calls : c # e => stage'[c] = stage[c] /\ view'[c] = view[c]
    BY <1>1, <1>2 DEF Register, Rotate, Revoke, Say, Goto, InStore, TypeOK
  <2>2. PICK d \in Devices : d = request[e].device
    BY <1>1, <1>2, DeviceCalls DEF Register, Rotate, Revoke, DeviceOperations
  <2>3. \A x \in Devices : x # d => device'[x] = device[x]
    BY <1>1, <1>2, <2>2 DEF Register, Rotate, Revoke, TypeOK
  <2>4. /\ device[d].status \in {"none", "active", "revoked"} /\ device[d].epoch \in Nat
        /\ view[e].device.epoch \in Nat
    BY <1>1, <2>1, <2>2, ViewTyped DEF TypeOK, Device
  <2>5. /\ [device[d] EXCEPT !.status = "active"].status = "active"
        /\ [device[d] EXCEPT !.status = "active"].epoch = device[d].epoch
        /\ [device[d] EXCEPT !.status = "revoked"].status = "revoked"
        /\ [device[d] EXCEPT !.status = "revoked"].epoch = device[d].epoch
        /\ \A n \in Nat : /\ [device[d] EXCEPT !.epoch = n].epoch = n
                          /\ [device[d] EXCEPT !.epoch = n].status = device[d].status
    BY <1>1 DEF TypeOK, Device
  <2>6. Register(e) =>
            \/ device[d].status = "none" /\ device'[d].status = "active" /\ device'[d].epoch = 1
            \/ device'[d].status = "active" /\ device'[d].epoch = device[d].epoch
    <3>1. ASSUME device' = [device EXCEPT ![d] = [status |-> "active", epoch |-> 1]]
          PROVE  device'[d].status = "active" /\ device'[d].epoch = 1
      BY <1>1, <3>1 DEF TypeOK
    <3>2. ASSUME device' = [device EXCEPT ![d].status = "active"]
          PROVE  device'[d].status = "active" /\ device'[d].epoch = device[d].epoch
      BY <1>1, <2>5, <3>2 DEF TypeOK
    <3>. QED  BY <2>2, <3>1, <3>2 DEF Register
  <2>7. device'[d].status # "none"
    <3>1. CASE Register(e)
      BY <2>6, <3>1
    <3>2. CASE Rotate(e)
      <4>1. device[d].status # "none"
        BY <2>1, <2>2, <3>2 DEF Rotate, DevicesAreKnown
      <4>2. view[e].device.epoch + 1 \in Nat
        BY <2>4
      <4>3. device'[d] = [device[d] EXCEPT !.epoch = view[e].device.epoch + 1]
        BY <1>1, <2>2, <3>2 DEF Rotate, TypeOK
      <4>. QED  BY <2>5, <4>1, <4>2, <4>3
    <3>3. CASE Revoke(e)
      BY <1>1, <2>2, <2>5, <3>3 DEF Revoke, TypeOK
    <3>. QED  BY <1>2, <3>1, <3>2, <3>3
  <2>8. OneProcess => view[e].device = device[d]
    BY <2>1, <2>2, ConstantsAssumption DEF DevicesAreKnown, DeviceRow
  <2>9. OneProcess => device'[d].epoch = device[d].epoch \/ device'[d].epoch = device[d].epoch + 1
    <3>1. CASE Register(e)
      BY <2>4, <2>6, <3>1 DEF DevicesAreKnown
    <3>2. CASE Rotate(e)
      BY <1>1, <2>2, <2>8, <3>2 DEF Rotate, TypeOK, Device
    <3>3. CASE Revoke(e)
      BY <1>1, <2>2, <3>3 DEF Revoke, TypeOK, Device
    <3>. QED  BY <1>2, <3>1, <3>2, <3>3
  <2>. QED  BY <1>1, <2>1, <2>3, <2>7, <2>9, DevicesAtEnd DEF DevicesAreKnown
<1>3. ASSUME NEW e \in Calls, RefuseDevice(e) \/ Commit(e) \/ StoreRaises(e)
      PROVE  DevicesAreKnown' /\ Advance
  <2>1. /\ InStore(e) /\ ~InStore(e)' /\ request' = request /\ device' = device
        /\ \A c \in Calls : c # e => stage'[c] = stage[c] /\ view'[c] = view[c]
    BY <1>1, <1>3 DEF RefuseDevice, Commit, StoreRaises, Say, Goto, InStore, TypeOK, store
  <2>. QED  BY <2>1, DevicesAtEnd DEF DevicesAreKnown
<1>4. ASSUME NEW e \in Calls, CommitRaises(e) \/ ReadbackRaises(e) \/ Confirm(e)
      PROVE  DevicesAreKnown' /\ Advance
  <2>1. /\ request' = request /\ device' = device /\ ~InStore(e)'
        /\ \A c \in Calls : c # e => stage'[c] = stage[c] /\ view'[c] = view[c]
    BY <1>1, <1>4 DEF CommitRaises, ReadbackRaises, Confirm, Say, Goto, InStore, TypeOK, store
  <2>2. \A c \in Calls : InStore(c)' => InStore(c) /\ view'[c] = view[c]
    BY <2>1 DEF InStore
  <2>. QED  BY <2>1, <2>2 DEF DevicesAreKnown, OneProcess, DeviceRow
<1>5. ASSUME NEW e \in Calls, Start(e) \/ ReadHead(e) \/ ReadLastSequence(e)
      PROVE  DevicesAreKnown' /\ Advance
  BY <1>5, DevicesAtStart, DevicesReadOn DEF Start, ReadHead, ReadLastSequence, store
<1>6. ASSUME UNCHANGED <<device, request, stage, view>>
      PROVE  DevicesAreKnown' /\ Advance
  BY <1>6 DEF DevicesAreKnown, OneProcess, DeviceRow, InStore
<1>7. ASSUME NEW r \in Readers, Read(r)
      PROVE  UNCHANGED <<device, request, stage, view>>
  BY <1>7, ReadsOnly DEF store, callvars
<1>. QED  BY <1>2, <1>3, <1>4, <1>5, <1>6, <1>7 DEF Next, Serve, vars

\* Where one process makes the calls no epoch goes back, and no revision is
\* written under an authority that has ended, for any devices and any calls.
THEOREM AuthorityCurrent == Spec => AuthorityIsCurrent
<1>1. Init => DevicesAreKnown
  BY DEF Init, DevicesAreKnown, NoDeviceRow, InStore
<1>2. IInv /\ DevicesAreKnown /\ [Next]_vars => DevicesAreKnown'
  BY DeviceStep
<1>3. IInv /\ DevicesAreKnown /\ [Next]_vars =>
        [OneProcess => \A d \in Devices :
          device'[d].epoch # device[d].epoch => device'[d].epoch = device[d].epoch + 1]_vars
  BY DeviceStep
<1>4. ASSUME IInv, DevicesAreKnown, [Next]_vars, OneProcess, NEW c \in Calls,
             Len(log') > Len(log), log'[Len(log')].by = c, request[c].device # NoDevice
      PROVE  /\ device[request[c].device].status = "active"
             /\ request[c].epoch \in {0, device[request[c].device].epoch}
  <2>1. PICK e \in Calls : LogGrows(e)
    BY <1>4, LogStep, LogEntries
  <2>2. log'[Len(log) + 1] = [by |-> e, status |-> Verdict(e)] /\ Len(log') = Len(log) + 1
    BY <1>4, <2>1, LogAppended
  <2>3. e = c
    BY <1>4, <2>2
  <2>4. InStore(c) /\ ~Rejected(c)
    BY <2>1, <2>3 DEF LogGrows, Commit, InStore, Verdict
  <2>. QED  BY <1>4, <2>4 DEF DevicesAreKnown, DeviceRow, Rejected
<1>5. IInv /\ DevicesAreKnown /\ [Next]_vars =>
        [OneProcess => \A c \in Calls :
          /\ Len(log') > Len(log) /\ log'[Len(log')].by = c
          /\ request[c].device # NoDevice
          => /\ device[request[c].device].status = "active"
             /\ request[c].epoch \in {0, device[request[c].device].epoch}]_vars
  BY <1>4
<1>. QED
  BY <1>1, <1>2, <1>3, <1>5, Inductive, PTL
     DEF Spec, AuthorityIsCurrent, EpochsAdvance, RevisionsAreAuthorised

----------------------------------------------------------------------------
(* Part two: who owns a company                                            *)

OfCompany(op) == op \in {"delegate", "register", "proof", "account", "link", "setting", "intent",
                         "restore", "export"} \cup Purposes
OfSession(op) == op \in {"link", "reauth", "logout", "select", "transition", "submit"}

\* A call has the arguments of its operation.
HasArguments(x) ==
    /\ OfCompany(x.op) \/ x.op = "select" => x.company \in Companies
    /\ x.op \in {"delegate", "register"} => x.candidate \in Keys
    /\ x.op = "delegate" => x.key \in Keys
    /\ x.op \in {"proof", "account", "link"} => x.proof \in Proofs
    /\ x.op \in {"account", "link"} => x.account \in Accounts
    /\ x.op \in {"intent"} \cup Purposes => x.intent \in Intents /\ x.purpose \in Purposes
    /\ x.op = "submit" => x.submit \in SubmitKeys
    /\ OfSession(x.op) => x.who # 0
    /\ x.op = "restore" /\ x.step = "write" => x.status # "none"

Purged(c) == companies[c].status = "purged"

\* The rows a call refers to are there, or its company was purged with them.
RowsAreThere(x) ==
    /\ x.who <= Len(sessions)
    /\ OfCompany(x.op) => setups[x.company] # None
    /\ x.op \in {"account", "link"} => proofs[x.proof] \in Proof /\ proofs[x.proof].company = x.company
    /\ x.op = "delegate" =>
          \/ keys[x.key] \in Key /\ keys[x.key].company = x.company
          \/ Purged(x.company)
    /\ x.op \in Purposes /\ x.step = "write" =>
          \/ intents[x.intent] \in Intent /\ intents[x.intent].company = x.company
          \/ Purged(x.company)

ArgumentsAreSound ==
    \A w \in Workers : calls[w] # Idle => HasArguments(calls[w]) /\ RowsAreThere(calls[w])

\* What refers to a company refers to one that was founded.
RowsAreOfFounded ==
    /\ \A k \in Keys : keys[k] # None => setups[keys[k].company] # None
    /\ \A p \in Proofs : proofs[p] # None => setups[proofs[p].company] # None
    /\ \A a \in authorities : setups[a.company] # None
    /\ \A c \in Companies : recovery[c] = "open" => setups[c] # None

\* An authority has spent its proof, and no other has.
ProofsAreSpent ==
    /\ \A a \in authorities : proofs[a.proof] \in Proof /\ proofs[a.proof].status \in {"consumed", "purged"}
    /\ ProofsAreSpentOnce

\* A company's active master credentials can be counted, up to the limit.
MastersAreCounted ==
    \A c \in Companies : IsFiniteSet(ActiveMasters(c)) /\ Cardinality(ActiveMasters(c)) <= MasterLimit

\* A session that has a successor is revoked.
SuccessorsFollow ==
    /\ \A s \in DOMAIN sessions : sessions[s].from # 0 => sessions[sessions[s].from].revoked
    /\ RotationsAreExclusive

\* In one process, what a call has read of its issuer is so until it writes.
ReadingsAreCurrent ==
    oneProcess =>
        /\ \A v, w \in Workers : Inside(v) /\ Inside(w) => v = w
        /\ \A w \in Workers : Inside(w) =>
              /\ calls[w].op = "delegate" => MasterAccepted(calls[w].key)
              /\ calls[w].op = "register" =>
                    AgentAccepted(calls[w].company) /\ companies[calls[w].company].enabled

OwnershipInv ==
    /\ OwnershipTypeOK
    /\ ArgumentsAreSound
    /\ RowsAreOfFounded
    /\ ProofsAreSpent
    /\ MastersAreCounted
    /\ SuccessorsFollow
    /\ ReadingsAreCurrent

----------------------------------------------------------------------------
(* What the types say                                                      *)

\* A call is none or of its type.
LEMMA CallIs ==
    ASSUME OwnershipTypeOK, NEW w \in Workers
    PROVE  /\ calls[w] = Idle \/ calls[w] \in Call
           /\ Idle \notin Call
BY DEF OwnershipTypeOK, Idle, Call, HumanCalls, Purposes

\* Sessions are numbered from one, and refer to earlier ones.
LEMMA SessionsAre ==
    ASSUME OwnershipTypeOK
    PROVE  /\ Len(sessions) \in Nat /\ DOMAIN sessions = 1..Len(sessions)
           /\ lane.sessions \in Nat /\ Len(sessions) <= lane.sessions /\ Numbers = 0..lane.sessions
           /\ DOMAIN sessions \subseteq Numbers \ {0}
           /\ \A s \in DOMAIN sessions : sessions[s] \in Session
           /\ \A s \in DOMAIN sessions :
                 sessions[s].from \in Nat /\ sessions[s].from < s /\ sessions[s].root <= s
<1>1. sessions \in Seq(Session) /\ Len(sessions) <= lane.sessions
  BY DEF OwnershipTypeOK
<1>2. Len(sessions) \in Nat /\ DOMAIN sessions = 1..Len(sessions)
  BY <1>1, LenProperties
<1>3. \A s \in DOMAIN sessions : sessions[s] \in Session
  BY <1>1, <1>2, ElementOfSeq
<1>4. lane.sessions \in Nat
  BY OwnershipAssumption DEF OwnershipTypeOK
<1>5. \A s \in DOMAIN sessions :
         sessions[s].from \in Nat /\ sessions[s].from < s /\ sessions[s].root <= s
  BY <1>3, <1>4 DEF OwnershipTypeOK, Session, Numbers
<1>. QED  BY <1>1, <1>2, <1>3, <1>4, <1>5 DEF Numbers

\* Rows are none or of their types.
LEMMA RowsAre ==
    ASSUME OwnershipTypeOK
    PROVE  /\ \A k \in Keys : keys[k] # None => keys[k] \in Key /\ keys[k].company \in Companies
           /\ \A p \in Proofs : proofs[p] # None => proofs[p] \in Proof /\ proofs[p].company \in Companies
           /\ \A c \in Companies : companies[c] \in Company
           /\ \A c \in Companies : setups[c] = None <=> companies[c].status = "none"
           /\ \A i \in Intents : intents[i] # None => intents[i] \in Intent
           /\ None \notin Intent
           /\ \A a \in authorities : /\ a.account \in Accounts /\ a.company \in Companies
                                     /\ a.role \in Roles /\ a.proof \in Proofs
<1>1. \A k \in Keys : keys[k] # None => keys[k] \in Key /\ keys[k].company \in Companies
  BY DEF OwnershipTypeOK, Maybe, Key
<1>2. \A p \in Proofs : proofs[p] # None => proofs[p] \in Proof /\ proofs[p].company \in Companies
  BY DEF OwnershipTypeOK, Maybe, Proof
<1>3. /\ \A c \in Companies : companies[c] \in Company
      /\ \A c \in Companies : setups[c] = None <=> companies[c].status = "none"
      /\ \A i \in Intents : intents[i] # None => intents[i] \in Intent
  BY DEF OwnershipTypeOK, Maybe
<1>4. None \notin Intent
  <2>1. Numbers \subseteq Nat
    BY SessionsAre
  <2>2. Intent \subseteq [company: Companies, who: Nat, purpose: Purposes,
                          status: {"pending", "lapsed", "consumed"}]
    BY <2>1 DEF Intent
  <2>. QED  BY <2>2, NoneIsNoRow
<1>5. \A a \in authorities : /\ a.account \in Accounts /\ a.company \in Companies
                             /\ a.role \in Roles /\ a.proof \in Proofs
  BY DEF OwnershipTypeOK, Authority
<1>. QED  BY <1>1, <1>2, <1>3, <1>4, <1>5

\* Who administers a company, or closes it, does so of one that was founded.
LEMMA AdminsAre ==
    ASSUME OwnershipInv
    PROVE  /\ \A s : Live(s) => s \in DOMAIN sessions /\ s \in Numbers /\ s # 0 /\ s <= Len(sessions)
           /\ \A s : CredentialAdmin(s) => /\ sessions[s].company \in Companies
                                           /\ setups[sessions[s].company] # None
           /\ \A s : Owner(s) => CredentialAdmin(s)
           /\ \A who \in {0} \cup DOMAIN sessions, c \in Companies : Closer(who, c) => setups[c] # None
           /\ \A who \in {0} \cup DOMAIN sessions : who \in Numbers /\ who <= Len(sessions)
<1>. USE DEF OwnershipInv
<1>1. \A s : Live(s) => s \in DOMAIN sessions /\ s \in Numbers /\ s # 0 /\ s <= Len(sessions)
  BY SessionsAre DEF Live
<1>2. ASSUME NEW s, CredentialAdmin(s)
      PROVE  sessions[s].company \in Companies /\ setups[sessions[s].company] # None
  <2>1. PICK a \in authorities : a.company = sessions[s].company
    BY <1>2 DEF CredentialAdmin, RoleIn
  <2>. QED  BY <2>1, RowsAre DEF RowsAreOfFounded
<1>3. \A s : Owner(s) => CredentialAdmin(s)
  BY DEF Owner, CredentialAdmin, Roles
<1>4. ASSUME NEW who \in {0} \cup DOMAIN sessions, NEW c \in Companies, Closer(who, c)
      PROVE  setups[c] # None
  BY <1>2, <1>3, <1>4 DEF Closer, RowsAreOfFounded
<1>5. \A who \in {0} \cup DOMAIN sessions : who \in Numbers /\ who <= Len(sessions)
  BY SessionsAre
<1>. QED  BY <1>1, <1>2, <1>3, <1>4, <1>5

----------------------------------------------------------------------------
(* What a step makes of its worker's call                                  *)

\* What a call reads of its issuer before it writes.
Reading(x) ==
    /\ x.op = "delegate" => MasterAccepted(x.key)
    /\ x.op = "register" => AgentAccepted(x.company) /\ companies[x.company].enabled

\* A call that a step may leave.
NewCall(x) ==
    \/ x = Idle
    \/ /\ x \in Call /\ HasArguments(x) /\ RowsAreThere(x)
       /\ x.step = "write" => Reading(x) /\ UNCHANGED <<companies, keys, agents>>

Takes(w) == May(w) /\ \E x : NewCall(x) /\ calls' = [calls EXCEPT ![w] = x]

\* A call that ends.
LEMMA Ends ==
    ASSUME NEW w \in Workers, May(w), End(w)
    PROVE  Takes(w)
BY DEF End, Takes, NewCall

\* A call that goes on from its reading to its writing.
LEMMA GoesOn ==
    ASSUME OwnershipInv, NEW w \in Workers, May(w), calls[w] # Idle,
           calls[w].step = "begun", Proceed(w), UNCHANGED <<companies, keys, agents>>,
           Reading(calls[w]), calls[w].op \notin Purposes \cup {"restore"}
    PROVE  Takes(w)
<1>. DEFINE c == calls[w]
            x == [c EXCEPT !.step = "write"]
<1>1. c \in Call /\ HasArguments(c) /\ RowsAreThere(c)
  BY CallIs DEF OwnershipInv, ArgumentsAreSound
<1>2. calls' = [calls EXCEPT ![w] = x]
  BY DEF Proceed
<1>3. /\ x \in Call /\ x.step = "write" /\ x.op = c.op /\ x.who = c.who /\ x.company = c.company
      /\ x.key = c.key /\ x.candidate = c.candidate /\ x.proof = c.proof /\ x.account = c.account
      /\ x.intent = c.intent /\ x.purpose = c.purpose /\ x.submit = c.submit
  BY <1>1 DEF Call
<1>. HIDE DEF x
<1>4. HasArguments(x)
  BY <1>1, <1>3 DEF HasArguments
<1>5. RowsAreThere(x)
  BY <1>1, <1>3 DEF RowsAreThere
<1>6. Reading(x)
  BY <1>3 DEF Reading
<1>7. NewCall(x)
  BY <1>3, <1>4, <1>5, <1>6 DEF NewCall
<1>. QED  BY <1>2, <1>7 DEF Takes


\* What arrives is new.
LEMMA Arrives ==
    ASSUME OwnershipInv, NEW w \in Workers, Arrive(w)
    PROVE  Takes(w)
<1>. USE DEF OwnershipInv
<1>1. 0 \in Numbers /\ 0 <= Len(sessions) /\ None \in Maybe(Companies) /\ "none" \in Statuses
  BY SessionsAre DEF Maybe, Statuses
<1>2. ASSUME NEW op, NEW c, NEW x, x = [c EXCEPT !.op = op], Begin(w, op, c),
             x \in Call, x.step = "begun", HasArguments(x), RowsAreThere(x)
      PROVE  Takes(w)
  BY <1>2 DEF Begin, NewCall, Takes
<1>3. ASSUME NEW k \in Keys, NEW candidate \in Keys, BeginDelegate(w, k, candidate)
      PROVE  Takes(w)
  <2>. DEFINE c0 == [Blank EXCEPT !.company = keys[k].company, !.key = k, !.candidate = candidate]
              x == [c0 EXCEPT !.op = "delegate"]
  <2>1. keys[k] \in Key /\ keys[k].company \in Companies /\ setups[keys[k].company] # None
    BY <1>3, RowsAre DEF BeginDelegate, MasterAccepted, RowsAreOfFounded
  <2>2. "delegate" \in HumanCalls
    BY DEF HumanCalls, Purposes
  <2>3. x \in Call
    BY <1>1, <2>1, <2>2 DEF Blank, Call, Maybe, Roles
  <2>4. /\ x.op = "delegate" /\ x.step = "begun" /\ x.who = 0
        /\ x.company = keys[k].company /\ x.key = k /\ x.candidate = candidate
    BY DEF Blank
  <2>5. Begin(w, "delegate", c0)
    BY <1>3 DEF BeginDelegate
  <2>6. x = [c0 EXCEPT !.op = "delegate"]
    OBVIOUS
  <2>. HIDE DEF x, c0
  <2>7. HasArguments(x)
    BY <2>1, <2>4 DEF HasArguments, OfCompany, OfSession, Purposes
  <2>8. RowsAreThere(x)
    BY <1>1, <2>1, <2>4 DEF RowsAreThere, OfCompany, Purposes
  <2>. QED  BY <1>2, <2>3, <2>4, <2>5, <2>6, <2>7, <2>8
<1>4. ASSUME NEW c \in Companies, NEW candidate \in Keys, BeginRegister(w, c, candidate)
      PROVE  Takes(w)
  <2>. DEFINE c0 == [Blank EXCEPT !.company = c, !.candidate = candidate]
              x == [c0 EXCEPT !.op = "register"]
  <2>1. setups[c] # None
    BY <1>4, RowsAre DEF BeginRegister, AgentAccepted
  <2>2. "register" \in HumanCalls
    BY DEF HumanCalls, Purposes
  <2>3. x \in Call
    BY <1>1, <2>1, <2>2 DEF Blank, Call, Maybe, Roles
  <2>4. /\ x.op = "register" /\ x.step = "begun" /\ x.who = 0
        /\ x.company = c /\ x.candidate = candidate
    BY DEF Blank
  <2>5. Begin(w, "register", c0)
    BY <1>4 DEF BeginRegister
  <2>6. x = [c0 EXCEPT !.op = "register"]
    OBVIOUS
  <2>. HIDE DEF x, c0
  <2>7. HasArguments(x)
    BY <2>1, <2>4 DEF HasArguments, OfCompany, OfSession, Purposes
  <2>8. RowsAreThere(x)
    BY <1>1, <2>1, <2>4 DEF RowsAreThere, OfCompany, Purposes
  <2>. QED  BY <1>2, <2>3, <2>4, <2>5, <2>6, <2>7, <2>8
<1>5. ASSUME NEW k \in Keys, NEW p \in Proofs, BeginProof(w, k, p)
      PROVE  Takes(w)
  <2>. DEFINE c0 == [Blank EXCEPT !.company = keys[k].company, !.key = k, !.proof = p]
              x == [c0 EXCEPT !.op = "proof"]
  <2>1. keys[k].company \in Companies /\ setups[keys[k].company] # None
    BY <1>5, RowsAre DEF BeginProof, MasterAccepted, RowsAreOfFounded
  <2>2. "proof" \in HumanCalls
    BY DEF HumanCalls, Purposes
  <2>3. x \in Call
    BY <1>1, <2>1, <2>2 DEF Blank, Call, Maybe, Roles
  <2>4. /\ x.op = "proof" /\ x.step = "begun" /\ x.who = 0
        /\ x.company = keys[k].company /\ x.key = k /\ x.proof = p
    BY DEF Blank
  <2>5. Begin(w, "proof", c0)
    BY <1>5 DEF BeginProof
  <2>6. x = [c0 EXCEPT !.op = "proof"]
    OBVIOUS
  <2>. HIDE DEF x, c0
  <2>7. HasArguments(x)
    BY <2>1, <2>4 DEF HasArguments, OfCompany, OfSession, Purposes
  <2>8. RowsAreThere(x)
    BY <1>1, <2>1, <2>4 DEF RowsAreThere, OfCompany, Purposes
  <2>. QED  BY <1>2, <2>3, <2>4, <2>5, <2>6, <2>7, <2>8
<1>6. ASSUME NEW a \in Accounts, NEW p \in Proofs, BeginAccount(w, a, p)
      PROVE  Takes(w)
  <2>. DEFINE c0 == [Blank EXCEPT !.account = a, !.proof = p, !.company = proofs[p].company]
              x == [c0 EXCEPT !.op = "account"]
  <2>1. proofs[p] \in Proof /\ proofs[p].company \in Companies /\ setups[proofs[p].company] # None
    BY <1>6, RowsAre DEF BeginAccount, RowsAreOfFounded
  <2>2. "account" \in HumanCalls
    BY DEF HumanCalls, Purposes
  <2>3. x \in Call
    BY <1>1, <2>1, <2>2 DEF Blank, Call, Maybe, Roles
  <2>4. /\ x.op = "account" /\ x.step = "begun" /\ x.who = 0
        /\ x.account = a /\ x.proof = p /\ x.company = proofs[p].company
    BY DEF Blank
  <2>5. Begin(w, "account", c0)
    BY <1>6 DEF BeginAccount
  <2>6. x = [c0 EXCEPT !.op = "account"]
    OBVIOUS
  <2>. HIDE DEF x, c0
  <2>7. HasArguments(x)
    BY <2>1, <2>4 DEF HasArguments, OfCompany, OfSession, Purposes
  <2>8. RowsAreThere(x)
    BY <1>1, <2>1, <2>4 DEF RowsAreThere, OfCompany, Purposes
  <2>. QED  BY <1>2, <2>3, <2>4, <2>5, <2>6, <2>7, <2>8
<1>7. ASSUME NEW s \in DOMAIN sessions, NEW p \in Proofs, NEW role \in Roles, BeginLink(w, s, p, role)
      PROVE  Takes(w)
  <2>. DEFINE c0 == [Blank EXCEPT !.who = s, !.account = sessions[s].account, !.proof = p, !.company = proofs[p].company, !.role = role]
              x == [c0 EXCEPT !.op = "link"]
  <2>1. /\ proofs[p] \in Proof /\ proofs[p].company \in Companies /\ setups[proofs[p].company] # None
        /\ s \in Numbers /\ s # 0 /\ s <= Len(sessions) /\ sessions[s].account \in Accounts
    BY <1>7, RowsAre, SessionsAre DEF BeginLink, RowsAreOfFounded, Session
  <2>2. "link" \in HumanCalls
    BY DEF HumanCalls, Purposes
  <2>3. x \in Call
    BY <1>1, <2>1, <2>2 DEF Blank, Call, Maybe, Roles
  <2>4. /\ x.op = "link" /\ x.step = "begun"
        /\ x.who = s /\ x.account = sessions[s].account /\ x.proof = p /\ x.company = proofs[p].company /\ x.role = role
    BY DEF Blank
  <2>5. Begin(w, "link", c0)
    BY <1>7 DEF BeginLink
  <2>6. x = [c0 EXCEPT !.op = "link"]
    OBVIOUS
  <2>. HIDE DEF x, c0
  <2>7. HasArguments(x)
    BY <2>1, <2>4 DEF HasArguments, OfCompany, OfSession, Purposes
  <2>8. RowsAreThere(x)
    BY <1>1, <2>1, <2>4 DEF RowsAreThere, OfCompany, Purposes
  <2>. QED  BY <1>2, <2>3, <2>4, <2>5, <2>6, <2>7, <2>8
<1>8. ASSUME NEW s \in DOMAIN sessions, BeginReauth(w, s)
      PROVE  Takes(w)
  <2>. DEFINE c0 == [Blank EXCEPT !.who = s]
              x == [c0 EXCEPT !.op = "reauth"]
  <2>1. s \in Numbers /\ s # 0 /\ s <= Len(sessions)
    BY <1>8, SessionsAre
  <2>2. "reauth" \in HumanCalls
    BY DEF HumanCalls, Purposes
  <2>3. x \in Call
    BY <1>1, <2>1, <2>2 DEF Blank, Call, Maybe, Roles
  <2>4. /\ x.op = "reauth" /\ x.step = "begun"
        /\ x.who = s
    BY DEF Blank
  <2>5. Begin(w, "reauth", c0)
    BY <1>8 DEF BeginReauth
  <2>6. x = [c0 EXCEPT !.op = "reauth"]
    OBVIOUS
  <2>. HIDE DEF x, c0
  <2>7. HasArguments(x)
    BY <2>1, <2>4 DEF HasArguments, OfCompany, OfSession, Purposes
  <2>8. RowsAreThere(x)
    BY <1>1, <2>1, <2>4 DEF RowsAreThere, OfCompany, Purposes
  <2>. QED  BY <1>2, <2>3, <2>4, <2>5, <2>6, <2>7, <2>8
<1>9. ASSUME NEW s \in DOMAIN sessions, BeginLogout(w, s)
      PROVE  Takes(w)
  <2>. DEFINE c0 == [Blank EXCEPT !.who = s]
              x == [c0 EXCEPT !.op = "logout"]
  <2>1. s \in Numbers /\ s # 0 /\ s <= Len(sessions)
    BY <1>9, SessionsAre
  <2>2. "logout" \in HumanCalls
    BY DEF HumanCalls, Purposes
  <2>3. x \in Call
    BY <1>1, <2>1, <2>2 DEF Blank, Call, Maybe, Roles
  <2>4. /\ x.op = "logout" /\ x.step = "begun"
        /\ x.who = s
    BY DEF Blank
  <2>5. Begin(w, "logout", c0)
    BY <1>9 DEF BeginLogout
  <2>6. x = [c0 EXCEPT !.op = "logout"]
    OBVIOUS
  <2>. HIDE DEF x, c0
  <2>7. HasArguments(x)
    BY <2>1, <2>4 DEF HasArguments, OfCompany, OfSession, Purposes
  <2>8. RowsAreThere(x)
    BY <1>1, <2>1, <2>4 DEF RowsAreThere, OfCompany, Purposes
  <2>. QED  BY <1>2, <2>3, <2>4, <2>5, <2>6, <2>7, <2>8
<1>10. ASSUME NEW s \in DOMAIN sessions, NEW c \in Companies, BeginSelect(w, s, c)
      PROVE  Takes(w)
  <2>. DEFINE c0 == [Blank EXCEPT !.who = s, !.company = c]
              x == [c0 EXCEPT !.op = "select"]
  <2>1. s \in Numbers /\ s # 0 /\ s <= Len(sessions)
    BY <1>10, SessionsAre
  <2>2. "select" \in HumanCalls
    BY DEF HumanCalls, Purposes
  <2>3. x \in Call
    BY <1>1, <2>1, <2>2 DEF Blank, Call, Maybe, Roles
  <2>4. /\ x.op = "select" /\ x.step = "begun"
        /\ x.who = s /\ x.company = c
    BY DEF Blank
  <2>5. Begin(w, "select", c0)
    BY <1>10 DEF BeginSelect
  <2>6. x = [c0 EXCEPT !.op = "select"]
    OBVIOUS
  <2>. HIDE DEF x, c0
  <2>7. HasArguments(x)
    BY <2>1, <2>4 DEF HasArguments, OfCompany, OfSession, Purposes
  <2>8. RowsAreThere(x)
    BY <1>1, <2>1, <2>4 DEF RowsAreThere, OfCompany, Purposes
  <2>. QED  BY <1>2, <2>3, <2>4, <2>5, <2>6, <2>7, <2>8
<1>11. ASSUME NEW s \in DOMAIN sessions, NEW yes \in BOOLEAN, BeginSetting(w, s, yes)
      PROVE  Takes(w)
  <2>. DEFINE c0 == [Blank EXCEPT !.company = sessions[s].company, !.flag = yes]
              x == [c0 EXCEPT !.op = "setting"]
  <2>1. sessions[s].company \in Companies /\ setups[sessions[s].company] # None
    BY <1>11, AdminsAre DEF BeginSetting
  <2>2. "setting" \in HumanCalls
    BY DEF HumanCalls, Purposes
  <2>3. x \in Call
    BY <1>1, <2>1, <2>2 DEF Blank, Call, Maybe, Roles
  <2>4. /\ x.op = "setting" /\ x.step = "begun" /\ x.who = 0
        /\ x.company = sessions[s].company /\ x.flag = yes
    BY DEF Blank
  <2>5. Begin(w, "setting", c0)
    BY <1>11 DEF BeginSetting
  <2>6. x = [c0 EXCEPT !.op = "setting"]
    OBVIOUS
  <2>. HIDE DEF x, c0
  <2>7. HasArguments(x)
    BY <2>1, <2>4 DEF HasArguments, OfCompany, OfSession, Purposes
  <2>8. RowsAreThere(x)
    BY <1>1, <2>1, <2>4 DEF RowsAreThere, OfCompany, Purposes
  <2>. QED  BY <1>2, <2>3, <2>4, <2>5, <2>6, <2>7, <2>8
<1>12. ASSUME NEW who \in {0} \cup DOMAIN sessions, NEW c \in Companies,
             NEW i \in Intents, NEW purpose \in Purposes, BeginIntent(w, who, c, i, purpose)
      PROVE  Takes(w)
  <2>. DEFINE c0 == [Blank EXCEPT !.who = who, !.company = c, !.intent = i, !.purpose = purpose]
              x == [c0 EXCEPT !.op = "intent"]
  <2>1. setups[c] # None /\ who \in Numbers /\ who <= Len(sessions)
    BY <1>12, AdminsAre DEF BeginIntent
  <2>2. "intent" \in HumanCalls
    BY DEF HumanCalls, Purposes
  <2>3. x \in Call
    BY <1>1, <2>1, <2>2 DEF Blank, Call, Maybe, Roles
  <2>4. /\ x.op = "intent" /\ x.step = "begun"
        /\ x.who = who /\ x.company = c /\ x.intent = i /\ x.purpose = purpose
    BY DEF Blank
  <2>5. Begin(w, "intent", c0)
    BY <1>12 DEF BeginIntent
  <2>6. x = [c0 EXCEPT !.op = "intent"]
    OBVIOUS
  <2>. HIDE DEF x, c0
  <2>7. HasArguments(x)
    BY <2>1, <2>4 DEF HasArguments, OfCompany, OfSession, Purposes
  <2>8. RowsAreThere(x)
    BY <1>1, <2>1, <2>4 DEF RowsAreThere, OfCompany, Purposes
  <2>. QED  BY <1>2, <2>3, <2>4, <2>5, <2>6, <2>7, <2>8
<1>13. ASSUME NEW who \in {0} \cup DOMAIN sessions, NEW c \in Companies,
             NEW i \in Intents, NEW purpose \in Purposes, NEW yes \in BOOLEAN, BeginClosure(w, who, c, i, purpose, yes)
      PROVE  Takes(w)
  <2>. DEFINE c0 == [Blank EXCEPT !.who = who, !.company = c, !.intent = i, !.purpose = purpose, !.flag = yes]
              x == [c0 EXCEPT !.op = purpose]
  <2>1. setups[c] # None /\ who \in Numbers /\ who <= Len(sessions)
    BY <1>13, AdminsAre DEF BeginClosure
  <2>2. purpose \in HumanCalls
    BY DEF HumanCalls, Purposes
  <2>3. x \in Call
    BY <1>1, <2>1, <2>2 DEF Blank, Call, Maybe, Roles
  <2>4. /\ x.op = purpose /\ x.step = "begun"
        /\ x.who = who /\ x.company = c /\ x.intent = i /\ x.purpose = purpose /\ x.flag = yes
    BY DEF Blank
  <2>5. Begin(w, purpose, c0)
    BY <1>13 DEF BeginClosure
  <2>6. x = [c0 EXCEPT !.op = purpose]
    OBVIOUS
  <2>. HIDE DEF x, c0
  <2>7. HasArguments(x)
    BY <2>1, <2>4 DEF HasArguments, OfCompany, OfSession, Purposes
  <2>8. RowsAreThere(x)
    BY <1>1, <2>1, <2>4 DEF RowsAreThere, OfCompany, Purposes
  <2>. QED  BY <1>2, <2>3, <2>4, <2>5, <2>6, <2>7, <2>8
<1>14. ASSUME NEW s \in DOMAIN sessions, BeginRestore(w, s)
      PROVE  Takes(w)
  <2>. DEFINE c0 == [Blank EXCEPT !.company = sessions[s].company]
              x == [c0 EXCEPT !.op = "restore"]
  <2>1. sessions[s].company \in Companies /\ setups[sessions[s].company] # None
    BY <1>14, AdminsAre DEF BeginRestore
  <2>2. "restore" \in HumanCalls
    BY DEF HumanCalls, Purposes
  <2>3. x \in Call
    BY <1>1, <2>1, <2>2 DEF Blank, Call, Maybe, Roles
  <2>4. /\ x.op = "restore" /\ x.step = "begun" /\ x.who = 0
        /\ x.company = sessions[s].company
    BY DEF Blank
  <2>5. Begin(w, "restore", c0)
    BY <1>14 DEF BeginRestore
  <2>6. x = [c0 EXCEPT !.op = "restore"]
    OBVIOUS
  <2>. HIDE DEF x, c0
  <2>7. HasArguments(x)
    BY <2>1, <2>4 DEF HasArguments, OfCompany, OfSession, Purposes
  <2>8. RowsAreThere(x)
    BY <1>1, <2>1, <2>4 DEF RowsAreThere, OfCompany, Purposes
  <2>. QED  BY <1>2, <2>3, <2>4, <2>5, <2>6, <2>7, <2>8
<1>15. ASSUME NEW s \in DOMAIN sessions, BeginExport(w, s)
      PROVE  Takes(w)
  <2>. DEFINE c0 == [Blank EXCEPT !.company = sessions[s].company]
              x == [c0 EXCEPT !.op = "export"]
  <2>1. sessions[s].company \in Companies /\ setups[sessions[s].company] # None
    BY <1>15, AdminsAre DEF BeginExport
  <2>2. "export" \in HumanCalls
    BY DEF HumanCalls, Purposes
  <2>3. x \in Call
    BY <1>1, <2>1, <2>2 DEF Blank, Call, Maybe, Roles
  <2>4. /\ x.op = "export" /\ x.step = "begun" /\ x.who = 0
        /\ x.company = sessions[s].company
    BY DEF Blank
  <2>5. Begin(w, "export", c0)
    BY <1>15 DEF BeginExport
  <2>6. x = [c0 EXCEPT !.op = "export"]
    OBVIOUS
  <2>. HIDE DEF x, c0
  <2>7. HasArguments(x)
    BY <2>1, <2>4 DEF HasArguments, OfCompany, OfSession, Purposes
  <2>8. RowsAreThere(x)
    BY <1>1, <2>1, <2>4 DEF RowsAreThere, OfCompany, Purposes
  <2>. QED  BY <1>2, <2>3, <2>4, <2>5, <2>6, <2>7, <2>8
<1>16. ASSUME NEW s \in DOMAIN sessions, NEW yes \in BOOLEAN, BeginTransition(w, s, yes)
      PROVE  Takes(w)
  <2>. DEFINE c0 == [Blank EXCEPT !.who = s, !.flag = yes]
              x == [c0 EXCEPT !.op = "transition"]
  <2>1. s \in Numbers /\ s # 0 /\ s <= Len(sessions)
    BY <1>16, SessionsAre
  <2>2. "transition" \in HumanCalls
    BY DEF HumanCalls, Purposes
  <2>3. x \in Call
    BY <1>1, <2>1, <2>2 DEF Blank, Call, Maybe, Roles
  <2>4. /\ x.op = "transition" /\ x.step = "begun"
        /\ x.who = s /\ x.flag = yes
    BY DEF Blank
  <2>5. Begin(w, "transition", c0)
    BY <1>16 DEF BeginTransition
  <2>6. x = [c0 EXCEPT !.op = "transition"]
    OBVIOUS
  <2>. HIDE DEF x, c0
  <2>7. HasArguments(x)
    BY <2>1, <2>4 DEF HasArguments, OfCompany, OfSession, Purposes
  <2>8. RowsAreThere(x)
    BY <1>1, <2>1, <2>4 DEF RowsAreThere, OfCompany, Purposes
  <2>. QED  BY <1>2, <2>3, <2>4, <2>5, <2>6, <2>7, <2>8
<1>17. ASSUME NEW s \in DOMAIN sessions, NEW k \in SubmitKeys, NEW yes \in BOOLEAN, BeginSubmit(w, s, k, yes)
      PROVE  Takes(w)
  <2>. DEFINE c0 == [Blank EXCEPT !.who = s, !.submit = k, !.flag = yes]
              x == [c0 EXCEPT !.op = "submit"]
  <2>1. s \in Numbers /\ s # 0 /\ s <= Len(sessions)
    BY <1>17, SessionsAre
  <2>2. "submit" \in HumanCalls
    BY DEF HumanCalls, Purposes
  <2>3. x \in Call
    BY <1>1, <2>1, <2>2 DEF Blank, Call, Maybe, Roles
  <2>4. /\ x.op = "submit" /\ x.step = "begun"
        /\ x.who = s /\ x.submit = k /\ x.flag = yes
    BY DEF Blank
  <2>5. Begin(w, "submit", c0)
    BY <1>17 DEF BeginSubmit
  <2>6. x = [c0 EXCEPT !.op = "submit"]
    OBVIOUS
  <2>. HIDE DEF x, c0
  <2>7. HasArguments(x)
    BY <2>1, <2>4 DEF HasArguments, OfCompany, OfSession, Purposes
  <2>8. RowsAreThere(x)
    BY <1>1, <2>1, <2>4 DEF RowsAreThere, OfCompany, Purposes
  <2>. QED  BY <1>2, <2>3, <2>4, <2>5, <2>6, <2>7, <2>8
<1>. QED  BY <1>3, <1>4, <1>5, <1>6, <1>7, <1>8, <1>9, <1>10, <1>11, <1>12, <1>13, <1>14, <1>15, <1>16, <1>17 DEF Arrive


\* The call of a worker at a step.
LEMMA AtIs ==
    ASSUME OwnershipInv, NEW w \in Workers, NEW step, NEW ops, At(w, step, ops)
    PROVE  /\ calls[w] # Idle /\ calls[w].step = step /\ calls[w].op \in ops /\ May(w)
           /\ calls[w] \in Call /\ HasArguments(calls[w]) /\ RowsAreThere(calls[w])
BY CallIs DEF OwnershipInv, ArgumentsAreSound, At

\* What the server does.
LEMMA Serves ==
    ASSUME OwnershipInv, NEW w \in Workers, Server(w)
    PROVE  Takes(w)
<1>. USE DEF OwnershipInv
<1>. DEFINE c == calls[w]
<1>1. ASSUME DelegateRead(w)
      PROVE  Takes(w)
  <2>1. c # Idle /\ c.step = "begun" /\ c.op = "delegate" /\ May(w)
    BY <1>1, AtIs DEF DelegateRead
  <2>2. CASE End(w)
    BY <2>1, <2>2, Ends
  <2>3. CASE MasterAccepted(c.key) /\ Proceed(w)
    <3>1. UNCHANGED <<companies, keys, agents>>
      BY <1>1 DEF DelegateRead, company
    <3>. QED  BY <2>1, <2>3, <3>1, GoesOn DEF Reading, Purposes
  <2>. QED  BY <1>1, <2>2, <2>3 DEF DelegateRead
<1>2. ASSUME RegisterRead(w)
      PROVE  Takes(w)
  <2>1. c # Idle /\ c.step = "begun" /\ c.op = "register" /\ May(w)
    BY <1>2, AtIs DEF RegisterRead
  <2>2. CASE End(w)
    BY <2>1, <2>2, Ends
  <2>3. CASE AgentAccepted(c.company) /\ companies[c.company].enabled /\ Proceed(w)
    <3>1. UNCHANGED <<companies, keys, agents>>
      BY <1>2 DEF RegisterRead, company
    <3>. QED  BY <2>1, <2>3, <3>1, GoesOn DEF Reading, Purposes
  <2>. QED  BY <1>2, <2>2, <2>3 DEF RegisterRead
<1>3. ASSUME VerifyProof(w)
      PROVE  Takes(w)
  <2>1. c # Idle /\ c.step = "begun" /\ c.op \in {"account", "link"} /\ May(w)
    BY <1>3, AtIs DEF VerifyProof
  <2>2. CASE End(w)
    BY <2>1, <2>2, Ends
  <2>3. CASE Proceed(w)
    <3>1. UNCHANGED <<companies, keys, agents>>
      BY <1>3 DEF VerifyProof, company
    <3>. QED  BY <2>1, <2>3, <3>1, GoesOn DEF Reading, Purposes
  <2>. QED  BY <1>3, <2>2, <2>3 DEF VerifyProof
<1>4. ASSUME ClosureRead(w)
      PROVE  Takes(w)
  <2>1. /\ c # Idle /\ c.step = "begun" /\ c.op \in Purposes /\ May(w)
        /\ c \in Call /\ HasArguments(c) /\ RowsAreThere(c)
    BY <1>4, AtIs DEF ClosureRead
  <2>2. CASE End(w)
    BY <2>1, <2>2, Ends
  <2>3. CASE LoadIntent(c) /\ calls' = [calls EXCEPT ![w].step = "write", ![w].status = companies[c.company].status]
    <3>. DEFINE x == [c EXCEPT !.step = "write", !.status = companies[c.company].status]
    <3>1. calls' = [calls EXCEPT ![w] = x]
      BY <2>3
    <3>2. c.company \in Companies /\ c.intent \in Intents
      BY <2>1 DEF HasArguments, OfCompany
    <3>3. companies[c.company].status \in Statuses
      BY <3>2, RowsAre DEF Company
    <3>4. intents[c.intent] \in Intent /\ intents[c.intent].company = c.company
      BY <2>3, <3>2, RowsAre DEF LoadIntent
    <3>5. /\ x \in Call /\ x.step = "write" /\ x.op = c.op /\ x.who = c.who /\ x.company = c.company
          /\ x.key = c.key /\ x.candidate = c.candidate /\ x.proof = c.proof /\ x.account = c.account
          /\ x.intent = c.intent /\ x.purpose = c.purpose /\ x.submit = c.submit
      BY <2>1, <3>3 DEF Call
    <3>. HIDE DEF x
    <3>6. HasArguments(x)
      BY <2>1, <3>5 DEF HasArguments, Purposes
    <3>7. RowsAreThere(x)
      BY <2>1, <3>4, <3>5 DEF RowsAreThere
    <3>8. Reading(x)
      BY <2>1, <3>5 DEF Reading, Purposes
    <3>9. UNCHANGED <<companies, keys, agents>>
      BY <1>4 DEF ClosureRead, company
    <3>10. NewCall(x)
      BY <3>5, <3>6, <3>7, <3>8, <3>9 DEF NewCall
    <3>. QED  BY <2>1, <3>1, <3>10 DEF Takes
  <2>. QED  BY <1>4, <2>2, <2>3 DEF ClosureRead
<1>5. ASSUME RestoreRead(w)
      PROVE  Takes(w)
  <2>. DEFINE row == companies[c.company]
              status == IF row.before = "none" THEN "active" ELSE row.before
  <2>1. /\ c # Idle /\ c.step = "begun" /\ c.op = "restore" /\ May(w)
        /\ c \in Call /\ HasArguments(c) /\ RowsAreThere(c)
    BY <1>5, AtIs DEF RestoreRead
  <2>2. CASE End(w)
    BY <2>1, <2>2, Ends
  <2>3. CASE calls' = [calls EXCEPT ![w].step = "write", ![w].status = status]
    <3>. DEFINE x == [c EXCEPT !.step = "write", !.status = status]
    <3>1. calls' = [calls EXCEPT ![w] = x]
      BY <2>3
    <3>2. c.company \in Companies
      BY <2>1 DEF HasArguments, OfCompany
    <3>3. status \in Statuses /\ status # "none"
      BY <3>2, RowsAre DEF Company, Statuses
    <3>. HIDE DEF status
    <3>5. /\ x \in Call /\ x.step = "write" /\ x.op = c.op /\ x.who = c.who /\ x.company = c.company
          /\ x.key = c.key /\ x.candidate = c.candidate /\ x.proof = c.proof /\ x.account = c.account
          /\ x.intent = c.intent /\ x.purpose = c.purpose /\ x.submit = c.submit /\ x.status = status
      BY <2>1, <3>3 DEF Call
    <3>. HIDE DEF x
    <3>6. HasArguments(x)
      BY <2>1, <3>3, <3>5 DEF HasArguments, Purposes
    <3>7. RowsAreThere(x)
      BY <2>1, <3>5 DEF RowsAreThere, Purposes
    <3>8. Reading(x)
      BY <2>1, <3>5 DEF Reading
    <3>9. UNCHANGED <<companies, keys, agents>>
      BY <1>5 DEF RestoreRead, company
    <3>10. NewCall(x)
      BY <3>5, <3>6, <3>7, <3>8, <3>9 DEF NewCall
    <3>. QED  BY <2>1, <3>1, <3>10 DEF Takes
  <2>. QED  BY <1>5, <2>2, <2>3 DEF RestoreRead
<1>6. ASSUME DelegateWrite(w) \/ RegisterWrite(w) \/ SetSetting(w) \/ CreateProof(w) \/ Enroll(w)
      PROVE  Takes(w)
  BY <1>6, AtIs, Ends DEF DelegateWrite, RegisterWrite, SetSetting, CreateProof, Enroll
<1>7. ASSUME \/ Reauthenticate(w) \/ SelectMembership(w) \/ Logout(w) \/ TransitionContext(w)
             \/ SubmitMemory(w)
      PROVE  Takes(w)
  BY <1>7, AtIs, Ends DEF Reauthenticate, SelectMembership, Logout, TransitionContext, SubmitMemory
<1>8. ASSUME \/ RecordExport(w) \/ CreateIntent(w) \/ CloseCompany(w)
             \/ SoftDeleteCompany(w) \/ RestoreCompany(w) \/ PurgeCompany(w)
      PROVE  Takes(w)
  BY <1>8, AtIs, Ends DEF RecordExport, CreateIntent, CloseCompany, SoftDeleteCompany, RestoreCompany,
     PurgeCompany
<1>. QED  BY <1>1, <1>2, <1>3, <1>4, <1>5, <1>6, <1>7, <1>8 DEF Server


\* What a call refers to is there.
LEMMA Refers ==
    ASSUME OwnershipInv, NEW w \in Workers, calls[w] # Idle
    PROVE  /\ calls[w] \in Call /\ HasArguments(calls[w]) /\ RowsAreThere(calls[w])
           /\ OfCompany(calls[w].op) => /\ calls[w].company \in Companies
                                        /\ companies[calls[w].company] \in Company
                                        /\ companies[calls[w].company].status # "none"
                                        /\ setups[calls[w].company] # None
           /\ OfSession(calls[w].op) => calls[w].who \in DOMAIN sessions
<1>. USE DEF OwnershipInv
<1>1. HasArguments(calls[w]) /\ RowsAreThere(calls[w]) /\ calls[w] \in Call
  BY CallIs DEF ArgumentsAreSound
<1>2. ASSUME OfCompany(calls[w].op)
      PROVE  /\ calls[w].company \in Companies
             /\ companies[calls[w].company] \in Company
             /\ companies[calls[w].company].status # "none"
             /\ setups[calls[w].company] # None
  <2>1. calls[w].company \in Companies
    BY <1>1, <1>2 DEF HasArguments
  <2>2. setups[calls[w].company] # None
    BY <1>1, <1>2 DEF RowsAreThere
  <2>. QED  BY <2>1, <2>2, RowsAre
<1>3. ASSUME OfSession(calls[w].op)
      PROVE  calls[w].who \in DOMAIN sessions
  <2>0. calls[w].who \in Numbers
    BY <1>1 DEF Call
  <2>1. calls[w].who # 0
    BY <1>1, <1>3 DEF HasArguments
  <2>2. calls[w].who <= Len(sessions)
    BY <1>1 DEF RowsAreThere
  <2>3. Len(sessions) \in Nat /\ DOMAIN sessions = 1..Len(sessions) /\ lane.sessions \in Nat /\ Numbers = 0..lane.sessions
    BY SessionsAre
  <2>. HIDE DEF OwnershipInv
  <2>. QED  BY <2>0, <2>1, <2>2, <2>3
<1>. QED  BY <1>1, <1>2, <1>3

\* Which call is at which step.
LEMMA ActsAt ==
    ASSUME NEW w \in Workers
    PROVE  /\ DelegateWrite(w) => calls[w] # Idle /\ calls[w].op = "delegate" /\ calls[w].step = "write"
           /\ RegisterWrite(w) => calls[w] # Idle /\ calls[w].op = "register" /\ calls[w].step = "write"
           /\ SetSetting(w) => calls[w] # Idle /\ calls[w].op = "setting" /\ calls[w].step = "begun"
           /\ CreateProof(w) => calls[w] # Idle /\ calls[w].op = "proof" /\ calls[w].step = "begun"
           /\ VerifyProof(w) => calls[w] # Idle /\ calls[w].op \in {"account", "link"} /\ calls[w].step = "begun"
           /\ Enroll(w) => calls[w] # Idle /\ calls[w].op \in {"account", "link"} /\ calls[w].step = "write"
           /\ Reauthenticate(w) => calls[w] # Idle /\ calls[w].op = "reauth" /\ calls[w].step = "begun"
           /\ SelectMembership(w) => calls[w] # Idle /\ calls[w].op = "select" /\ calls[w].step = "begun"
           /\ Logout(w) => calls[w] # Idle /\ calls[w].op = "logout" /\ calls[w].step = "begun"
           /\ TransitionContext(w) => calls[w] # Idle /\ calls[w].op = "transition" /\ calls[w].step = "begun"
           /\ SubmitMemory(w) => calls[w] # Idle /\ calls[w].op = "submit" /\ calls[w].step = "begun"
           /\ RecordExport(w) => calls[w] # Idle /\ calls[w].op = "export" /\ calls[w].step = "begun"
           /\ CreateIntent(w) => calls[w] # Idle /\ calls[w].op = "intent" /\ calls[w].step = "begun"
           /\ CloseCompany(w) => calls[w] # Idle /\ calls[w].op = "close" /\ calls[w].step = "write"
           /\ SoftDeleteCompany(w) => calls[w] # Idle /\ calls[w].op = "soft_delete" /\ calls[w].step = "write"
           /\ RestoreCompany(w) => calls[w] # Idle /\ calls[w].op = "restore" /\ calls[w].step = "write"
           /\ PurgeCompany(w) => calls[w] # Idle /\ calls[w].op = "permanent_purge" /\ calls[w].step = "write"
<1>1. /\ DelegateWrite(w) => At(w, "write", {"delegate"})
      /\ RegisterWrite(w) => At(w, "write", {"register"})
      /\ SetSetting(w) => At(w, "begun", {"setting"})
      /\ CreateProof(w) => At(w, "begun", {"proof"})
      /\ VerifyProof(w) => At(w, "begun", {"account", "link"})
      /\ Enroll(w) => At(w, "write", {"account", "link"})
  BY DEF DelegateWrite, RegisterWrite, SetSetting, CreateProof, VerifyProof, Enroll
<1>2. /\ Reauthenticate(w) => At(w, "begun", {"reauth"})
      /\ SelectMembership(w) => At(w, "begun", {"select"})
      /\ Logout(w) => At(w, "begun", {"logout"})
      /\ TransitionContext(w) => At(w, "begun", {"transition"})
      /\ SubmitMemory(w) => At(w, "begun", {"submit"})
  BY DEF Reauthenticate, SelectMembership, Logout, TransitionContext, SubmitMemory
<1>3. /\ RecordExport(w) => At(w, "begun", {"export"})
      /\ CreateIntent(w) => At(w, "begun", {"intent"})
      /\ CloseCompany(w) => At(w, "write", {"close"})
      /\ SoftDeleteCompany(w) => At(w, "write", {"soft_delete"})
      /\ RestoreCompany(w) => At(w, "write", {"restore"})
      /\ PurgeCompany(w) => At(w, "write", {"permanent_purge"})
  BY DEF RecordExport, CreateIntent, CloseCompany, SoftDeleteCompany, RestoreCompany, PurgeCompany
<1>. QED  BY <1>1, <1>2, <1>3 DEF At


----------------------------------------------------------------------------
(* What a step makes of the tables                                         *)

\* Which steps of a worker write which table.
LEMMA WorkerWrites ==
    ASSUME NEW w \in Workers, Arrive(w) \/ Server(w)
    PROVE  /\ UNCHANGED <<oneProcess, lane, setups, expired>>
           /\ UNCHANGED begun \/ (begun < lane.calls /\ begun' = begun + 1)
           /\ UNCHANGED companies \/ SetSetting(w) \/ CloseCompany(w) \/ SoftDeleteCompany(w)
                \/ RestoreCompany(w) \/ PurgeCompany(w)
           /\ UNCHANGED keys \/ DelegateWrite(w) \/ RegisterWrite(w) \/ CloseCompany(w) \/ PurgeCompany(w)
           /\ UNCHANGED agents \/ CloseCompany(w) \/ PurgeCompany(w)
           /\ UNCHANGED proofs \/ CreateProof(w) \/ VerifyProof(w) \/ Enroll(w) \/ PurgeCompany(w)
           /\ UNCHANGED <<accounts, authorities>> \/ Enroll(w) \/ PurgeCompany(w)
           /\ UNCHANGED sessions \/ Enroll(w) \/ Reauthenticate(w) \/ SelectMembership(w) \/ Logout(w)
                \/ TransitionContext(w) \/ SubmitMemory(w) \/ PurgeCompany(w)
           /\ UNCHANGED recovery \/ PurgeCompany(w)
           /\ UNCHANGED intents \/ CreateIntent(w) \/ CloseCompany(w) \/ SoftDeleteCompany(w)
                \/ PurgeCompany(w)
           /\ UNCHANGED exports \/ RecordExport(w) \/ PurgeCompany(w)
           /\ UNCHANGED memories \/ SubmitMemory(w) \/ PurgeCompany(w)
<1>. USE DEF Same, setting, company, people, presence, closure
<1>1. CASE Arrive(w)
  <2>1. ASSUME NEW op, NEW c, Begin(w, op, c)
        PROVE  /\ UNCHANGED <<setting, company, keys, proofs, people, presence, closure, memories>>
               /\ begun < lane.calls /\ begun' = begun + 1
    BY <2>1 DEF Begin
  <2>2. /\ UNCHANGED <<setting, company, keys, proofs, people, presence, closure, memories>>
        /\ begun < lane.calls /\ begun' = begun + 1
    BY <1>1, <2>1 DEF Arrive, BeginDelegate, BeginRegister, BeginProof, BeginAccount, BeginLink,
       BeginReauth, BeginLogout, BeginSelect, BeginSetting, BeginIntent, BeginClosure, BeginRestore,
       BeginExport, BeginTransition, BeginSubmit
  <2>. QED  BY <2>2
<1>2. CASE DelegateRead(w) \/ DelegateWrite(w) \/ RegisterRead(w) \/ RegisterWrite(w) \/ SetSetting(w)
  BY <1>2 DEF DelegateRead, DelegateWrite, RegisterRead, RegisterWrite, SetSetting
<1>3. CASE CreateProof(w) \/ VerifyProof(w) \/ Enroll(w)
  BY <1>3 DEF CreateProof, VerifyProof, Enroll
<1>4. CASE \/ Reauthenticate(w) \/ SelectMembership(w) \/ Logout(w) \/ TransitionContext(w)
           \/ SubmitMemory(w)
  BY <1>4 DEF Reauthenticate, SelectMembership, Logout, TransitionContext, SubmitMemory
<1>5. CASE RecordExport(w) \/ CreateIntent(w) \/ ClosureRead(w) \/ CloseCompany(w)
  BY <1>5 DEF RecordExport, CreateIntent, ClosureRead, CloseCompany
<1>6. CASE SoftDeleteCompany(w) \/ RestoreRead(w) \/ RestoreCompany(w) \/ PurgeCompany(w)
  BY <1>6 DEF SoftDeleteCompany, RestoreRead, RestoreCompany, PurgeCompany
<1>. QED  BY <1>1, <1>2, <1>3, <1>4, <1>5, <1>6 DEF Server

\* Which steps of nobody's call do.
LEMMA AloneWrites ==
    ASSUME Alone
    PROVE  /\ UNCHANGED <<oneProcess, lane, calls, begun, accounts, authorities, exports, memories>>
           /\ \/ /\ UNCHANGED <<companies, setups, keys>>
              \/ \E c \in Companies, k \in Keys, r \in Requests : CreateBootstrapAccount(c, k, r)
           /\ UNCHANGED agents \/ \E c \in Companies : TopLevelAgent(c)
           /\ UNCHANGED proofs \/ Lapse
           /\ \/ UNCHANGED sessions \/ Lapse
              \/ \E a \in Accounts : OpenSession(a)
              \/ \E s \in DOMAIN sessions : ViewContext(s)
           /\ UNCHANGED expired \/ \E s \in DOMAIN sessions : Expire(s)
           /\ UNCHANGED recovery \/ Lapse \/ \E c \in Companies : OpenRecovery(c)
           /\ UNCHANGED intents \/ Lapse
           /\ UNCHANGED <<companies, keys, agents>> \/ Quiet
<1>. USE DEF Same, setting, company, people, presence, closure
<1>1. CASE \E c \in Companies, k \in Keys, r \in Requests : CreateBootstrapAccount(c, k, r)
  BY <1>1 DEF CreateBootstrapAccount
<1>2. CASE \E c \in Companies : TopLevelAgent(c) \/ OpenRecovery(c)
  BY <1>2 DEF TopLevelAgent, OpenRecovery
<1>3. CASE \E a \in Accounts : OpenSession(a)
  BY <1>3 DEF OpenSession
<1>4. CASE \E s \in DOMAIN sessions : Expire(s) \/ ViewContext(s)
  BY <1>4 DEF Expire, ViewContext
<1>5. CASE Lapse
  BY <1>5 DEF Lapse
<1>. QED  BY <1>1, <1>2, <1>3, <1>4, <1>5 DEF Alone

\* Companies keep their types; founded ones stay founded, and purged ones purged.
LEMMA CompaniesStep ==
    ASSUME OwnershipInv, OwnershipNext
    PROVE  /\ oneProcess' = oneProcess /\ lane' = lane
           /\ companies' \in [Companies -> Company] /\ setups' \in [Companies -> Maybe(Requests)]
           /\ \A c \in Companies : setups'[c] = None <=> companies'[c].status = "none"
           /\ \A c \in Companies : setups[c] # None => setups'[c] # None
           /\ \A c \in Companies : Purged(c) => Purged(c)'
           /\ agents' \in [Companies -> {"none", "active", "revoked"}]
<1>. USE DEF OwnershipInv
<1>0. /\ companies \in [Companies -> Company] /\ setups \in [Companies -> Maybe(Requests)]
      /\ \A c \in Companies : setups[c] = None <=> companies[c].status = "none"
      /\ agents \in [Companies -> {"none", "active", "revoked"}]
  BY DEF OwnershipTypeOK
<1>1. \A c \in Companies : Purged(c)' <=> companies'[c].status = "purged"
  BY DEF Purged
<1>2. CASE UNCHANGED <<oneProcess, lane, companies, setups, agents>>
  BY <1>0, <1>1, <1>2 DEF Purged
<1>3. CASE Alone
  <2>1. ASSUME NEW c \in Companies, NEW k \in Keys, NEW r \in Requests, CreateBootstrapAccount(c, k, r)
        PROVE  /\ companies' \in [Companies -> Company] /\ setups' \in [Companies -> Maybe(Requests)]
               /\ \A d \in Companies : setups'[d] = None <=> companies'[d].status = "none"
               /\ \A d \in Companies : setups[d] # None => setups'[d] # None
               /\ \A d \in Companies : Purged(d) => companies'[d].status = "purged"
    <3>. DEFINE row == [status |-> "active", before |-> "none", enabled |-> TRUE]
    <3>1. /\ setups[c] = None /\ setups' = [setups EXCEPT ![c] = r]
          /\ companies' = [companies EXCEPT ![c] = row]
      BY <2>1 DEF CreateBootstrapAccount, Founded
    <3>2. row \in Company /\ row.status = "active" /\ r # None /\ r \in Maybe(Requests)
      BY OwnershipAssumption DEF Company, Statuses, Maybe
    <3>. HIDE DEF row
    <3>. QED  BY <1>0, <3>1, <3>2 DEF Purged
  <2>2. ASSUME NEW c \in Companies, TopLevelAgent(c)
        PROVE  agents' \in [Companies -> {"none", "active", "revoked"}]
    BY <1>0, <2>2 DEF TopLevelAgent
  <2>. QED  BY <1>0, <1>1, <1>3, <2>1, <2>2, AloneWrites DEF Purged
<1>4. ASSUME NEW w \in Workers, Arrive(w) \/ Server(w)
      PROVE  /\ oneProcess' = oneProcess /\ lane' = lane /\ setups' = setups
             /\ companies' \in [Companies -> Company]
             /\ \A c \in Companies : companies'[c].status = "none" <=> companies[c].status = "none"
             /\ \A c \in Companies : Purged(c) => companies'[c].status = "purged"
             /\ agents' \in [Companies -> {"none", "active", "revoked"}]
  <2>. DEFINE c == calls[w].company
  <2>1. oneProcess' = oneProcess /\ lane' = lane /\ setups' = setups
    BY <1>4, WorkerWrites
  <2>2. ASSUME \/ SetSetting(w) \/ CloseCompany(w) \/ SoftDeleteCompany(w) \/ RestoreCompany(w)
               \/ PurgeCompany(w)
        PROVE  /\ c \in Companies /\ companies[c] \in Company /\ companies[c].status # "none"
               /\ calls[w] \in Call
               /\ (RestoreCompany(w) => calls[w].status # "none")
    <3>1. /\ calls[w] # Idle
          /\ calls[w].op \in {"setting", "restore", "close", "soft_delete", "permanent_purge"}
          /\ (RestoreCompany(w) => calls[w].op = "restore" /\ calls[w].step = "write")
      BY <2>2, ActsAt
    <3>2. OfCompany(calls[w].op)
      BY <3>1 DEF OfCompany, Purposes
    <3>3. calls[w] \in Call /\ HasArguments(calls[w])
      BY <3>1, Refers
    <3>4. RestoreCompany(w) => calls[w].status # "none"
      BY <3>1, <3>3 DEF HasArguments
    <3>. QED  BY <3>1, <3>2, <3>3, <3>4, Refers
  <2>3. agents' \in [Companies -> {"none", "active", "revoked"}]
    <3>1. CASE CloseCompany(w)
      BY <1>0, <3>1 DEF CloseCompany
    <3>2. CASE PurgeCompany(w)
      BY <1>0, <3>2 DEF PurgeCompany
    <3>. QED  BY <1>0, <1>4, <3>1, <3>2, WorkerWrites
  <2>4. CASE UNCHANGED companies
    BY <1>0, <2>1, <2>3, <2>4 DEF Purged
  <2>5. ASSUME NEW row \in Company, row.status # "none", Purged(c) => row.status = "purged",
               companies' = [companies EXCEPT ![c] = row], c \in Companies,
               companies[c].status # "none"
        PROVE  /\ companies' \in [Companies -> Company]
               /\ \A d \in Companies : companies'[d].status = "none" <=> companies[d].status = "none"
               /\ \A d \in Companies : Purged(d) => companies'[d].status = "purged"
    BY <1>0, <2>5 DEF Purged
  <2>6. CASE SetSetting(w)
    <3>. DEFINE row == [companies[c] EXCEPT !.enabled = calls[w].flag]
    <3>1. companies' = companies \/ (companies' = [companies EXCEPT ![c] = row] /\ ~Purged(c))
      BY <2>6 DEF SetSetting, Purged
    <3>2. row \in Company /\ row.status = companies[c].status
      BY <2>2, <2>6 DEF Company, Call
    <3>. HIDE DEF row
    <3>. QED  BY <2>1, <2>2, <2>3, <2>4, <2>5, <2>6, <3>1, <3>2
  <2>7. CASE CloseCompany(w)
    <3>. DEFINE row == [companies[c] EXCEPT !.status = "closed"]
    <3>1. companies' = companies \/ (companies' = [companies EXCEPT ![c] = row] /\ ~Purged(c))
      BY <2>7 DEF CloseCompany, Purged
    <3>2. row \in Company /\ row.status = "closed"
      BY <2>2, <2>7 DEF Company, Statuses
    <3>. HIDE DEF row
    <3>. QED  BY <2>1, <2>2, <2>3, <2>4, <2>5, <2>7, <3>1, <3>2
  <2>8. CASE SoftDeleteCompany(w)
    <3>. DEFINE row == [companies[c] EXCEPT !.status = "soft_deleted", !.before = calls[w].status]
    <3>1. companies' = companies \/ (companies' = [companies EXCEPT ![c] = row] /\ ~Purged(c))
      BY <2>8 DEF SoftDeleteCompany, Purged
    <3>2. row \in Company /\ row.status = "soft_deleted"
      BY <2>2, <2>8 DEF Company, Statuses, Call
    <3>. HIDE DEF row
    <3>. QED  BY <2>1, <2>2, <2>3, <2>4, <2>5, <2>8, <3>1, <3>2
  <2>9. CASE RestoreCompany(w)
    <3>. DEFINE row == [companies[c] EXCEPT !.status = calls[w].status, !.before = "none"]
    <3>1. companies' = companies \/ (companies' = [companies EXCEPT ![c] = row] /\ ~Purged(c))
      BY <2>9 DEF RestoreCompany, Purged
    <3>2. row \in Company /\ row.status = calls[w].status
      BY <2>2, <2>9 DEF Company, Statuses, Call
    <3>. HIDE DEF row
    <3>. QED  BY <2>1, <2>2, <2>3, <2>4, <2>5, <2>9, <3>1, <3>2
  <2>10. CASE PurgeCompany(w)
    <3>. DEFINE row == [status |-> "purged", before |-> "none", enabled |-> FALSE]
    <3>1. companies' = [companies EXCEPT ![c] = row]
      BY <2>10 DEF PurgeCompany
    <3>2. row \in Company /\ row.status = "purged"
      BY DEF Company, Statuses
    <3>. HIDE DEF row
    <3>. QED  BY <2>1, <2>2, <2>3, <2>5, <2>10, <3>1, <3>2
  <2>. QED  BY <1>4, <2>4, <2>6, <2>7, <2>8, <2>9, <2>10, WorkerWrites
<1>5. CASE \E w \in Workers : Arrive(w) \/ Server(w)
  BY <1>0, <1>1, <1>4, <1>5
<1>. QED  BY <1>3, <1>5 DEF OwnershipNext


\* A part of a set that is within the limit is.
LEMMA PartIsCounted ==
    ASSUME NEW S, NEW T, IsFiniteSet(S), Cardinality(S) <= MasterLimit, T \subseteq S
    PROVE  IsFiniteSet(T) /\ Cardinality(T) <= MasterLimit
<1>1. IsFiniteSet(T) /\ Cardinality(T) <= Cardinality(S)
  BY FS_Subset
<1>2. Cardinality(T) \in Nat /\ Cardinality(S) \in Nat
  BY <1>1, FS_CardinalityType
<1>. QED  BY <1>1, <1>2, OwnershipAssumption

\* A set with room for one more has room for it.
LEMMA OneMoreIsCounted ==
    ASSUME NEW S, NEW x, IsFiniteSet(S), Cardinality(S) < MasterLimit
    PROVE  IsFiniteSet(S \cup {x}) /\ Cardinality(S \cup {x}) <= MasterLimit
<1>1. /\ IsFiniteSet(S \cup {x})
      /\ Cardinality(S \cup {x}) = IF x \in S THEN Cardinality(S) ELSE Cardinality(S) + 1
  BY FS_AddElement
<1>2. Cardinality(S) \in Nat
  BY FS_CardinalityType
<1>. QED  BY <1>1, <1>2, OwnershipAssumption

\* Master credentials keep their types and companies, and stay within the limit.
LEMMA KeysStep ==
    ASSUME OwnershipInv, OwnershipNext
    PROVE  /\ keys' \in [Keys -> Maybe(Key)]
           /\ \A k \in Keys : keys'[k] # None => setups'[keys'[k].company] # None
           /\ \A k \in Keys : keys[k] \in Key =>
                 \/ keys'[k] \in Key /\ keys'[k].company = keys[k].company
                 \/ companies'[keys[k].company].status = "purged"
           /\ \A c \in Companies :
                 IsFiniteSet(ActiveMasters(c)') /\ Cardinality(ActiveMasters(c)') <= MasterLimit
<1>. USE DEF OwnershipInv
<1>. DEFINE Masters(c, ks) == {k \in Keys : ks[k] # None /\ ks[k].company = c /\ ~ks[k].revoked}
            Counted(c, ks) == IsFiniteSet(Masters(c, ks)) /\ Cardinality(Masters(c, ks)) <= MasterLimit
<1>0. /\ keys \in [Keys -> Maybe(Key)]
      /\ \A k \in Keys : keys[k] # None => keys[k] \in Key /\ keys[k].company \in Companies
      /\ \A k \in Keys : keys[k] # None => setups[keys[k].company] # None
      /\ None \notin Key
  BY RowsAre, NoneIsNoRow DEF OwnershipTypeOK, RowsAreOfFounded
<1>1. \A c \in Companies : Masters(c, keys) = ActiveMasters(c) /\ Masters(c, keys') = ActiveMasters(c)'
  BY DEF ActiveMasters
<1>2. \A c \in Companies : Counted(c, keys)
  BY <1>1 DEF MastersAreCounted
<1>3. \A c \in Companies : setups[c] # None => setups'[c] # None
  BY CompaniesStep
<1>. DEFINE KeptOrPurged == \A k \in Keys : keys[k] \in Key =>
                 \/ keys'[k] \in Key /\ keys'[k].company = keys[k].company
                 \/ companies'[keys[k].company].status = "purged"
<1>5. ASSUME NEW c \in Companies, NEW k \in Keys, NEW r \in Requests, CreateBootstrapAccount(c, k, r)
      PROVE  /\ keys' \in [Keys -> Maybe(Key)]
             /\ \A j \in Keys : keys'[j] # None => setups'[keys'[j].company] # None
             /\ KeptOrPurged
             /\ \A d \in Companies : Counted(d, keys')
  <2>. DEFINE row == [company |-> c, by |-> "bootstrap", revoked |-> FALSE]
  <2>1. /\ setups[c] = None /\ keys[k] = None /\ setups' = [setups EXCEPT ![c] = r]
        /\ keys' = [keys EXCEPT ![k] = row]
    BY <1>5 DEF CreateBootstrapAccount, FirstKey
  <2>2. row \in Key /\ row.company = c /\ ~row.revoked /\ row # None /\ r # None
    <3>1. row \in Key
      BY DEF Key
    <3>2. r # None
      BY OwnershipAssumption
    <3>3. row # None
      BY <1>0, <3>1
    <3>. QED  BY <3>1, <3>2, <3>3
  <2>3. setups \in [Companies -> Maybe(Requests)]
    BY DEF OwnershipTypeOK
  <2>. HIDE DEF row
  <2>4. Masters(c, keys') = {k}
    BY <1>0, <2>1, <2>2
  <2>5. Counted(c, keys')
    <3>1. IsFiniteSet({k}) /\ Cardinality({k}) = 1
      BY FS_Singleton
    <3>2. Cardinality({k}) <= MasterLimit
      BY <3>1, OwnershipAssumption
    <3>. HIDE DEF Masters
    <3>. QED  BY <2>4, <3>1, <3>2
  <2>6. \A d \in Companies \ {c} : Masters(d, keys') = Masters(d, keys)
    BY <1>0, <2>1, <2>2
  <2>7. \A d \in Companies : Counted(d, keys')
    BY <1>2, <2>5, <2>6
  <2>8. keys' \in [Keys -> Maybe(Key)]
    BY <1>0, <2>1, <2>2 DEF Maybe
  <2>9. \A j \in Keys : keys'[j] # None => setups'[keys'[j].company] # None
    BY <1>0, <2>1, <2>2, <2>3
  <2>10. KeptOrPurged
    BY <1>0, <2>1
  <2>. QED  BY <2>7, <2>8, <2>9, <2>10
<1>6. ASSUME NEW w \in Workers, NEW kind \in {"master", "agent"}, keys' = Registered(w, kind),
             calls[w] # Idle, calls[w].op \in {"delegate", "register"}
      PROVE  /\ keys' \in [Keys -> Maybe(Key)]
             /\ \A j \in Keys : keys'[j] # None => setups'[keys'[j].company] # None
             /\ KeptOrPurged
             /\ \A d \in Companies : Counted(d, keys')
  <2>. DEFINE c == calls[w].company
              k == calls[w].candidate
              row == [company |-> c, by |-> kind, revoked |-> FALSE]
  <2>1. c \in Companies /\ k \in Keys /\ setups[c] # None
    BY <1>6, Refers DEF OfCompany, HasArguments
  <2>2. CASE keys' = keys
    <3>1. \A d \in Companies : Counted(d, keys')
      BY <1>2, <2>2
    <3>. QED  BY <1>0, <1>3, <2>2, <3>1
  <2>3. CASE keys[k] = None /\ HasMasterRoom(c) /\ keys' = [keys EXCEPT ![k] = row]
    <3>1. row \in Key /\ row.company = c /\ ~row.revoked /\ row # None
      <4>1. row \in Key
        BY <2>1 DEF Key
      <4>. QED  BY <1>0, <4>1
    <3>2. Cardinality(Masters(c, keys)) < MasterLimit
      BY <2>3 DEF HasMasterRoom, ActiveMasters
    <3>. HIDE DEF row, c, k
    <3>3. Masters(c, keys') = Masters(c, keys) \cup {k}
      BY <1>0, <2>1, <2>3, <3>1
    <3>4. Counted(c, keys')
      <4>. DEFINE S == Masters(c, keys)
      <4>1. IsFiniteSet(S) /\ Cardinality(S) < MasterLimit
        BY <1>2, <2>1, <3>2
      <4>. HIDE DEF S
      <4>2. IsFiniteSet(S \cup {k}) /\ Cardinality(S \cup {k}) <= MasterLimit
        BY <4>1, OneMoreIsCounted
      <4>3. Masters(c, keys') = S \cup {k}
        BY <3>3 DEF S
      <4>. QED  BY <4>2, <4>3
    <3>5. \A d \in Companies \ {c} : Masters(d, keys') = Masters(d, keys)
      BY <1>0, <2>1, <2>3, <3>1
    <3>6. \A d \in Companies : Counted(d, keys')
      BY <1>2, <3>4, <3>5
    <3>7. keys' \in [Keys -> Maybe(Key)]
      BY <1>0, <2>1, <2>3, <3>1 DEF Maybe
    <3>8. \A j \in Keys : keys'[j] # None => setups'[keys'[j].company] # None
      BY <1>0, <1>3, <2>1, <2>3, <3>1
    <3>9. KeptOrPurged
      BY <1>0, <2>1, <2>3
    <3>. QED  BY <3>6, <3>7, <3>8, <3>9
  <2>. QED  BY <1>6, <2>2, <2>3 DEF Registered
<1>7. ASSUME NEW w \in Workers, CloseCompany(w)
      PROVE  /\ keys' \in [Keys -> Maybe(Key)]
             /\ \A j \in Keys : keys'[j] # None => setups'[keys'[j].company] # None
             /\ KeptOrPurged
             /\ \A d \in Companies : Counted(d, keys')
  <2>. DEFINE c == calls[w].company
  <2>1. CASE keys' = keys
    <3>1. \A d \in Companies : Counted(d, keys')
      BY <1>2, <2>1
    <3>. QED  BY <1>0, <1>3, <2>1, <3>1
  <2>2. CASE keys' = [k \in Keys |-> IF keys[k] # None /\ keys[k].company = c
                                     THEN [keys[k] EXCEPT !.revoked = TRUE] ELSE keys[k]]
    <3>1. \A k \in Keys : keys[k] # None =>
             keys'[k] \in Key /\ keys'[k].company = keys[k].company /\ (keys[k].revoked => keys'[k].revoked)
      BY <1>0, <2>2 DEF Key
    <3>2. \A k \in Keys : keys[k] = None => keys'[k] = None
      BY <2>2
    <3>3. keys' \in [Keys -> Maybe(Key)]
      BY <2>2, <3>1, <3>2 DEF Maybe
    <3>4. \A d \in Companies : Masters(d, keys') \subseteq Masters(d, keys)
      BY <1>0, <3>1, <3>2
    <3>5. \A d \in Companies : Counted(d, keys')
      BY <1>2, <3>4, PartIsCounted
    <3>6. \A j \in Keys : keys'[j] # None => setups'[keys'[j].company] # None
      BY <1>0, <1>3, <3>1, <3>2
    <3>7. KeptOrPurged
      BY <1>0, <3>1
    <3>. QED  BY <3>3, <3>5, <3>6, <3>7
  <2>. QED  BY <1>7, <2>1, <2>2 DEF CloseCompany
<1>8. ASSUME NEW w \in Workers, PurgeCompany(w)
      PROVE  /\ keys' \in [Keys -> Maybe(Key)]
             /\ \A j \in Keys : keys'[j] # None => setups'[keys'[j].company] # None
             /\ KeptOrPurged
             /\ \A d \in Companies : Counted(d, keys')
  <2>. DEFINE c == calls[w].company
  <2>1. keys' = [k \in Keys |-> IF keys[k] # None /\ keys[k].company = c THEN None ELSE keys[k]]
    BY <1>8 DEF PurgeCompany
  <2>2. companies'[c].status = "purged"
    <3>1. c \in Companies
      BY <1>8, ActsAt, Refers DEF OfCompany, Purposes
    <3>. QED  BY <1>8, <3>1 DEF PurgeCompany, OwnershipTypeOK
  <2>3. \A k \in Keys : keys'[k] = None \/ (keys[k] # None /\ keys'[k] = keys[k])
    BY <2>1
  <2>4. \A d \in Companies : Masters(d, keys') \subseteq Masters(d, keys)
    BY <2>3
  <2>5. \A d \in Companies : Counted(d, keys')
    BY <1>2, <2>4, PartIsCounted
  <2>6. keys' \in [Keys -> Maybe(Key)]
    BY <1>0, <2>1 DEF Maybe
  <2>7. \A j \in Keys : keys'[j] # None => setups'[keys'[j].company] # None
    BY <1>0, <1>3, <2>3
  <2>8. KeptOrPurged
    BY <1>0, <2>1, <2>2
  <2>. QED  BY <2>5, <2>6, <2>7, <2>8
<1>9. ASSUME NEW w \in Workers, Arrive(w) \/ Server(w), keys' # keys
      PROVE  /\ keys' \in [Keys -> Maybe(Key)]
             /\ \A j \in Keys : keys'[j] # None => setups'[keys'[j].company] # None
             /\ KeptOrPurged
             /\ \A d \in Companies : Counted(d, keys')
  <2>1. DelegateWrite(w) \/ RegisterWrite(w) \/ CloseCompany(w) \/ PurgeCompany(w)
    BY <1>9, WorkerWrites
  <2>2. CASE DelegateWrite(w)
    BY <1>6, <2>2, ActsAt DEF DelegateWrite
  <2>3. CASE RegisterWrite(w)
    BY <1>6, <2>3, ActsAt DEF RegisterWrite
  <2>. QED  BY <1>7, <1>8, <2>1, <2>2, <2>3
<1>10. keys' = keys \/ \/ \E c \in Companies, k \in Keys, r \in Requests : CreateBootstrapAccount(c, k, r)
                       \/ \E w \in Workers : (Arrive(w) \/ Server(w)) /\ keys' # keys
  BY AloneWrites DEF OwnershipNext
<1>11. /\ keys' \in [Keys -> Maybe(Key)]
       /\ \A j \in Keys : keys'[j] # None => setups'[keys'[j].company] # None
       /\ KeptOrPurged
       /\ \A d \in Companies : Counted(d, keys')
  <2>1. ASSUME keys' = keys
        PROVE  /\ keys' \in [Keys -> Maybe(Key)]
               /\ \A j \in Keys : keys'[j] # None => setups'[keys'[j].company] # None
               /\ KeptOrPurged
               /\ \A d \in Companies : Counted(d, keys')
    <3>1. \A d \in Companies : Counted(d, keys')
      BY <1>2, <2>1
    <3>. QED  BY <1>0, <1>3, <2>1, <3>1
  <2>. HIDE DEF Counted, KeptOrPurged
  <2>. QED  BY <1>5, <1>9, <1>10, <2>1
<1>. QED  BY <1>1, <1>11


\* The proof that a row is spent.
Spent(row) == row.status \in {"consumed", "purged"}

\* Proofs keep their types and companies; spent ones stay spent.
LEMMA ProofsStep ==
    ASSUME OwnershipInv, OwnershipNext
    PROVE  /\ proofs' \in [Proofs -> Maybe(Proof)]
           /\ \A p \in Proofs : proofs'[p] # None => setups'[proofs'[p].company] # None
           /\ \A p \in Proofs : proofs[p] \in Proof =>
                 /\ proofs'[p] \in Proof /\ proofs'[p].company = proofs[p].company
                 /\ Spent(proofs[p]) => Spent(proofs'[p])
<1>. USE DEF OwnershipInv
<1>0. /\ proofs \in [Proofs -> Maybe(Proof)]
      /\ \A p \in Proofs : proofs[p] # None => proofs[p] \in Proof /\ proofs[p].company \in Companies
      /\ \A p \in Proofs : proofs[p] # None => setups[proofs[p].company] # None
      /\ None \notin Proof
  BY RowsAre, NoneIsNoRow DEF OwnershipTypeOK, RowsAreOfFounded
<1>1. \A c \in Companies : setups[c] # None => setups'[c] # None
  BY CompaniesStep
<1>. DEFINE Kept(ps) == \A p \in Proofs : proofs[p] \in Proof =>
                 /\ ps[p] \in Proof /\ ps[p].company = proofs[p].company
                 /\ Spent(proofs[p]) => Spent(ps[p])
            Founds(ps) == \A p \in Proofs : ps[p] # None =>
                             ps[p] \in Proof /\ ps[p].company \in Companies /\ setups[ps[p].company] # None
<1>2. ASSUME NEW p \in Proofs, proofs[p] \in Proof, NEW status \in {"lapsed", "consumed", "expired"},
             ~Spent(proofs[p]), proofs' = [proofs EXCEPT ![p].status = status]
      PROVE  proofs' \in [Proofs -> Maybe(Proof)] /\ Kept(proofs') /\ Founds(proofs')
  <2>. DEFINE row == [proofs[p] EXCEPT !.status = status]
  <2>1. row \in Proof /\ row.company = proofs[p].company
    BY <1>2 DEF Proof
  <2>2. proofs' = [proofs EXCEPT ![p] = row]
    BY <1>0, <1>2
  <2>. HIDE DEF row
  <2>3. proofs' \in [Proofs -> Maybe(Proof)]
    BY <1>0, <2>1, <2>2 DEF Maybe
  <2>4. \A q \in Proofs : proofs'[q] = IF q = p THEN row ELSE proofs[q]
    BY <1>0, <2>2
  <2>5. Kept(proofs')
    BY <1>2, <2>1, <2>4
  <2>6. Founds(proofs')
    BY <1>0, <1>2, <2>1, <2>4
  <2>. QED  BY <2>3, <2>5, <2>6
<1>3. ASSUME proofs' = proofs
      PROVE  proofs' \in [Proofs -> Maybe(Proof)] /\ Kept(proofs') /\ Founds(proofs')
  BY <1>0, <1>3
<1>4. ASSUME Lapse
      PROVE  proofs' \in [Proofs -> Maybe(Proof)] /\ Kept(proofs') /\ Founds(proofs')
  <2>1. \/ proofs' = proofs
        \/ \E p \in Proofs : /\ proofs[p] # None /\ proofs[p].status = "issued"
                             /\ proofs' = [proofs EXCEPT ![p].status = "lapsed"]
    BY <1>4 DEF Lapse
  <2>2. ASSUME NEW p \in Proofs, proofs[p] # None, proofs[p].status = "issued"
        PROVE  proofs[p] \in Proof /\ ~Spent(proofs[p])
    BY <1>0, <2>2 DEF Spent
  <2>. HIDE DEF Kept, Founds
  <2>. QED  BY <1>2, <1>3, <2>1, <2>2
<1>5. ASSUME NEW w \in Workers, VerifyProof(w) \/ Enroll(w)
      PROVE  proofs' \in [Proofs -> Maybe(Proof)] /\ Kept(proofs') /\ Founds(proofs')
  <2>. DEFINE p == calls[w].proof
  <2>1. calls[w] # Idle /\ calls[w].op \in {"account", "link"}
    BY <1>5, ActsAt
  <2>2. p \in Proofs /\ proofs[p] \in Proof
    BY <2>1, Refers DEF HasArguments, RowsAreThere
  <2>3. \/ proofs' = proofs
        \/ proofs[p].status = "lapsed" /\ proofs' = [proofs EXCEPT ![p].status = "expired"]
        \/ Unspent(p) /\ proofs' = [proofs EXCEPT ![p].status = "consumed"]
    BY <1>5 DEF VerifyProof, Enroll
  <2>. HIDE DEF p
  <2>4. Unspent(p) \/ proofs[p].status = "lapsed" => ~Spent(proofs[p])
    BY DEF Unspent, Spent
  <2>. HIDE DEF Kept, Founds
  <2>. QED  BY <1>2, <1>3, <2>2, <2>3, <2>4
<1>6. ASSUME NEW w \in Workers, CreateProof(w)
      PROVE  proofs' \in [Proofs -> Maybe(Proof)] /\ Kept(proofs') /\ Founds(proofs')
  <2>. DEFINE p == calls[w].proof
              c == calls[w].company
              row == [company |-> c, status |-> "issued"]
  <2>1. calls[w] # Idle /\ calls[w].op = "proof"
    BY <1>6, ActsAt
  <2>2. p \in Proofs /\ c \in Companies /\ setups[c] # None
    BY <2>1, Refers DEF HasArguments, OfCompany
  <2>3. proofs[p] = None /\ (proofs' = proofs \/ proofs' = [proofs EXCEPT ![p] = row])
    BY <1>6 DEF CreateProof
  <2>4. row \in Proof /\ row.company = c
    BY <2>2 DEF Proof
  <2>. HIDE DEF p, c, row
  <2>5. CASE proofs' = [proofs EXCEPT ![p] = row]
    <3>1. \A q \in Proofs : proofs'[q] = IF q = p THEN row ELSE proofs[q]
      BY <1>0, <2>5
    <3>2. proofs' \in [Proofs -> Maybe(Proof)]
      BY <1>0, <2>4, <2>5 DEF Maybe
    <3>3. Kept(proofs')
      BY <1>0, <2>3, <3>1
    <3>4. Founds(proofs')
      BY <1>0, <2>2, <2>4, <3>1
    <3>. QED  BY <3>2, <3>3, <3>4
  <2>. HIDE DEF Kept, Founds
  <2>. QED  BY <1>3, <2>3, <2>5
<1>7. ASSUME NEW w \in Workers, PurgeCompany(w)
      PROVE  proofs' \in [Proofs -> Maybe(Proof)] /\ Kept(proofs') /\ Founds(proofs')
  <2>. DEFINE c == calls[w].company
  <2>1. proofs' = [p \in Proofs |-> IF proofs[p] # None /\ proofs[p].company = c
                                    THEN [proofs[p] EXCEPT !.status = "purged"] ELSE proofs[p]]
    BY <1>7 DEF PurgeCompany
  <2>2. \A p \in Proofs : proofs[p] # None =>
           /\ proofs'[p] \in Proof /\ proofs'[p].company = proofs[p].company
           /\ proofs'[p].status = proofs[p].status \/ proofs'[p].status = "purged"
    BY <1>0, <2>1 DEF Proof
  <2>3. \A p \in Proofs : proofs[p] = None => proofs'[p] = None
    BY <2>1
  <2>4. proofs' \in [Proofs -> Maybe(Proof)]
    BY <2>1, <2>2, <2>3 DEF Maybe
  <2>5. Kept(proofs')
    BY <1>0, <2>2 DEF Spent
  <2>6. Founds(proofs')
    BY <1>0, <2>2, <2>3
  <2>. QED  BY <2>4, <2>5, <2>6
<1>8. proofs' = proofs \/ Lapse \/ \E w \in Workers : VerifyProof(w) \/ Enroll(w) \/ CreateProof(w)
                                                      \/ PurgeCompany(w)
  BY AloneWrites, WorkerWrites DEF OwnershipNext
<1>9. proofs' \in [Proofs -> Maybe(Proof)] /\ Kept(proofs') /\ Founds(proofs')
  <2>. HIDE DEF Kept, Founds
  <2>. QED  BY <1>3, <1>4, <1>5, <1>6, <1>7, <1>8
<1>10. \A p \in Proofs : proofs'[p] # None => setups'[proofs'[p].company] # None
  BY <1>1, <1>9
<1>. QED  BY <1>9, <1>10

\* An authority is made once of a proof, which it spends.
LEMMA AuthoritiesStep ==
    ASSUME OwnershipInv, OwnershipNext
    PROVE  /\ accounts' \subseteq Accounts /\ authorities' \in SUBSET Authority
           /\ \A a \in authorities' : setups'[a.company] # None
           /\ \A a \in authorities' : proofs'[a.proof] \in Proof /\ Spent(proofs'[a.proof])
           /\ \A a, b \in authorities' : a.proof = b.proof => a = b
<1>. USE DEF OwnershipInv
<1>0. /\ accounts \subseteq Accounts /\ authorities \subseteq Authority
      /\ \A a \in authorities : a.company \in Companies /\ a.proof \in Proofs
      /\ \A a \in authorities : setups[a.company] # None
      /\ \A a \in authorities : proofs[a.proof] \in Proof /\ Spent(proofs[a.proof])
      /\ \A a, b \in authorities : a.proof = b.proof => a = b
  BY RowsAre DEF OwnershipTypeOK, RowsAreOfFounded, ProofsAreSpent, ProofsAreSpentOnce, Spent
<1>1. \A c \in Companies : setups[c] # None => setups'[c] # None
  BY CompaniesStep
<1>2. \A p \in Proofs : proofs[p] \in Proof =>
                 /\ proofs'[p] \in Proof /\ proofs'[p].company = proofs[p].company
                 /\ Spent(proofs[p]) => Spent(proofs'[p])
  BY ProofsStep
<1>3. CASE accounts' = accounts /\ authorities' \subseteq authorities
  <2>1. \A a \in authorities : setups'[a.company] # None
    BY <1>0, <1>1
  <2>2. \A a \in authorities : proofs'[a.proof] \in Proof /\ Spent(proofs'[a.proof])
    BY <1>0, <1>2
  <2>. QED  BY <1>0, <1>3, <2>1, <2>2
<1>4. CASE \E w \in Workers : PurgeCompany(w)
  BY <1>3, <1>4 DEF PurgeCompany
<1>5. ASSUME NEW w \in Workers, Enroll(w)
      PROVE  /\ accounts' \subseteq Accounts /\ authorities' \subseteq Authority
             /\ \A a \in authorities' : setups'[a.company] # None
             /\ \A a \in authorities' : proofs'[a.proof] \in Proof /\ Spent(proofs'[a.proof])
             /\ \A a, b \in authorities' : a.proof = b.proof => a = b
  <2>. DEFINE x == calls[w]
              new == [account |-> x.account, role |-> x.role, company |-> x.company, proof |-> x.proof]
  <2>1. x # Idle /\ x.op \in {"account", "link"}
    BY <1>5, ActsAt
  <2>2. /\ x.company \in Companies /\ setups[x.company] # None /\ x \in Call
        /\ HasArguments(x) /\ RowsAreThere(x)
    BY <2>1, Refers DEF OfCompany
  <2>3. x.account \in Accounts /\ x.proof \in Proofs /\ x.role \in Roles /\ proofs[x.proof] \in Proof
    BY <2>1, <2>2 DEF HasArguments, RowsAreThere, Call
  <2>4. CASE accounts' = accounts /\ authorities' = authorities
    BY <1>3, <2>4
  <2>5. CASE /\ Unspent(x.proof) /\ accounts' = accounts \cup {x.account}
             /\ authorities' = authorities \cup {new}
             /\ proofs' = [proofs EXCEPT ![x.proof].status = "consumed"]
    <3>1. new \in Authority /\ new.company = x.company /\ new.proof = x.proof
      BY <2>2, <2>3 DEF Authority
    <3>2. Spent(proofs'[x.proof]) /\ proofs'[x.proof] \in Proof
      <4>1. proofs'[x.proof] = [proofs[x.proof] EXCEPT !.status = "consumed"]
        BY <2>3, <2>5 DEF OwnershipTypeOK
      <4>2. proofs'[x.proof].status = "consumed"
        BY <2>3, <4>1 DEF Proof
      <4>. QED  BY <1>2, <2>3, <4>2 DEF Spent
    <3>3. \A a \in authorities : a.proof # x.proof
      BY <1>0, <2>5 DEF Spent, Unspent
    <3>4. \A a \in authorities : setups'[a.company] # None
      BY <1>0, <1>1
    <3>5. \A a \in authorities : proofs'[a.proof] \in Proof /\ Spent(proofs'[a.proof])
      BY <1>0, <1>2
    <3>6. setups'[new.company] # None
      BY <1>1, <2>2, <3>1
    <3>. HIDE DEF new
    <3>7. accounts' \subseteq Accounts /\ authorities' \subseteq Authority
      BY <1>0, <2>3, <2>5, <3>1
    <3>8. /\ \A a \in authorities' : setups'[a.company] # None
          /\ \A a \in authorities' : proofs'[a.proof] \in Proof /\ Spent(proofs'[a.proof])
      BY <2>5, <3>1, <3>2, <3>4, <3>5, <3>6
    <3>9. \A a, b \in authorities' : a.proof = b.proof => a = b
      BY <1>0, <2>5, <3>1, <3>3
    <3>. QED  BY <3>7, <3>8, <3>9
  <2>. QED  BY <1>5, <2>4, <2>5 DEF Enroll, people
<1>6. (accounts' = accounts /\ authorities' = authorities) \/ \E w \in Workers : Enroll(w) \/ PurgeCompany(w)
  BY AloneWrites, WorkerWrites DEF OwnershipNext
<1>. QED  BY <1>3, <1>4, <1>5, <1>6


----------------------------------------------------------------------------
(* Sessions                                                                *)

\* Sessions that go on from those there are.
GoOn(ss) ==
    /\ ss \in Seq(Session) /\ Len(ss) <= lane.sessions /\ Len(sessions) <= Len(ss)
    /\ DOMAIN ss = 1..Len(ss)
    /\ \A s \in DOMAIN ss : ss[s].from < s /\ ss[s].root <= s
    /\ \A s \in DOMAIN ss : ss[s].from # 0 => ss[ss[s].from].revoked
    /\ \A s, t \in DOMAIN ss :
          s # t /\ ss[s].from # 0 /\ ss[s].from = ss[t].from => "select" \in {ss[s].by, ss[t].by}

\* A function on the numbers to n is a sequence of n.
LEMMA IsSequence ==
    ASSUME NEW S, NEW n \in Nat, NEW f \in [1..n -> S]
    PROVE  f \in Seq(S) /\ Len(f) = n /\ DOMAIN f = 1..n
<1>1. f \in Seq(S)
  BY SeqDef
<1>2. Len(f) \in Nat /\ 1..Len(f) = 1..n
  BY <1>1, LenProperties
<1>. QED  BY <1>1, <1>2

\* What a session looks back on is not changed by a step that leaves its rows in place.
LEMMA InPlace ==
    ASSUME OwnershipInv, NEW ss \in [DOMAIN sessions -> Session],
           \A s \in DOMAIN sessions : /\ ss[s].from = sessions[s].from /\ ss[s].root = sessions[s].root
                                      /\ ss[s].by = sessions[s].by
                                      /\ sessions[s].revoked => ss[s].revoked
    PROVE  GoOn(ss)
<1>. USE DEF OwnershipInv
<1>1. /\ Len(sessions) \in Nat /\ DOMAIN sessions = 1..Len(sessions) /\ Len(sessions) <= lane.sessions
      /\ \A s \in DOMAIN sessions : sessions[s].from \in Nat /\ sessions[s].from < s /\ sessions[s].root <= s
  BY SessionsAre
<1>2. ss \in Seq(Session) /\ Len(ss) = Len(sessions) /\ DOMAIN ss = DOMAIN sessions
  BY <1>1, IsSequence
<1>3. \A s \in DOMAIN ss : ss[s].from < s /\ ss[s].root <= s
  BY <1>1, <1>2
<1>4. \A s \in DOMAIN ss : ss[s].from # 0 => ss[ss[s].from].revoked
  <2>1. \A s \in DOMAIN sessions : sessions[s].from # 0 => sessions[s].from \in DOMAIN sessions
    BY <1>1
  <2>2. \A s \in DOMAIN sessions : sessions[s].from # 0 => sessions[sessions[s].from].revoked
    BY DEF SuccessorsFollow
  <2>. QED  BY <1>2, <2>1, <2>2
<1>5. \A s, t \in DOMAIN ss :
         s # t /\ ss[s].from # 0 /\ ss[s].from = ss[t].from => "select" \in {ss[s].by, ss[t].by}
  BY <1>2 DEF SuccessorsFollow, RotationsAreExclusive
<1>6. DOMAIN ss = 1..Len(ss) /\ Len(ss) <= lane.sessions /\ Len(sessions) <= Len(ss)
  BY <1>1, <1>2
<1>. HIDE DEF OwnershipInv
<1>. QED  BY <1>2, <1>3, <1>4, <1>5, <1>6 DEF GoOn

\* A change of one row of them.
LEMMA OneInPlace ==
    ASSUME OwnershipInv, NEW s \in DOMAIN sessions, NEW row \in Session,
           row.from = sessions[s].from, row.root = sessions[s].root, row.by = sessions[s].by,
           sessions[s].revoked => row.revoked
    PROVE  GoOn([sessions EXCEPT ![s] = row])
<1>. DEFINE ss == [sessions EXCEPT ![s] = row]
<1>1. sessions \in [DOMAIN sessions -> Session]
  <2>1. sessions \in Seq(Session)
    BY DEF OwnershipInv, OwnershipTypeOK
  <2>. QED  BY <2>1, LenProperties
<1>2. ss \in [DOMAIN sessions -> Session]
  BY <1>1
<1>3. \A t \in DOMAIN sessions : ss[t] = IF t = s THEN row ELSE sessions[t]
  BY <1>1
<1>. HIDE DEF ss
<1>4. GoOn(ss)
  BY <1>2, <1>3, InPlace
<1>. QED  BY <1>4 DEF ss

\* A new session at the end of those that go on.
LEMMA OneMore ==
    ASSUME OwnershipInv, NEW ss, GoOn(ss), Len(ss) = Len(sessions), Len(sessions) < lane.sessions,
           NEW row \in Session, row.from \in {0} \cup DOMAIN ss, row.root <= Len(ss) + 1,
           row.from # 0 => ss[row.from].revoked,
           row.from # 0 /\ row.by # "select" => \A t \in DOMAIN ss : ss[t].from # row.from
    PROVE  GoOn(Append(ss, row))
<1>. DEFINE tt == Append(ss, row)
            n == Len(ss)
<1>1. /\ Len(sessions) \in Nat /\ lane.sessions \in Nat
      /\ ss \in Seq(Session) /\ n \in Nat /\ DOMAIN ss = 1..n
      /\ \A s \in DOMAIN ss : ss[s] \in Session /\ ss[s].from \in Nat
  <2>1. Len(sessions) \in Nat /\ lane.sessions \in Nat /\ Numbers = 0..lane.sessions
    BY SessionsAre DEF OwnershipInv
  <2>2. ss \in Seq(Session) /\ DOMAIN ss = 1..n /\ n \in Nat
    BY LenProperties DEF GoOn
  <2>3. \A s \in DOMAIN ss : ss[s] \in Session
    BY <2>2, ElementOfSeq
  <2>. QED  BY <2>1, <2>2, <2>3 DEF Session
<1>2. /\ tt \in Seq(Session) /\ Len(tt) = n + 1 /\ DOMAIN tt = 1..(n + 1)
      /\ \A s \in 1..(n + 1) : tt[s] = IF s <= n THEN ss[s] ELSE row
  <2>1. tt \in Seq(Session) /\ Len(tt) = n + 1
    BY <1>1, AppendProperties
  <2>2. DOMAIN tt = 1..(n + 1)
    BY <2>1, LenProperties
  <2>3. \A s \in 1..n : tt[s] = ss[s]
    BY <1>1, AppendProperties
  <2>4. tt[n + 1] = row
    BY <1>1, AppendProperties
  <2>. QED  BY <1>1, <2>1, <2>2, <2>3, <2>4
<1>. HIDE DEF tt
<1>3. /\ \A s \in 1..n : ss[s].from < s /\ ss[s].root <= s
      /\ \A s \in 1..n : ss[s].from # 0 => ss[ss[s].from].revoked
      /\ \A s, t \in 1..n :
            s # t /\ ss[s].from # 0 /\ ss[s].from = ss[t].from => "select" \in {ss[s].by, ss[t].by}
  BY <1>1 DEF GoOn
<1>4. row.from \in Nat /\ row.from <= n
  BY <1>1
<1>5. \A s \in DOMAIN tt : tt[s].from < s /\ tt[s].root <= s
  <2>1. \A s \in 1..(n + 1) : s \in 1..n \/ s = n + 1
    BY <1>1
  <2>2. tt[n + 1] = row /\ \A s \in 1..n : tt[s] = ss[s]
    BY <1>1, <1>2
  <2>3. row.from < n + 1 /\ row.root <= n + 1
    BY <1>1, <1>4
  <2>. QED  BY <1>2, <1>3, <2>1, <2>2, <2>3
<1>6. \A s \in DOMAIN tt : tt[s].from # 0 => tt[tt[s].from].revoked
  <2>1. \A s \in 1..n : ss[s].from # 0 => ss[s].from \in 1..n
    BY <1>1, <1>3
  <2>2. row.from # 0 => row.from \in 1..n
    BY <1>1
  <2>3. \A s \in 1..(n + 1) : s \in 1..n \/ s = n + 1
    BY <1>1
  <2>4. tt[n + 1] = row /\ \A s \in 1..n : tt[s] = ss[s]
    BY <1>1, <1>2
  <2>. QED  BY <1>2, <1>3, <2>1, <2>2, <2>3, <2>4
<1>7. ASSUME NEW s \in DOMAIN tt, NEW t \in DOMAIN tt, s # t, tt[s].from # 0, tt[s].from = tt[t].from
      PROVE  "select" \in {tt[s].by, tt[t].by}
  <2>1. tt[n + 1] = row /\ \A u \in 1..n : tt[u] = ss[u]
    BY <1>1, <1>2
  <2>2. CASE s \in 1..n /\ t \in 1..n
    BY <1>3, <1>7, <2>1, <2>2
  <2>3. CASE s = n + 1 /\ t \in 1..n
    BY <1>1, <1>7, <2>1, <2>3
  <2>4. CASE s \in 1..n /\ t = n + 1
    BY <1>1, <1>7, <2>1, <2>4
  <2>. QED  BY <1>1, <1>2, <1>7, <2>2, <2>3, <2>4
<1>8. Len(tt) <= lane.sessions /\ Len(sessions) <= Len(tt) /\ DOMAIN tt = 1..Len(tt)
  BY <1>1, <1>2
<1>9. GoOn(tt)
  BY <1>2, <1>5, <1>6, <1>7, <1>8 DEF GoOn
<1>. QED  BY <1>9 DEF tt

\* A rotation of a session that was open, or to a company that was selected.
LEMMA Rotates ==
    ASSUME OwnershipInv, NEW s \in DOMAIN sessions, NEW row \in Session, Len(sessions) < lane.sessions,
           row.from = s, row.root = sessions[s].root,
           row.by # "select" => ~sessions[s].revoked
    PROVE  GoOn(Rotated(s, row))
<1>. USE DEF OwnershipInv
<1>. DEFINE old == [sessions[s] EXCEPT !.revoked = TRUE]
            ss == [sessions EXCEPT ![s] = old]
<1>1. /\ Len(sessions) \in Nat /\ DOMAIN sessions = 1..Len(sessions)
      /\ sessions[s] \in Session /\ sessions[s].root <= s
  BY SessionsAre
<1>2. sessions \in [DOMAIN sessions -> Session] /\ sessions \in Seq(Session)
  BY LenProperties DEF OwnershipTypeOK
<1>3. /\ old \in Session /\ old.from = sessions[s].from /\ old.root = sessions[s].root
      /\ old.by = sessions[s].by /\ old.revoked
  BY <1>1 DEF Session
<1>4. Rotated(s, row) = Append(ss, row)
  BY DEF Rotated
<1>. HIDE DEF old
<1>5. GoOn(ss)
  BY <1>3, OneInPlace
<1>6. /\ DOMAIN ss = DOMAIN sessions /\ ss \in [1..Len(sessions) -> Session]
      /\ \A t \in DOMAIN sessions : ss[t] = IF t = s THEN old ELSE sessions[t]
  BY <1>1, <1>2, <1>3
<1>7. Len(ss) = Len(sessions)
  BY <1>1, <1>6, IsSequence
<1>8. ASSUME row.by # "select", NEW t \in DOMAIN ss
      PROVE  ss[t].from # s
  <2>1. \A u \in DOMAIN sessions : sessions[u].from # s
    BY <1>8 DEF SuccessorsFollow
  <2>. QED  BY <1>3, <1>6, <2>1
<1>9. row.root <= Len(ss) + 1
  <2>1. sessions[s].root \in Nat /\ s \in Nat /\ s <= Len(sessions)
    BY <1>1, SessionsAre DEF Session
  <2>. QED  BY <1>1, <1>7, <2>1
<1>10. ss[s].revoked
  BY <1>3, <1>6
<1>. HIDE DEF ss, OwnershipInv
<1>11. GoOn(Append(ss, row))
  BY <1>5, <1>6, <1>7, <1>8, <1>9, <1>10, OneMore
<1>. QED  BY <1>4, <1>11


\* A context that is viewed has a version; nothing else of the sessions changes.
LEMMA Views ==
    ASSUME OwnershipInv, NEW s \in DOMAIN sessions
    PROVE  GoOn(Viewed(s))
<1>. DEFINE row == [sessions[s] EXCEPT !.context = IF @ = "none" THEN "unplaced" ELSE @]
<1>1. sessions[s] \in Session
  BY SessionsAre DEF OwnershipInv
<1>2. /\ row \in Session /\ row.from = sessions[s].from /\ row.root = sessions[s].root
      /\ row.by = sessions[s].by /\ row.revoked = sessions[s].revoked
  BY <1>1 DEF Session
<1>3. Viewed(s) = [sessions EXCEPT ![s] = row]
  BY DEF Viewed
<1>. HIDE DEF row
<1>. QED  BY <1>2, <1>3, OneInPlace

\* The successor of a session has its account and its end.
LEMMA Succeeds ==
    ASSUME OwnershipInv, NEW s \in DOMAIN sessions, NEW by \in {"reauth", "select", "transition"}
    PROVE  /\ Successor(s, by) \in Session
           /\ Successor(s, by).from = s /\ Successor(s, by).root = sessions[s].root
           /\ Successor(s, by).by = by
<1>1. sessions[s] \in Session /\ s \in Numbers
  BY SessionsAre DEF OwnershipInv
<1>. QED  BY <1>1 DEF Successor, Session

\* Sessions go on: none is forgotten, and rotations are exclusive.
LEMMA SessionsStep ==
    ASSUME OwnershipInv, OwnershipNext
    PROVE  GoOn(sessions')
<1>. USE DEF OwnershipInv
<1>0. /\ Len(sessions) \in Nat /\ DOMAIN sessions = 1..Len(sessions) /\ lane.sessions \in Nat
      /\ Numbers = 0..lane.sessions /\ \A s \in DOMAIN sessions : sessions[s] \in Session /\ s \in Numbers
      /\ sessions \in [DOMAIN sessions -> Session] /\ sessions \in Seq(Session)
  <2>1. sessions \in Seq(Session)
    BY DEF OwnershipTypeOK
  <2>2. sessions \in [DOMAIN sessions -> Session]
    BY <2>1, LenProperties
  <2>. QED  BY <2>1, <2>2, SessionsAre
<1>1. GoOn(sessions)
  BY <1>0, InPlace
<1>2. ASSUME NEW s \in DOMAIN sessions, NEW row \in Session, Len(sessions) < lane.sessions,
             row.from = s, row.root = sessions[s].root, row.by # "select" => ~sessions[s].revoked,
             sessions' = Rotated(s, row)
      PROVE  GoOn(sessions')
  BY <1>2, Rotates
<1>3. ASSUME NEW account \in Accounts, Len(sessions) < lane.sessions,
             sessions' = Append(sessions,
               [account |-> account, company |-> None, reauth |-> FALSE, revoked |-> FALSE,
                root |-> Len(sessions) + 1, from |-> 0, by |-> "login", context |-> "none"])
      PROVE  GoOn(sessions')
  <2>. DEFINE row == [account |-> account, company |-> None, reauth |-> FALSE, revoked |-> FALSE,
                      root |-> Len(sessions) + 1, from |-> 0, by |-> "login", context |-> "none"]
  <2>1. Len(sessions) + 1 \in Numbers \ {0} /\ 0 \in Numbers
    BY <1>0, <1>3
  <2>2. row \in Session /\ row.from = 0 /\ row.root = Len(sessions) + 1
    BY <2>1 DEF Session, Maybe
  <2>. HIDE DEF row
  <2>3. sessions' = Append(sessions, row)
    BY <1>3 DEF row
  <2>4. row.root <= Len(sessions) + 1
    BY <1>0, <2>2
  <2>. HIDE DEF OwnershipInv
  <2>. QED  BY <1>1, <1>3, <2>2, <2>3, <2>4, OneMore DEF OwnershipInv
<1>4. ASSUME NEW a \in Accounts, OpenSession(a)
      PROVE  GoOn(sessions')
  BY <1>3, <1>4 DEF OpenSession
<1>5. ASSUME NEW s \in DOMAIN sessions, ViewContext(s)
      PROVE  GoOn(sessions')
  BY <1>5, Views DEF ViewContext
<1>6. ASSUME Lapse
      PROVE  GoOn(sessions')
  <2>1. ASSUME NEW s \in DOMAIN sessions, sessions' = [sessions EXCEPT ![s].reauth = FALSE]
        PROVE  GoOn(sessions')
    <3>. DEFINE row == [sessions[s] EXCEPT !.reauth = FALSE]
    <3>1. /\ row \in Session /\ row.from = sessions[s].from /\ row.root = sessions[s].root
          /\ row.by = sessions[s].by /\ row.revoked = sessions[s].revoked
      <4>1. sessions[s] \in Session
        BY <1>0
      <4>. QED  BY <4>1 DEF Session
    <3>2. sessions' = [sessions EXCEPT ![s] = row]
      BY <2>1
    <3>. HIDE DEF row
    <3>. QED  BY <3>1, <3>2, OneInPlace
  <2>. QED  BY <1>1, <1>6, <2>1 DEF Lapse
<1>7. ASSUME NEW w \in Workers, Enroll(w)
      PROVE  GoOn(sessions')
  <2>1. calls[w] # Idle /\ calls[w].op \in {"account", "link"}
    BY <1>7, ActsAt
  <2>2. calls[w].account \in Accounts
    BY <2>1, Refers DEF HasArguments
  <2>3. CASE sessions' = sessions
    BY <1>1, <2>3
  <2>. QED  BY <1>3, <1>7, <2>2, <2>3 DEF Enroll
<1>8. ASSUME NEW w \in Workers, Reauthenticate(w)
      PROVE  GoOn(sessions')
  <2>. DEFINE s == calls[w].who
              row == [Successor(s, "reauth") EXCEPT !.reauth = TRUE]
  <2>1. s \in DOMAIN sessions
    BY <1>8, ActsAt, Refers DEF OfSession
  <2>2. row \in Session /\ row.from = s /\ row.root = sessions[s].root
    <3>. DEFINE next == Successor(s, "reauth")
    <3>1. next \in Session /\ next.from = s /\ next.root = sessions[s].root
      BY <2>1, Succeeds
    <3>. HIDE DEF next
    <3>2. [next EXCEPT !.reauth = TRUE] \in Session /\ [next EXCEPT !.reauth = TRUE].from = next.from
          /\ [next EXCEPT !.reauth = TRUE].root = next.root
      BY <3>1 DEF Session
    <3>. QED  BY <3>1, <3>2 DEF next
  <2>3. sessions' = sessions \/ (~sessions[s].revoked /\ sessions' = Rotated(s, row))
    BY <1>8 DEF Reauthenticate
  <2>4. Len(sessions) < lane.sessions
    BY <1>8 DEF Reauthenticate
  <2>5. CASE sessions' = sessions
    BY <1>1, <2>5
  <2>. HIDE DEF row, s
  <2>. QED  BY <1>2, <2>1, <2>2, <2>3, <2>4, <2>5
<1>9. ASSUME NEW w \in Workers, SelectMembership(w)
      PROVE  GoOn(sessions')
  <2>. DEFINE s == calls[w].who
              c == calls[w].company
              row == [Successor(s, "select") EXCEPT !.company = c]
  <2>1. s \in DOMAIN sessions /\ c \in Companies
    <3>1. calls[w] # Idle /\ calls[w].op = "select"
      BY <1>9, ActsAt
    <3>. QED  BY <3>1, Refers DEF OfSession, HasArguments
  <2>2. row \in Session /\ row.from = s /\ row.root = sessions[s].root /\ row.by = "select"
    <3>. DEFINE next == Successor(s, "select")
    <3>1. next \in Session /\ next.from = s /\ next.root = sessions[s].root /\ next.by = "select"
      BY <2>1, Succeeds
    <3>. HIDE DEF next
    <3>2. [next EXCEPT !.company = c] \in Session /\ [next EXCEPT !.company = c].from = next.from
          /\ [next EXCEPT !.company = c].root = next.root /\ [next EXCEPT !.company = c].by = next.by
      BY <2>1, <3>1 DEF Session, Maybe
    <3>. QED  BY <3>1, <3>2 DEF next
  <2>3. sessions' = sessions \/ sessions' = Rotated(s, row)
    BY <1>9 DEF SelectMembership
  <2>4. Len(sessions) < lane.sessions
    BY <1>9 DEF SelectMembership
  <2>5. CASE sessions' = sessions
    BY <1>1, <2>5
  <2>. HIDE DEF row, s
  <2>. QED  BY <1>2, <2>1, <2>2, <2>3, <2>4, <2>5
<1>10. ASSUME NEW w \in Workers, Logout(w)
       PROVE  GoOn(sessions')
  <2>. DEFINE s == calls[w].who
              row == [sessions[s] EXCEPT !.revoked = TRUE]
  <2>1. s \in DOMAIN sessions
    BY <1>10, ActsAt, Refers DEF OfSession
  <2>2. /\ row \in Session /\ row.from = sessions[s].from /\ row.root = sessions[s].root
        /\ row.by = sessions[s].by /\ row.revoked
    <3>1. sessions[s] \in Session
      BY <1>0, <2>1
    <3>. HIDE DEF s
    <3>. QED  BY <3>1 DEF Session
  <2>3. sessions' = [sessions EXCEPT ![s] = row]
    BY <1>10 DEF Logout
  <2>. HIDE DEF row, s
  <2>. QED  BY <2>1, <2>2, <2>3, OneInPlace
<1>11. ASSUME NEW w \in Workers, TransitionContext(w)
       PROVE  GoOn(sessions')
  <2>. DEFINE s == calls[w].who
              row == [Successor(s, "transition") EXCEPT !.context = "placed"]
  <2>1. s \in DOMAIN sessions
    BY <1>11, ActsAt, Refers DEF OfSession
  <2>2. row \in Session /\ row.from = s /\ row.root = sessions[s].root
    <3>. DEFINE next == Successor(s, "transition")
    <3>1. next \in Session /\ next.from = s /\ next.root = sessions[s].root
      BY <2>1, Succeeds
    <3>. HIDE DEF next
    <3>2. [next EXCEPT !.context = "placed"] \in Session /\ [next EXCEPT !.context = "placed"].from = next.from
          /\ [next EXCEPT !.context = "placed"].root = next.root
      BY <3>1 DEF Session
    <3>. QED  BY <3>1, <3>2 DEF next
  <2>3. sessions' = sessions \/ sessions' = Viewed(s) \/ (Operational(s) /\ sessions' = Rotated(s, row))
    BY <1>11 DEF TransitionContext
  <2>4. Len(sessions) < lane.sessions
    BY <1>11 DEF TransitionContext
  <2>5. Operational(s) => ~sessions[s].revoked
    BY DEF Operational, CredentialAdmin, Live
  <2>6. CASE sessions' = sessions
    BY <1>1, <2>6
  <2>7. CASE sessions' = Viewed(s)
    BY <2>1, <2>7, Views
  <2>. HIDE DEF row, s
  <2>. QED  BY <1>2, <2>1, <2>2, <2>3, <2>4, <2>5, <2>6, <2>7
<1>12. ASSUME NEW w \in Workers, SubmitMemory(w)
       PROVE  GoOn(sessions')
  <2>. DEFINE s == calls[w].who
  <2>1. s \in DOMAIN sessions
    BY <1>12, ActsAt, Refers DEF OfSession
  <2>2. sessions' = sessions \/ sessions' = Viewed(s)
    BY <1>12 DEF SubmitMemory
  <2>3. CASE sessions' = sessions
    BY <1>1, <2>3
  <2>4. CASE sessions' = Viewed(s)
    BY <2>1, <2>4, Views
  <2>. QED  BY <2>2, <2>3, <2>4
<1>13. ASSUME NEW w \in Workers, PurgeCompany(w)
       PROVE  GoOn(sessions')
  <2>. DEFINE c == calls[w].company
  <2>1. sessions' = [s \in DOMAIN sessions |->
                      IF sessions[s].company = c
                      THEN [sessions[s] EXCEPT !.company = None, !.context = "none"]
                      ELSE sessions[s]]
    BY <1>13 DEF PurgeCompany
  <2>2. \A s \in DOMAIN sessions :
           /\ sessions'[s] \in Session
           /\ sessions'[s].from = sessions[s].from /\ sessions'[s].root = sessions[s].root
           /\ sessions'[s].by = sessions[s].by /\ sessions'[s].revoked = sessions[s].revoked
    BY <1>0, <2>1 DEF Session, Maybe
  <2>3. sessions' \in [DOMAIN sessions -> Session]
    BY <2>1, <2>2
  <2>. QED  BY <2>2, <2>3, InPlace
<1>14. CASE sessions' = sessions
  BY <1>1, <1>14
<1>15. CASE Alone
  BY <1>4, <1>5, <1>6, <1>14, <1>15, AloneWrites
<1>16. CASE \E w \in Workers : Arrive(w) \/ Server(w)
  BY <1>7, <1>8, <1>9, <1>10, <1>11, <1>12, <1>13, <1>14, <1>16, WorkerWrites
<1>. QED  BY <1>15, <1>16 DEF OwnershipNext


----------------------------------------------------------------------------
(* The other tables, and the calls                                         *)

\* Recovery sessions, intents, exports and memories keep their types.
LEMMA ClosureStep ==
    ASSUME OwnershipInv, OwnershipNext
    PROVE  /\ expired' \subseteq DOMAIN sessions'
           /\ recovery' \in [Companies -> {"none", "open", "ended"}]
           /\ \A c \in Companies : recovery'[c] = "open" => setups'[c] # None
           /\ intents' \in [Intents -> Maybe(Intent)]
           /\ \A i \in Intents : intents[i] \in Intent =>
                 \/ intents'[i] \in Intent /\ intents'[i].company = intents[i].company
                 \/ companies'[intents[i].company].status = "purged"
           /\ exports' \subseteq Companies
           /\ begun' \in 0..lane.calls
<1>. USE DEF OwnershipInv
<1>0. /\ expired \subseteq DOMAIN sessions /\ recovery \in [Companies -> {"none", "open", "ended"}]
      /\ intents \in [Intents -> Maybe(Intent)] /\ exports \subseteq Companies /\ begun \in 0..lane.calls
      /\ lane.calls \in Nat /\ companies \in [Companies -> Company]
      /\ \A c \in Companies : recovery[c] = "open" => setups[c] # None
      /\ \A i \in Intents : intents[i] # None => intents[i] \in Intent
      /\ \A c \in Companies : setups[c] = None <=> companies[c].status = "none"
      /\ None \notin Intent
  BY OwnershipAssumption, RowsAre DEF OwnershipTypeOK, RowsAreOfFounded
<1>1. \A c \in Companies : setups[c] # None => setups'[c] # None
  BY CompaniesStep
<1>2. DOMAIN sessions \subseteq DOMAIN sessions'
  <2>1. /\ Len(sessions) <= Len(sessions') /\ sessions' \in Seq(Session)
        /\ DOMAIN sessions' = 1..Len(sessions')
    BY SessionsStep DEF GoOn
  <2>2. Len(sessions') \in Nat
    BY <2>1, LenProperties
  <2>3. DOMAIN sessions = 1..Len(sessions) /\ Len(sessions) \in Nat
    BY SessionsAre
  <2>. HIDE DEF OwnershipInv
  <2>. QED  BY <2>1, <2>2, <2>3
<1>3. \/ Alone
      \/ \E w \in Workers : Arrive(w) \/ Server(w)
  BY DEF OwnershipNext
<1>4. expired' \subseteq DOMAIN sessions'
  <2>1. expired' = expired \/ \E s \in DOMAIN sessions : Expire(s)
    BY <1>3, AloneWrites, WorkerWrites
  <2>. QED  BY <1>0, <1>2, <2>1 DEF Expire
<1>5. recovery' = recovery \/ Lapse \/ (\E c \in Companies : OpenRecovery(c)) \/ \E w \in Workers : PurgeCompany(w)
  BY <1>3, AloneWrites, WorkerWrites
<1>6. /\ recovery' \in [Companies -> {"none", "open", "ended"}]
      /\ \A c \in Companies : recovery'[c] = "open" => setups'[c] # None
  <2>1. CASE recovery' = recovery
    BY <1>0, <1>1, <2>1
  <2>2. CASE Lapse
    BY <1>0, <1>1, <2>2 DEF Lapse
  <2>3. ASSUME NEW c \in Companies, OpenRecovery(c)
        PROVE  /\ recovery' \in [Companies -> {"none", "open", "ended"}]
               /\ \A d \in Companies : recovery'[d] = "open" => setups'[d] # None
    BY <1>0, <1>1, <2>3 DEF OpenRecovery
  <2>4. ASSUME NEW w \in Workers, PurgeCompany(w)
        PROVE  /\ recovery' \in [Companies -> {"none", "open", "ended"}]
               /\ \A d \in Companies : recovery'[d] = "open" => setups'[d] # None
    BY <1>0, <1>1, <2>4 DEF PurgeCompany
  <2>. QED  BY <1>5, <2>1, <2>2, <2>3, <2>4
<1>7. exports' \subseteq Companies
  <2>1. exports' = exports \/ \E w \in Workers : RecordExport(w) \/ PurgeCompany(w)
    BY <1>3, AloneWrites, WorkerWrites
  <2>2. ASSUME NEW w \in Workers, RecordExport(w)
        PROVE  exports' \subseteq Companies
    <3>1. calls[w].company \in Companies
      BY <2>2, ActsAt, Refers DEF OfCompany
    <3>. QED  BY <1>0, <2>2, <3>1 DEF RecordExport
  <2>3. ASSUME NEW w \in Workers, PurgeCompany(w)
        PROVE  exports' \subseteq Companies
    BY <1>0, <2>3 DEF PurgeCompany
  <2>. QED  BY <1>0, <2>1, <2>2, <2>3
<1>8. begun' \in 0..lane.calls
  <2>1. begun' = begun \/ (begun < lane.calls /\ begun' = begun + 1)
    BY <1>3, AloneWrites, WorkerWrites
  <2>. HIDE DEF OwnershipInv
  <2>. QED  BY <1>0, <2>1
<1>. DEFINE Kept == \A i \in Intents : intents[i] \in Intent =>
                 \/ intents'[i] \in Intent /\ intents'[i].company = intents[i].company
                 \/ companies'[intents[i].company].status = "purged"
<1>9. ASSUME NEW i \in Intents, intents[i] \in Intent, NEW status \in {"lapsed", "consumed"},
             intents' = [intents EXCEPT ![i].status = status]
      PROVE  intents' \in [Intents -> Maybe(Intent)] /\ Kept
  <2>. DEFINE row == [intents[i] EXCEPT !.status = status]
  <2>1. row \in Intent /\ row.company = intents[i].company
    BY <1>9 DEF Intent
  <2>2. intents' = [intents EXCEPT ![i] = row]
    BY <1>0, <1>9
  <2>. HIDE DEF row
  <2>. QED  BY <1>0, <2>1, <2>2 DEF Maybe
<1>10. ASSUME intents' = intents
       PROVE  intents' \in [Intents -> Maybe(Intent)] /\ Kept
  BY <1>0, <1>10
<1>11. ASSUME Lapse
       PROVE  intents' \in [Intents -> Maybe(Intent)] /\ Kept
  <2>1. \/ intents' = intents
        \/ \E i \in Intents : intents[i] # None /\ intents' = [intents EXCEPT ![i].status = "lapsed"]
    BY <1>11 DEF Lapse
  <2>. HIDE DEF Kept
  <2>. QED  BY <1>0, <1>9, <1>10, <2>1
<1>12. ASSUME NEW w \in Workers, CreateIntent(w)
       PROVE  intents' \in [Intents -> Maybe(Intent)] /\ Kept
  <2>. DEFINE x == calls[w]
              i == x.intent
              row == [company |-> x.company, who |-> x.who, purpose |-> x.purpose, status |-> "pending"]
  <2>1. x # Idle /\ x.op = "intent"
    BY <1>12, ActsAt
  <2>2. x \in Call /\ HasArguments(x) /\ x.company \in Companies
    BY <2>1, Refers DEF OfCompany
  <2>3. i \in Intents /\ row \in Intent
    BY <2>1, <2>2 DEF HasArguments, Call, Intent
  <2>4. intents[i] = None /\ (intents' = intents \/ intents' = [intents EXCEPT ![i] = row])
    BY <1>12 DEF CreateIntent
  <2>. HIDE DEF row, i
  <2>5. CASE intents' = [intents EXCEPT ![i] = row]
    BY <1>0, <2>3, <2>4, <2>5 DEF Maybe
  <2>. HIDE DEF Kept
  <2>. QED  BY <1>10, <2>4, <2>5
<1>13. ASSUME NEW w \in Workers, CloseCompany(w) \/ SoftDeleteCompany(w)
       PROVE  intents' \in [Intents -> Maybe(Intent)] /\ Kept
  <2>. DEFINE x == calls[w]
              i == x.intent
  <2>1. x # Idle /\ x.op \in {"close", "soft_delete"} /\ x.step = "write"
    BY <1>13, ActsAt
  <2>2. HasArguments(x) /\ RowsAreThere(x)
    BY <2>1, Refers
  <2>3. i \in Intents /\ (intents[i] \in Intent \/ Purged(x.company))
    BY <2>1, <2>2 DEF HasArguments, RowsAreThere, Purposes
  <2>4. intents' = intents \/ (~Purged(x.company) /\ intents' = [intents EXCEPT ![i].status = "consumed"])
    BY <1>13 DEF CloseCompany, SoftDeleteCompany, Purged, Consumed
  <2>. HIDE DEF Kept, i
  <2>. QED  BY <1>9, <1>10, <2>3, <2>4
<1>14. ASSUME NEW w \in Workers, PurgeCompany(w)
       PROVE  intents' \in [Intents -> Maybe(Intent)] /\ Kept
  <2>. DEFINE c == calls[w].company
  <2>1. intents' = [i \in Intents |-> IF intents[i] # None /\ intents[i].company = c THEN None ELSE intents[i]]
    BY <1>14 DEF PurgeCompany
  <2>2. companies'[c].status = "purged"
    <3>1. c \in Companies
      BY <1>14, ActsAt, Refers DEF OfCompany, Purposes
    <3>. QED  BY <1>0, <1>14, <3>1 DEF PurgeCompany
  <2>. HIDE DEF c
  <2>. QED  BY <1>0, <2>1, <2>2 DEF Maybe
<1>15. \/ intents' = intents \/ Lapse
       \/ \E w \in Workers : CreateIntent(w) \/ CloseCompany(w) \/ SoftDeleteCompany(w) \/ PurgeCompany(w)
  BY <1>3, AloneWrites, WorkerWrites
<1>16. intents' \in [Intents -> Maybe(Intent)] /\ Kept
  <2>. HIDE DEF Kept
  <2>. QED  BY <1>10, <1>11, <1>12, <1>13, <1>14, <1>15
<1>. QED  BY <1>4, <1>6, <1>7, <1>8, <1>16

\* A memory is written for an owner of an active company, once for a key.
LEMMA MemoriesStep ==
    ASSUME OwnershipInv, OwnershipNext
    PROVE  /\ memories' \in SUBSET Memory
           /\ \A m \in memories' \ memories :
                /\ Owner(m.session) /\ companies[m.company].status = "active"
                /\ ~Answered(m.key, m.company)
<1>. USE DEF OwnershipInv
<1>0. memories \subseteq Memory
  BY DEF OwnershipTypeOK
<1>1. memories' = memories \/ \E w \in Workers : SubmitMemory(w) \/ PurgeCompany(w)
  BY AloneWrites, WorkerWrites DEF OwnershipNext
<1>2. ASSUME NEW w \in Workers, SubmitMemory(w)
      PROVE  /\ memories' \in SUBSET Memory
             /\ \A m \in memories' \ memories :
                  /\ Owner(m.session) /\ companies[m.company].status = "active"
                  /\ ~Answered(m.key, m.company)
  <2>. DEFINE s == calls[w].who
              c == sessions[s].company
              k == calls[w].submit
              new == [key |-> k, company |-> c, session |-> s]
  <2>1. calls[w] # Idle /\ calls[w].op = "submit"
    BY <1>2, ActsAt
  <2>2. s \in DOMAIN sessions /\ k \in SubmitKeys /\ s \in Numbers \ {0}
    BY <2>1, Refers, SessionsAre DEF OfSession, HasArguments
  <2>3. CASE memories' = memories
    BY <1>0, <2>3
  <2>4. CASE Operational(s) /\ RoleIn(s, "owner") /\ ~Answered(k, c) /\ memories' = memories \cup {new}
    <3>1. c \in Companies /\ companies[c].status = "active" /\ Owner(s)
      BY <2>4, AdminsAre DEF Operational, CredentialAdmin, Owner
    <3>2. new \in Memory /\ new.session = s /\ new.company = c /\ new.key = k
      BY <2>2, <3>1 DEF Memory
    <3>. HIDE DEF new, c, s, k
    <3>3. memories' \subseteq Memory
      BY <1>0, <2>4, <3>2
    <3>4. \A m \in memories' \ memories : m = new
      BY <2>4
    <3>. QED  BY <2>4, <3>1, <3>2, <3>3, <3>4
  <2>. QED  BY <1>2, <2>3, <2>4 DEF SubmitMemory, Submitted
<1>3. ASSUME NEW w \in Workers, PurgeCompany(w)
      PROVE  memories' \subseteq memories
  BY <1>3 DEF PurgeCompany
<1>. QED  BY <1>0, <1>1, <1>2, <1>3


\* The rows that a call refers to stay, or are purged with its company.
LEMMA RowsStay ==
    ASSUME OwnershipInv, OwnershipNext, NEW x \in Call, HasArguments(x), RowsAreThere(x)
    PROVE  RowsAreThere(x)'
<1>. USE DEF OwnershipInv
<1>1. x.who <= Len(sessions')
  <2>1. Len(sessions) <= Len(sessions') /\ sessions' \in Seq(Session)
    BY SessionsStep DEF GoOn
  <2>2. Len(sessions') \in Nat
    BY <2>1, LenProperties
  <2>3. x.who \in Nat /\ Len(sessions) \in Nat
    BY SessionsAre DEF Call
  <2>4. x.who <= Len(sessions)
    BY DEF RowsAreThere
  <2>. HIDE DEF OwnershipInv
  <2>. QED  BY <2>1, <2>2, <2>3, <2>4
<1>2. OfCompany(x.op) => setups'[x.company] # None
  <2>1. OfCompany(x.op) => x.company \in Companies /\ setups[x.company] # None
    BY DEF HasArguments, RowsAreThere
  <2>. QED  BY <2>1, CompaniesStep
<1>3. x.op \in {"account", "link"} => proofs'[x.proof] \in Proof /\ proofs'[x.proof].company = x.company
  <2>1. x.op \in {"account", "link"} =>
           x.proof \in Proofs /\ proofs[x.proof] \in Proof /\ proofs[x.proof].company = x.company
    BY DEF HasArguments, RowsAreThere
  <2>. QED  BY <2>1, ProofsStep
<1>4. x.op = "delegate" => \/ keys'[x.key] \in Key /\ keys'[x.key].company = x.company
                           \/ companies'[x.company].status = "purged"
  <2>1. x.op = "delegate" =>
           /\ x.key \in Keys /\ x.company \in Companies
           /\ (keys[x.key] \in Key /\ keys[x.key].company = x.company) \/ Purged(x.company)
    BY DEF HasArguments, RowsAreThere, OfCompany
  <2>2. x.op = "delegate" /\ Purged(x.company) => companies'[x.company].status = "purged"
    BY <2>1, CompaniesStep DEF Purged
  <2>. QED  BY <2>1, <2>2, KeysStep
<1>5. x.op \in Purposes /\ x.step = "write" =>
         \/ intents'[x.intent] \in Intent /\ intents'[x.intent].company = x.company
         \/ companies'[x.company].status = "purged"
  <2>1. x.op \in Purposes /\ x.step = "write" =>
           /\ x.intent \in Intents /\ x.company \in Companies
           /\ (intents[x.intent] \in Intent /\ intents[x.intent].company = x.company) \/ Purged(x.company)
    BY DEF HasArguments, RowsAreThere, OfCompany
  <2>2. x.op \in Purposes /\ x.step = "write" /\ Purged(x.company) => companies'[x.company].status = "purged"
    BY <2>1, CompaniesStep DEF Purged
  <2>. QED  BY <2>1, <2>2, ClosureStep
<1>6. Intent' = Intent
  BY CompaniesStep DEF Intent, Numbers
<1>. HIDE DEF OwnershipInv
<1>. QED  BY <1>1, <1>2, <1>3, <1>4, <1>5, <1>6 DEF RowsAreThere, Purged

\* A step changes the call of one worker, or of none.
LEMMA CallsStep ==
    ASSUME OwnershipInv, OwnershipNext
    PROVE  /\ calls' \in [Workers -> {Idle} \cup Call]
           /\ ArgumentsAreSound'
           /\ ReadingsAreCurrent'
<1>. USE DEF OwnershipInv
<1>0. /\ calls \in [Workers -> {Idle} \cup Call] /\ oneProcess' = oneProcess
      /\ \A v \in Workers : calls[v] # Idle => /\ calls[v] \in Call /\ HasArguments(calls[v])
                                               /\ RowsAreThere(calls[v])
  BY CallIs, CompaniesStep DEF OwnershipTypeOK, ArgumentsAreSound
<1>1. ASSUME NEW x \in Call, HasArguments(x), RowsAreThere(x)
      PROVE  RowsAreThere(x)'
  BY <1>1, RowsStay
<1>2. ASSUME UNCHANGED calls, UNCHANGED <<companies, keys, agents>> \/ Quiet
      PROVE  ReadingsAreCurrent'
  <2>1. CASE UNCHANGED <<companies, keys, agents>>
    BY <1>0, <1>2, <2>1 DEF ReadingsAreCurrent, Inside, MasterAccepted, AgentAccepted
  <2>2. CASE Quiet
    BY <1>0, <1>2, <2>2 DEF ReadingsAreCurrent, Inside, Quiet
  <2>. QED  BY <1>2, <2>1, <2>2
<1>3. CASE Alone
  <2>1. UNCHANGED calls /\ (UNCHANGED <<companies, keys, agents>> \/ Quiet)
    BY <1>3, AloneWrites
  <2>2. ReadingsAreCurrent'
    BY <1>2, <2>1
  <2>3. ASSUME NEW v \in Workers, calls'[v] # Idle
        PROVE  HasArguments(calls'[v]) /\ RowsAreThere(calls[v])'
    <3>1. PICK x : x = calls[v]
      OBVIOUS
    <3>2. HasArguments(x) /\ RowsAreThere(x)' /\ calls'[v] = x
      BY <1>0, <1>1, <2>1, <2>3, <3>1
    <3>. QED  BY <3>2 DEF RowsAreThere
  <2>4. ArgumentsAreSound'
    BY <2>3 DEF ArgumentsAreSound, HasArguments
  <2>. QED  BY <1>0, <2>1, <2>2, <2>4
<1>4. ASSUME NEW w \in Workers, Takes(w)
      PROVE  /\ calls' \in [Workers -> {Idle} \cup Call]
             /\ ArgumentsAreSound'
             /\ ReadingsAreCurrent'
  <2>1. PICK x : NewCall(x) /\ calls' = [calls EXCEPT ![w] = x]
    BY <1>4 DEF Takes
  <2>2. x = Idle \/ (x \in Call /\ HasArguments(x) /\ RowsAreThere(x))
    BY <2>1 DEF NewCall
  <2>3. \A v \in Workers : calls'[v] = IF v = w THEN x ELSE calls[v]
    BY <1>0, <2>1
  <2>4. calls' \in [Workers -> {Idle} \cup Call]
    BY <1>0, <2>1, <2>2
  <2>5. ASSUME NEW v \in Workers, calls'[v] # Idle
        PROVE  HasArguments(calls'[v]) /\ RowsAreThere(calls[v])'
    <3>1. PICK y : y = IF v = w THEN x ELSE calls[v]
      OBVIOUS
    <3>2. y # Idle /\ calls'[v] = y
      BY <2>3, <2>5, <3>1
    <3>3. y \in Call /\ HasArguments(y) /\ RowsAreThere(y)
      BY <1>0, <2>2, <3>1, <3>2
    <3>4. RowsAreThere(y)'
      BY <1>1, <3>3
    <3>. QED  BY <3>2, <3>3, <3>4 DEF RowsAreThere
  <2>6. ArgumentsAreSound'
    BY <2>5 DEF ArgumentsAreSound, HasArguments
  <2>7. ASSUME oneProcess'
        PROVE  /\ \A v, u \in Workers : Inside(v)' /\ Inside(u)' => v = u
               /\ \A v \in Workers : Inside(v)' =>
                     /\ calls'[v].op = "delegate" => MasterAccepted(calls[v].key)'
                     /\ calls'[v].op = "register" =>
                           AgentAccepted(calls[v].company)' /\ companies'[calls'[v].company].enabled
    <3>1. \A v \in Workers \ {w} : ~Inside(v)
      BY <1>0, <1>4, <2>7 DEF Takes, May
    <3>2. \A v \in Workers \ {w} : ~Inside(v)'
      BY <2>3, <3>1 DEF Inside
    <3>3. ASSUME Inside(w)'
          PROVE  /\ calls'[w].op = "delegate" => MasterAccepted(calls[w].key)'
                 /\ calls'[w].op = "register" =>
                       AgentAccepted(calls[w].company)' /\ companies'[calls'[w].company].enabled
      <4>1. calls'[w] = x /\ x # Idle /\ x.step = "write"
        BY <2>3, <3>3 DEF Inside
      <4>2. Reading(x) /\ UNCHANGED <<companies, keys, agents>>
        BY <2>1, <4>1 DEF NewCall
      <4>. QED  BY <4>1, <4>2 DEF Reading, MasterAccepted, AgentAccepted
    <3>. QED  BY <3>2, <3>3
  <2>8. ReadingsAreCurrent'
    BY <2>7 DEF ReadingsAreCurrent
  <2>. QED  BY <2>4, <2>6, <2>8
<1>5. CASE \E w \in Workers : Arrive(w) \/ Server(w)
  BY <1>4, <1>5, Arrives, Serves
<1>. QED  BY <1>3, <1>5 DEF OwnershipNext

\* Every step keeps what the calls rest on.
LEMMA OwnershipStep ==
    ASSUME OwnershipInv, [OwnershipNext]_ownershipVars
    PROVE  OwnershipInv'
<1>1. CASE OwnershipNext
  <2>1. /\ Session' = Session /\ Intent' = Intent /\ Memory' = Memory /\ Call' = Call
        /\ oneProcess' = oneProcess /\ lane' = lane
    BY <1>1, CompaniesStep DEF Session, Intent, Memory, Call, Numbers
  <2>2. OwnershipTypeOK'
    <3>1. oneProcess' \in BOOLEAN /\ lane' \in Lanes
      BY <2>1 DEF OwnershipInv, OwnershipTypeOK
    <3>2. /\ companies' \in [Companies -> Company] /\ setups' \in [Companies -> Maybe(Requests)]
          /\ \A c \in Companies : setups'[c] = None <=> companies'[c].status = "none"
          /\ agents' \in [Companies -> {"none", "active", "revoked"}]
      BY <1>1, CompaniesStep
    <3>3. keys' \in [Keys -> Maybe(Key)]
      BY <1>1, KeysStep
    <3>4. proofs' \in [Proofs -> Maybe(Proof)]
      BY <1>1, ProofsStep
    <3>5. accounts' \subseteq Accounts /\ authorities' \in SUBSET Authority
      BY <1>1, AuthoritiesStep
    <3>6. /\ sessions' \in Seq(Session) /\ Len(sessions') <= lane.sessions
          /\ \A s \in DOMAIN sessions' : sessions'[s].from < s /\ sessions'[s].root <= s
      BY <1>1, SessionsStep DEF GoOn
    <3>7. /\ expired' \subseteq DOMAIN sessions'
          /\ recovery' \in [Companies -> {"none", "open", "ended"}]
          /\ intents' \in [Intents -> Maybe(Intent)] /\ exports' \subseteq Companies
          /\ begun' \in 0..lane.calls
      BY <1>1, ClosureStep
    <3>8. memories' \in SUBSET Memory
      BY <1>1, MemoriesStep
    <3>9. calls' \in [Workers -> {Idle} \cup Call]
      BY <1>1, CallsStep
    <3>. QED  BY <2>1, <3>1, <3>2, <3>3, <3>4, <3>5, <3>6, <3>7, <3>8, <3>9 DEF OwnershipTypeOK
  <2>3. ArgumentsAreSound' /\ ReadingsAreCurrent'
    BY <1>1, CallsStep
  <2>4. RowsAreOfFounded'
    BY <1>1, KeysStep, ProofsStep, AuthoritiesStep, ClosureStep DEF RowsAreOfFounded
  <2>5. ProofsAreSpent'
    BY <1>1, AuthoritiesStep DEF ProofsAreSpent, ProofsAreSpentOnce, Spent
  <2>6. MastersAreCounted'
    BY <1>1, KeysStep DEF MastersAreCounted
  <2>7. SuccessorsFollow'
    BY <1>1, SessionsStep DEF GoOn, SuccessorsFollow, RotationsAreExclusive
  <2>. QED  BY <2>2, <2>3, <2>4, <2>5, <2>6, <2>7 DEF OwnershipInv
<1>2. CASE UNCHANGED ownershipVars
  <2>. USE <1>2 DEF ownershipVars, setting, company, people, presence, closure
  <2>1. OwnershipTypeOK'
    BY DEF OwnershipInv, OwnershipTypeOK, Session, Intent, Memory, Call, Numbers
  <2>2. ArgumentsAreSound'
    BY DEF OwnershipInv, ArgumentsAreSound, HasArguments, RowsAreThere, Purged, Intent, Numbers
  <2>3. RowsAreOfFounded' /\ ProofsAreSpent'
    BY DEF OwnershipInv, RowsAreOfFounded, ProofsAreSpent, ProofsAreSpentOnce
  <2>4. MastersAreCounted'
    BY DEF OwnershipInv, MastersAreCounted, ActiveMasters
  <2>5. SuccessorsFollow'
    BY DEF OwnershipInv, SuccessorsFollow, RotationsAreExclusive
  <2>6. ReadingsAreCurrent'
    BY DEF OwnershipInv, ReadingsAreCurrent, Inside, MasterAccepted, AgentAccepted
  <2>. QED  BY <2>1, <2>2, <2>3, <2>4, <2>5, <2>6 DEF OwnershipInv
<1>. QED  BY <1>1, <1>2


\* The start has what every step keeps.
LEMMA OwnershipStart ==
    ASSUME OwnershipInit
    PROVE  OwnershipInv
<1>. DEFINE begins == lane.start
<1>1. /\ lane \in Lanes /\ oneProcess \in BOOLEAN /\ begins \subseteq Companies
      /\ lane.sessions \in Nat /\ lane.calls \in Nat /\ (lane.owned => 3 <= lane.sessions)
  BY OwnershipAssumption DEF OwnershipInit
<1>. HIDE DEF begins
<1>2. PICK owners \in [begins -> Keys] :
         /\ companies = [c \in Companies |->
              [status |-> IF c \in begins THEN "active" ELSE "none", before |-> "none",
               enabled |-> c \in begins]]
         /\ keys = [k \in Keys |->
              IF \E c \in begins : owners[c] = k
              THEN [company |-> CHOOSE c \in begins : owners[c] = k, by |-> "bootstrap",
                    revoked |-> FALSE]
              ELSE None]
  BY DEF OwnershipInit, begins
<1>3. /\ setups \in [Companies -> Maybe(Requests)]
      /\ \A c \in Companies : setups[c] = None <=> c \notin begins
  BY DEF OwnershipInit, begins
<1>4. /\ companies \in [Companies -> Company]
      /\ \A c \in Companies : companies[c].status = "none" <=> c \notin begins
  BY <1>2 DEF Company, Statuses
<1>5. \A k \in Keys : keys[k] # None =>
         /\ keys[k] \in Key /\ keys[k].company \in begins /\ owners[keys[k].company] = k
  <2>1. ASSUME NEW k \in Keys, keys[k] # None
        PROVE  /\ keys[k] \in Key /\ keys[k].company \in begins /\ owners[keys[k].company] = k
    <3>. DEFINE c == CHOOSE d \in begins : owners[d] = k
    <3>1. \E d \in begins : owners[d] = k
      BY <1>2, <2>1
    <3>2. c \in begins /\ owners[c] = k
      BY <3>1
    <3>3. keys[k] = [company |-> c, by |-> "bootstrap", revoked |-> FALSE]
      BY <1>2, <3>1
    <3>. HIDE DEF c
    <3>. QED  BY <1>1, <3>2, <3>3 DEF Key
  <2>. QED  BY <2>1
<1>6. keys \in [Keys -> Maybe(Key)]
  <2>1. \A k \in Keys : keys[k] \in Maybe(Key)
    BY <1>5 DEF Maybe
  <2>. QED  BY <1>2, <2>1
<1>7. MastersAreCounted
  <2>1. ASSUME NEW c \in Companies
        PROVE  IsFiniteSet(ActiveMasters(c)) /\ Cardinality(ActiveMasters(c)) <= MasterLimit
    <3>1. ActiveMasters(c) \subseteq {owners[c]}
      BY <1>5 DEF ActiveMasters
    <3>2. IsFiniteSet({owners[c]}) /\ Cardinality({owners[c]}) = 1
      BY FS_Singleton
    <3>3. Cardinality({owners[c]}) <= MasterLimit
      BY <3>2, OwnershipAssumption
    <3>. QED  BY <3>1, <3>2, <3>3, PartIsCounted
  <2>. QED  BY <2>1 DEF MastersAreCounted
<1>. DEFINE Enters ==
         /\ proofs \in [Proofs -> Maybe(Proof)] /\ authorities \subseteq Authority
         /\ accounts \subseteq Accounts /\ sessions \in Seq(Session) /\ Len(sessions) <= lane.sessions
         /\ \A s \in DOMAIN sessions : sessions[s].from < s /\ sessions[s].root <= s
         /\ \A p \in Proofs : proofs[p] # None => setups[proofs[p].company] # None
         /\ \A a \in authorities : setups[a.company] # None
         /\ ProofsAreSpent /\ SuccessorsFollow
<1>8. Enters
  <2>1. CASE proofs = [p \in Proofs |-> None] /\ authorities = {} /\ accounts = {} /\ sessions = <<>>
    <3>1. sessions \in Seq(Session) /\ Len(sessions) = 0
      BY <2>1, EmptySeq
    <3>2. DOMAIN sessions = {}
      BY <3>1, LenProperties
    <3>3. Len(sessions) <= lane.sessions
      BY <1>1, <3>1
    <3>4. SuccessorsFollow
      BY <3>2 DEF SuccessorsFollow, RotationsAreExclusive
    <3>5. ProofsAreSpent
      BY <2>1 DEF ProofsAreSpent, ProofsAreSpentOnce
    <3>. QED  BY <2>1, <3>1, <3>2, <3>3, <3>4, <3>5 DEF Maybe
  <2>2. ASSUME NEW c \in begins, NEW a \in Accounts, NEW p \in Proofs, lane.owned,
               proofs = [q \in Proofs |-> IF q # p THEN None
                                             ELSE [company |-> c, status |-> "consumed"]],
               authorities = {[account |-> a, company |-> c, role |-> "owner", proof |-> p]},
               accounts = {a}, sessions = OwnerHistory(a, c)
        PROVE  Enters
    <3>. DEFINE first == [account |-> a, company |-> None, reauth |-> FALSE, revoked |-> TRUE,
                          root |-> 1, from |-> 0, by |-> "login", context |-> "none"]
                second == [first EXCEPT !.from = 1, !.by = "reauth", !.reauth = TRUE]
                third == [second EXCEPT !.from = 2, !.by = "select", !.company = c, !.revoked = FALSE]
                proof == [company |-> c, status |-> "consumed"]
    <3>1. {0, 1, 2} \subseteq Numbers /\ c \in Companies /\ 3 <= lane.sessions /\ setups[c] # None
      BY <1>1, <1>3, <2>2 DEF Numbers
    <3>2. /\ first \in Session /\ first.from = 0 /\ first.root = 1 /\ first.revoked
          /\ second \in Session /\ second.from = 1 /\ second.root = 1 /\ second.revoked
          /\ third \in Session /\ third.from = 2 /\ third.root = 1
      <4>1. /\ first \in Session /\ first.from = 0 /\ first.root = 1 /\ first.revoked
            /\ first.company = None
        BY <3>1 DEF Session, Maybe
      <4>. HIDE DEF first
      <4>2. second \in Session /\ second.from = 1 /\ second.root = 1 /\ second.revoked
        BY <3>1, <4>1 DEF Session
      <4>. HIDE DEF second
      <4>3. third \in Session /\ third.from = 2 /\ third.root = 1
        BY <3>1, <4>2 DEF Session, Maybe
      <4>. QED  BY <4>1, <4>2, <4>3
    <3>3. sessions = <<first, second, third>>
      BY <2>2 DEF OwnerHistory
    <3>4. proof \in Proof /\ proof.company = c /\ proof.status = "consumed"
      BY <3>1 DEF Proof
    <3>5. proofs = [q \in Proofs |-> IF q # p THEN None ELSE proof]
      BY <2>2
    <3>. HIDE DEF first, second, third, proof
    <3>6. /\ sessions \in Seq(Session) /\ Len(sessions) = 3 /\ DOMAIN sessions = 1..3
          /\ sessions[1] = first /\ sessions[2] = second /\ sessions[3] = third
      BY <3>2, <3>3
    <3>7. \A s \in DOMAIN sessions : s = 1 \/ s = 2 \/ s = 3
      BY <3>6
    <3>8. Len(sessions) <= lane.sessions
      BY <3>1, <3>6
    <3>9. \A s \in DOMAIN sessions : sessions[s].from < s /\ sessions[s].root <= s
      BY <3>2, <3>6, <3>7
    <3>10. SuccessorsFollow
      <4>1. \A s \in DOMAIN sessions : sessions[s].from # 0 => sessions[sessions[s].from].revoked
        BY <3>2, <3>6, <3>7
      <4>2. \A s, t \in DOMAIN sessions : sessions[s].from = sessions[t].from => s = t
        BY <3>2, <3>6, <3>7
      <4>. QED  BY <4>1, <4>2 DEF SuccessorsFollow, RotationsAreExclusive
    <3>11. authorities \subseteq Authority /\ \A x \in authorities : setups[x.company] # None
      BY <2>2, <3>1 DEF Authority, Roles
    <3>12. proofs \in [Proofs -> Maybe(Proof)]
      BY <3>4, <3>5 DEF Maybe
    <3>13. \A q \in Proofs : proofs[q] # None => setups[proofs[q].company] # None
      BY <3>1, <3>4, <3>5
    <3>14. ProofsAreSpent
      BY <2>2, <3>4, <3>5 DEF ProofsAreSpent, ProofsAreSpentOnce
    <3>. QED  BY <2>2, <3>6, <3>8, <3>9, <3>10, <3>11, <3>12, <3>13, <3>14
  <2>3. \/ proofs = [p \in Proofs |-> None] /\ authorities = {} /\ accounts = {} /\ sessions = <<>>
        \/ /\ lane.owned
           /\ \E c \in begins, a \in Accounts, p \in Proofs :
                /\ proofs = [q \in Proofs |-> IF q # p THEN None
                                              ELSE [company |-> c, status |-> "consumed"]]
                /\ authorities = {[account |-> a, company |-> c, role |-> "owner", proof |-> p]}
                /\ accounts = {a} /\ sessions = OwnerHistory(a, c)
    BY DEF OwnershipInit, begins
  <2>. HIDE DEF Enters
  <2>. QED  BY <2>1, <2>2, <2>3
<1>9. /\ agents = [c \in Companies |-> "none"] /\ expired = {}
      /\ recovery = [c \in Companies |-> "none"] /\ intents = [i \in Intents |-> None]
      /\ exports = {} /\ memories = {} /\ calls = [w \in Workers |-> Idle] /\ begun = 0
  BY DEF OwnershipInit
<1>10. OwnershipTypeOK
  BY <1>1, <1>3, <1>4, <1>6, <1>8, <1>9 DEF OwnershipTypeOK, Maybe
<1>11. RowsAreOfFounded
  <2>1. \A k \in Keys : keys[k] # None => setups[keys[k].company] # None
    BY <1>1, <1>3, <1>5
  <2>. QED  BY <1>8, <1>9, <2>1 DEF RowsAreOfFounded
<1>12. ArgumentsAreSound /\ ReadingsAreCurrent
  BY <1>9 DEF ArgumentsAreSound, ReadingsAreCurrent, Inside
<1>. QED  BY <1>7, <1>8, <1>10, <1>11, <1>12 DEF OwnershipInv

----------------------------------------------------------------------------
(* Theorems                                                                *)

\* The invariant holds of every behaviour.
LEMMA OwnershipHolds == OwnershipSpec => []OwnershipInv
<1>1. OwnershipInit => OwnershipInv
  BY OwnershipStart
<1>2. OwnershipInv /\ [OwnershipNext]_ownershipVars => OwnershipInv'
  BY OwnershipStep
<1>. QED  BY <1>1, <1>2, PTL DEF OwnershipSpec

\* The tables of the human side, their calls and sessions have their types.
THEOREM OwnershipTyped == OwnershipSpec => []OwnershipTypeOK
<1>1. OwnershipInv => OwnershipTypeOK
  BY DEF OwnershipInv
<1>. QED  BY <1>1, OwnershipHolds, PTL

\* A proof makes one authority, a company's credentials stay within the limit and
\* rotations of a session are exclusive, for any number of calls at once.
THEOREM OwnersHold == OwnershipSpec => []OwnersAreSound
<1>1. OwnershipInv => OwnersAreSound
  BY DEF OwnershipInv, OwnersAreSound, ProofsAreSpent, MastersAreCounted, MastersWithinLimit, SuccessorsFollow
<1>. QED  BY <1>1, OwnershipHolds, PTL

\* In one process a credential is issued on the word of an issuer accepted at that
\* moment; a memory is written for an owner of that moment, however many processes.
THEOREM ActsHold == OwnershipSpec => ActsAreAuthorised
<1>. DEFINE Issued == oneProcess => \A k \in Keys :
         keys[k] = None /\ keys'[k] # None =>
           /\ companies'[keys'[k].company].status = "active"
           /\ keys'[k].by = "agent" =>
                agents[keys'[k].company] = "active" /\ companies[keys'[k].company].enabled
            Written == \A m \in memories' \ memories :
         /\ Owner(m.session) /\ companies[m.company].status = "active"
         /\ ~Answered(m.key, m.company)
<1>1. OwnershipInv /\ [OwnershipNext]_ownershipVars => Written
  <2>1. CASE UNCHANGED ownershipVars
    BY <2>1 DEF ownershipVars
  <2>. QED  BY <2>1, MemoriesStep
<1>2. ASSUME OwnershipInv, OwnershipNext, oneProcess, NEW k \in Keys, keys[k] = None, keys'[k] # None
      PROVE  /\ companies'[keys'[k].company].status = "active"
             /\ keys'[k].by = "agent" =>
                  agents[keys'[k].company] = "active" /\ companies[keys'[k].company].enabled
  <2>. USE DEF OwnershipInv
  <2>0. keys \in [Keys -> Maybe(Key)] /\ companies \in [Companies -> Company]
    BY <1>2 DEF OwnershipTypeOK
  <2>1. ASSUME NEW c \in Companies, NEW j \in Keys, NEW r \in Requests, CreateBootstrapAccount(c, j, r)
        PROVE  keys'[k].by = "bootstrap" /\ companies'[keys'[k].company].status = "active"
    BY <1>2, <2>0, <2>1 DEF CreateBootstrapAccount, Founded, FirstKey
  <2>2. ASSUME NEW w \in Workers, DelegateWrite(w)
        PROVE  keys'[k].by = "master" /\ companies'[keys'[k].company].status = "active"
    <3>. DEFINE x == calls[w]
    <3>1. x # Idle /\ x.op = "delegate" /\ x.step = "write"
      BY <2>2, ActsAt
    <3>2. MasterAccepted(x.key) /\ HasArguments(x) /\ RowsAreThere(x) /\ x.company \in Companies
      BY <1>2, <3>1, Refers DEF ReadingsAreCurrent, Inside, OfCompany
    <3>3. /\ keys'[k] = [company |-> x.company, by |-> "master", revoked |-> FALSE]
          /\ ~Purged(x.company)
      BY <1>2, <2>0, <2>2 DEF DelegateWrite, Registered, Purged
    <3>4. companies[x.company].status = "active"
      BY <3>1, <3>2, <3>3 DEF MasterAccepted, RowsAreThere
    <3>5. companies' = companies
      BY <2>2 DEF DelegateWrite, company
    <3>. QED  BY <3>3, <3>4, <3>5
  <2>3. ASSUME NEW w \in Workers, RegisterWrite(w)
        PROVE  /\ companies'[keys'[k].company].status = "active"
               /\ agents[keys'[k].company] = "active" /\ companies[keys'[k].company].enabled
    <3>. DEFINE x == calls[w]
    <3>1. x # Idle /\ x.op = "register" /\ x.step = "write"
      BY <2>3, ActsAt
    <3>2. AgentAccepted(x.company) /\ companies[x.company].enabled
      BY <1>2, <3>1 DEF ReadingsAreCurrent, Inside
    <3>3. keys'[k] = [company |-> x.company, by |-> "agent", revoked |-> FALSE]
      BY <1>2, <2>0, <2>3 DEF RegisterWrite, Registered
    <3>4. companies' = companies
      BY <2>3 DEF RegisterWrite, company
    <3>. QED  BY <3>2, <3>3, <3>4 DEF AgentAccepted
  <2>4. ASSUME NEW w \in Workers, CloseCompany(w) \/ PurgeCompany(w)
        PROVE  FALSE
    BY <1>2, <2>4 DEF CloseCompany, PurgeCompany
  <2>5. \/ \E c \in Companies, j \in Keys, r \in Requests : CreateBootstrapAccount(c, j, r)
        \/ \E w \in Workers : DelegateWrite(w) \/ RegisterWrite(w) \/ CloseCompany(w) \/ PurgeCompany(w)
    <3>1. keys' # keys
      BY <1>2
    <3>. QED  BY <1>2, <3>1, AloneWrites, WorkerWrites DEF OwnershipNext
  <2>. QED  BY <2>1, <2>2, <2>3, <2>4, <2>5
<1>3. OwnershipInv /\ [OwnershipNext]_ownershipVars => Issued
  <2>1. CASE UNCHANGED ownershipVars
    BY <2>1 DEF ownershipVars
  <2>. QED  BY <1>2, <2>1
<1>4. OwnershipSpec => IssuersAreCurrent
  <2>1. OwnershipInv /\ [OwnershipNext]_ownershipVars => [Issued]_ownershipVars
    BY <1>3
  <2>. QED  BY <2>1, OwnershipHolds, PTL DEF OwnershipSpec, IssuersAreCurrent
<1>5. OwnershipSpec => SubmissionsAreAuthorised
  <2>1. OwnershipInv /\ [OwnershipNext]_ownershipVars => [Written]_ownershipVars
    BY <1>1
  <2>. QED  BY <2>1, OwnershipHolds, PTL DEF OwnershipSpec, SubmissionsAreAuthorised
<1>. QED  BY <1>4, <1>5 DEF ActsAreAuthorised

\* A purged company does not come back, in any number of processes.
THEOREM PurgesHold == OwnershipSpec => PurgedStaysPurged
<1>. DEFINE Stays == \A c \in Companies :
         companies[c].status = "purged" => companies'[c].status = "purged"
<1>1. OwnershipInv /\ [OwnershipNext]_ownershipVars => Stays
  <2>1. CASE UNCHANGED ownershipVars
    BY <2>1 DEF ownershipVars, company
  <2>. QED  BY <2>1, CompaniesStep DEF Purged
<1>2. OwnershipInv /\ [OwnershipNext]_ownershipVars => [Stays]_ownershipVars
  BY <1>1
<1>. QED  BY <1>2, OwnershipHolds, PTL DEF OwnershipSpec, PurgedStaysPurged
=============================================================================
