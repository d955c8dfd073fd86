------------------------- MODULE ClaimsAndFilesProofs -------------------------
(***************************************************************************)
(* Safety of the edit claims, for any calls, processes, paths and leases,   *)
(* and of the file store, for any workers, lanes and limits: how its lock   *)
(* is kept, and that the records of the document in the file fit together.  *)
(***************************************************************************)
EXTENDS UaiEditClaims, FileCredentialsProofs, SequenceTheorems

---------------------------------------------------------------------------
(* Local .uai edit claims. *)

\* A call that was started has a request; a call is in the store at the stages
\* that say so, with a view; one that returned has a result.
CallsAreSound ==
    \A c \in Calls :
        /\ stage[c] # "idle" => request[c] \in Request
        /\ InStore(c) => view[c] \in View /\ stage[c] # "idle"
        /\ stage[c] = "lookup" => InStore(c) /\ request[c].op # "acquire"
        /\ stage[c] \in {"claimRead", "headRead"} =>
              InStore(c) /\ ~deployment.snapshot /\ request[c].op # "acquire" /\ view[c].overdue = {}
        /\ stage[c] \in {"claims", "heads"} => result[c] \in Result

\* A claim is inserted by an acquire that has nothing left to write for itself;
\* other calls refer to claims that are there.
ClaimsAreSound ==
    \A c \in Calls :
        /\ claim[c].status # "none" =>
              stage[c] \in {"claims", "heads", "done"} /\ request[c].op = "acquire"
        /\ stage[c] # "idle" /\ request[c].op # "acquire" =>
              claim[request[c].claim].status # "none"

\* A path that is not tracked is not claimed, and an active claim was based on
\* the hash its head has.
HeadsAreSound ==
    \A p \in Paths :
        /\ head[p].hash = NoHash => head[p].active = NoClaim
        /\ head[p].active # NoClaim =>
              /\ head[p].active \in Calls
              /\ claim[head[p].active].status = "active"
              /\ PathOf(head[p].active) = p
              /\ request[head[p].active].hash = head[p].hash

\* While a head names the claim that a call has seen it name, the rest of the
\* head is what the call has seen.
ViewsAreSound ==
    \A c \in Calls :
        /\ InStore(c)
        /\ request[c].op # "acquire"
        /\ view[c].head.active = request[c].claim
        /\ head[Path(c)].active = request[c].claim
        => view[c].head = head[Path(c)]

\* The calls in the store of one process are one, and of a process that serves.
LockIsHeld ==
    /\ \A c \in Calls : stage[c] # "idle" => request[c].process \in deployment.processes
    /\ \A c, d \in Calls :
          InStore(c) /\ InStore(d) /\ request[c].process = request[d].process => c = d

\* What the one process has read is so until it has written, and what has
\* expired was overdue.
ReadingsAreCurrent ==
    OneProcess =>
        /\ \A c \in Calls :
              InStore(c) => /\ view[c].active = Active
                            /\ \A x \in view[c].overdue : claim[x].due <= now
        /\ \A x \in Calls : claim[x].status = "expired" => claim[x].due <= now

IInv ==
    /\ TypeOK
    /\ CallsAreSound
    /\ ClaimsAreSound
    /\ HeadsAreSound
    /\ ViewsAreSound
    /\ LockIsHeld
    /\ ReadingsAreCurrent
    /\ HeadsNameTheActiveClaim

----------------------------------------------------------------------------
(* Types                                                                   *)

\* An update of a claim's status keeps its type and its lease.
LEMMA ClaimUpdates ==
    ASSUME NEW r \in Claim, NEW s \in Statuses
    PROVE  /\ [r EXCEPT !.status = s] \in Claim
           /\ [r EXCEPT !.status = s].status = s
           /\ [r EXCEPT !.status = s].due = r.due
BY DEF Claim, Statuses

\* So does an update of its status and hash.
LEMMA ClaimCompletions ==
    ASSUME NEW r \in Claim, NEW h \in Hashes
    PROVE  /\ [r EXCEPT !.status = "completed", !.hash = h] \in Claim
           /\ [r EXCEPT !.status = "completed", !.hash = h].status = "completed"
           /\ [r EXCEPT !.status = "completed", !.hash = h].hash = h
BY DEF Claim, Statuses

\* An update of a head's claim keeps its type and the other columns.
LEMMA HeadUpdates ==
    ASSUME NEW r \in HeadRow, NEW x \in Calls \cup {NoClaim}
    PROVE  /\ [r EXCEPT !.active = x] \in HeadRow
           /\ [r EXCEPT !.active = x].active = x
           /\ [r EXCEPT !.active = x].hash = r.hash
           /\ [r EXCEPT !.active = x].revision = r.revision
BY DEF HeadRow

\* Init establishes the invariant.
LEMMA InitIInv == Init => IInv
<1> SUFFICES ASSUME Init PROVE IInv
  OBVIOUS
<1>. USE DEF Init
<1>1. TypeOK
  BY DEF TypeOK, Claim, HeadRow, Statuses, Stages
<1>2. CallsAreSound /\ ClaimsAreSound
  BY DEF CallsAreSound, ClaimsAreSound, InStore
<1>3. HeadsAreSound /\ ViewsAreSound
  BY DEF HeadsAreSound, ViewsAreSound, InStore
<1>4. HeadsNameTheActiveClaim
  BY DEF HeadsNameTheActiveClaim, ActiveOn, Active
<1>5. LockIsHeld /\ ReadingsAreCurrent
  BY DEF LockIsHeld, ReadingsAreCurrent, InStore
<1>. QED  BY <1>1, <1>2, <1>3, <1>4, <1>5 DEF IInv

\* What a started call refers to.
LEMMA Targets ==
    ASSUME CallsAreSound, NEW c \in Calls, stage[c] # "idle"
    PROVE  /\ request[c] \in Request
           /\ request[c].hash \in Hashes /\ request[c].lease \in Nat \ {0}
           /\ request[c].path \in Paths /\ request[c].claim \in Calls
           /\ Target(c) \in Calls
           /\ request[c].op = "acquire" => Target(c) = c /\ Path(c) = request[c].path
           /\ request[c].op # "acquire" => Target(c) = request[c].claim
<1>1. request[c] \in Request
  BY DEF CallsAreSound
<1>. QED  BY <1>1, ConstantsAssumption DEF Request, Target, Path, PathOf

\* So is the path of what it refers to.
LEMMA TargetPath ==
    ASSUME CallsAreSound, ClaimsAreSound, NEW c \in Calls, stage[c] # "idle"
    PROVE  Path(c) \in Paths
<1>1. stage[Target(c)] # "idle"
  BY Targets DEF ClaimsAreSound, Target
<1>. QED  BY <1>1, Targets DEF Path, PathOf

\* A call at work in the store has a view and is not idle.
LEMMA AtWork ==
    ASSUME CallsAreSound, NEW c \in Calls, InStore(c) \/ Ready(c)
    PROVE  /\ InStore(c) /\ stage[c] # "idle" /\ view[c] \in View
           /\ view[c].now \in Nat /\ view[c].head \in HeadRow
           /\ view[c].overdue \subseteq Calls /\ view[c].active \subseteq Calls
<1>1. InStore(c)
  BY DEF Ready, CallsAreSound
<1>. QED  BY <1>1 DEF CallsAreSound, View

\* The sweep turns active claims into expired ones and leaves the rest.
LEMMA SweepClaims ==
    ASSUME TypeOK, CallsAreSound, NEW c \in Calls, NEW x \in Calls
    PROVE  /\ SweptClaims(c) \in [Calls -> Claim]
           /\ claim[x].status # "active" => SweptClaims(c)[x] = claim[x]
           /\ claim[x].status = "active" => SweptClaims(c)[x].status \in {"active", "expired"}
           /\ SweptClaims(c)[x].status = "active" =>
                 SweptClaims(c)[x] = claim[x] /\ x \notin view[c].overdue
           /\ claim[x].status = "active" /\ x \notin view[c].overdue =>
                 SweptClaims(c)[x] = claim[x]
           /\ SweptClaims(c)[x].due = claim[x].due
<1>1. \A y \in Calls : claim[y] \in Claim
  BY DEF TypeOK
<1>2. \A y \in Calls :
         /\ [claim[y] EXCEPT !.status = "expired"] \in Claim
         /\ [claim[y] EXCEPT !.status = "expired"].status = "expired"
         /\ [claim[y] EXCEPT !.status = "expired"].due = claim[y].due
  BY <1>1, ClaimUpdates DEF Statuses
<1>. QED  BY <1>1, <1>2 DEF SweptClaims, Active

\* The sweep takes overdue claims from their heads and leaves the rest.
LEMMA SweepHeads ==
    ASSUME TypeOK, CallsAreSound, NEW c \in Calls, NEW p \in Paths
    PROVE  /\ SweptHeads(c) \in [Paths -> HeadRow]
           /\ SweptHeads(c)[p].hash = head[p].hash
           /\ SweptHeads(c)[p].revision = head[p].revision
           /\ head[p].active \in view[c].overdue => SweptHeads(c)[p].active = NoClaim
           /\ head[p].active \notin view[c].overdue => SweptHeads(c)[p] = head[p]
<1>1. \A q \in Paths : head[q] \in HeadRow
  BY DEF TypeOK
<1>2. \A q \in Paths :
         /\ [head[q] EXCEPT !.active = NoClaim] \in HeadRow
         /\ [head[q] EXCEPT !.active = NoClaim].active = NoClaim
         /\ [head[q] EXCEPT !.active = NoClaim].hash = head[q].hash
         /\ [head[q] EXCEPT !.active = NoClaim].revision = head[q].revision
  BY <1>1, HeadUpdates
<1>. QED  BY <1>1, <1>2 DEF SweptHeads

\* What the operations write has its type.
LEMMA WritesTyped ==
    ASSUME TypeOK, CallsAreSound, ClaimsAreSound, NEW c \in Calls, Ready(c)
    PROVE  /\ request[c].op = "acquire" =>
                 TrackedHead(c) \in HeadRow /\ InsertedClaims(c) \in [Calls -> Claim]
           /\ SeenHead(c) \in HeadRow
           /\ \A row \in Claim : ChangedClaims(c, row) \in [Calls -> Claim]
           /\ \A row \in HeadRow : ChangedHeads(c, row) \in [Paths -> HeadRow]
<1>1. InStore(c) /\ stage[c] # "idle" /\ view[c] \in View
  BY AtWork
<1>2. SweptClaims(c) \in [Calls -> Claim]
  BY SweepClaims
<1>3. Path(c) \in Paths
  BY <1>1, TargetPath
<1>4. SweptHeads(c) \in [Paths -> HeadRow]
  BY <1>3, SweepHeads
<1>5. ASSUME request[c].op = "acquire"
      PROVE  TrackedHead(c) \in HeadRow /\ InsertedClaims(c) \in [Calls -> Claim]
  <2>1. TrackedHead(c) \in HeadRow
    <3>1. [hash |-> request[c].hash, revision |-> 0, active |-> NoClaim] \in HeadRow
      BY <1>1, Targets DEF HeadRow
    <3>. QED  BY <1>1, <1>4, <3>1, Targets DEF TrackedHead
  <2>2. InsertedClaims(c) \in [Calls -> Claim]
    <3>1. view[c].now + request[c].lease \in Nat
      BY <1>1, AtWork, Targets
    <3>2. [status |-> "active", due |-> view[c].now + request[c].lease, hash |-> NoHash] \in Claim
      BY <3>1 DEF Claim, Statuses
    <3>. QED  BY <1>2, <3>2 DEF InsertedClaims
  <2>. QED  BY <2>1, <2>2
<1>6. SeenHead(c) \in HeadRow
  BY <1>1, <1>3, <1>4, AtWork DEF SeenHead
<1>7. \A row \in Claim : ChangedClaims(c, row) \in [Calls -> Claim]
  BY <1>2 DEF ChangedClaims
<1>8. \A row \in HeadRow : ChangedHeads(c, row) \in [Paths -> HeadRow]
  BY <1>4 DEF ChangedHeads
<1>. QED  BY <1>5, <1>6, <1>7, <1>8

\* What a store call reads first is a view.
LEMMA ReadingTyped ==
    ASSUME TypeOK, NEW p \in Paths
    PROVE  Reading(p) \in View /\ Reading(p) # NoView /\ Reading(p).head = head[p]
<1>1. Reading(p) \in View
  BY DEF TypeOK, Reading, View, Overdue, Active
<1>. QED  BY <1>1, ConstantsAssumption DEF Reading

\* What a store call returns is a result.
LEMMA ReturnTyped ==
    ASSUME TypeOK, CallsAreSound, NEW c \in Calls, NEW s \in Statuses, NEW row \in HeadRow,
           Return(c, s, row)
    PROVE  /\ result' \in [Calls -> Result \cup {NoResult}] /\ result'[c] \in Result
           /\ view' \in [Calls -> View \cup {NoView}] /\ stage' \in [Calls -> Stages]
           /\ answer' = answer
<1>1. [status |-> s, head |-> row] \in Result
  BY DEF Result
<1>. QED  BY <1>1 DEF Return, TypeOK, Goto, Stages

\* What the four changes return is a status and a head.
LEMMA ReturnRows ==
    ASSUME TypeOK, CallsAreSound, ClaimsAreSound, NEW c \in Calls,
           GrantAcquire(c) \/ Heartbeat(c) \/ Complete(c) \/ Release(c)
    PROVE  \E t \in Statuses, row \in HeadRow : Return(c, t, row)
<1>1. Ready(c)
  BY DEF GrantAcquire, MayInsert, Heartbeat, Complete, Release
<1>2. SeenHead(c) \in HeadRow /\ request[c].hash \in Hashes
  BY <1>1, WritesTyped, AtWork, Targets
<1>3. ASSUME GrantAcquire(c)
      PROVE  \E t \in Statuses, row \in HeadRow : Return(c, t, row)
  <2>1. TrackedHead(c) \in HeadRow
    BY <1>1, <1>3, WritesTyped DEF GrantAcquire, MayInsert
  <2>2. [TrackedHead(c) EXCEPT !.active = c] \in HeadRow
    BY <2>1, HeadUpdates
  <2>. QED  BY <1>3, <2>2 DEF GrantAcquire, Statuses
<1>4. ASSUME Complete(c)
      PROVE  \E t \in Statuses, row \in HeadRow : Return(c, t, row)
  <2>1. [hash |-> request[c].hash, revision |-> SeenHead(c).revision + 1, active |-> NoClaim] \in HeadRow
    BY <1>2 DEF HeadRow
  <2>. QED  BY <1>4, <2>1 DEF Complete, Statuses
<1>5. ASSUME Release(c)
      PROVE  \E t \in Statuses, row \in HeadRow : Return(c, t, row)
  <2>1. [SeenHead(c) EXCEPT !.active = NoClaim] \in HeadRow
    BY <1>2, HeadUpdates
  <2>. QED  BY <1>5, <2>1 DEF Release, Statuses
<1>. QED  BY <1>2, <1>3, <1>4, <1>5 DEF Heartbeat, Statuses

\* Every step keeps the types.
LEMMA TypeStep ==
    ASSUME IInv, [Next]_vars
    PROVE  TypeOK'
<1>. USE DEF IInv
<1>1. ASSUME NEW c \in Calls, Start(c)
      PROVE  TypeOK'
  <2>1. PICK q \in Requests(c) :
           /\ request' = [request EXCEPT ![c] = q]
           /\ view' = [view EXCEPT ![c] =
                 Reading(IF q.op = "acquire" THEN q.path ELSE PathOf(q.claim))]
    BY <1>1 DEF Start
  <2>2. q \in Request /\ q.path \in Paths /\ q.claim \in Calls
    BY <2>1 DEF Requests, Request
  <2>3. q.op # "acquire" => PathOf(q.claim) \in Paths
    <3>1. q.op # "acquire" => stage[q.claim] # "idle"
      BY <2>1, <2>2 DEF Requests, ClaimsAreSound
    <3>. QED  BY <2>2, <3>1, Targets DEF PathOf
  <2>4. view' \in [Calls -> View \cup {NoView}]
    BY <2>1, <2>2, <2>3, ReadingTyped DEF TypeOK
  <2>. QED  BY <1>1, <2>1, <2>2, <2>4 DEF TypeOK, Start, Goto, Stages, world, tables
<1>2. ASSUME NEW c \in Calls, Open(c)
      PROVE  TypeOK'
  <2>1. Reading(Path(c)) \in View
    BY <1>2, TargetPath, ReadingTyped DEF Open
  <2>2. view' \in [Calls -> View \cup {NoView}]
    BY <1>2, <2>1 DEF Open, TypeOK
  <2>. QED  BY <1>2, <2>2 DEF Open, TypeOK, world, tables
<1>3. ASSUME NEW c \in Calls, Raise(c)
      PROVE  TypeOK'
  BY <1>3 DEF Raise, Say, Goto, TypeOK, Stages, world, tables
<1>4. ASSUME NEW c \in Calls, Lookup(c) \/ RefuseChange(c) \/ ConfirmHead(c)
      PROVE  TypeOK'
  <2>1. claim' = SweptClaims(c) /\ head' = SweptHeads(c)
    BY <1>4 DEF Lookup, RefuseChange, ConfirmHead
  <2>2. claim' \in [Calls -> Claim]
    BY <2>1, SweepClaims
  <2>3. head' \in [Paths -> HeadRow]
    <3>1. CASE Paths = {}
      BY <2>1, <3>1 DEF SweptHeads
    <3>. QED  BY <2>1, <3>1, SweepHeads
  <2>. QED  BY <1>4, <2>2, <2>3 DEF Lookup, RefuseChange, ConfirmHead, Say, Goto, TypeOK, Stages, world
<1>5. ASSUME NEW c \in Calls, ReadClaim(c)
      PROVE  TypeOK'
  <2>1. view[c] \in View
    BY <1>5, AtWork DEF ReadClaim
  <2>2. [view[c] EXCEPT !.active = Active] \in View
    BY <2>1 DEF View, Active
  <2>3. view' \in [Calls -> View \cup {NoView}]
    BY <1>5, <2>2 DEF ReadClaim, TypeOK
  <2>. QED  BY <1>5, <2>3 DEF ReadClaim, Goto, TypeOK, Stages, world, tables
<1>6. ASSUME NEW c \in Calls, ReadHead(c)
      PROVE  TypeOK'
  <2>1. view[c] \in View /\ Path(c) \in Paths
    BY <1>6, AtWork, TargetPath DEF ReadHead, CallsAreSound
  <2>2. [view[c] EXCEPT !.head = head[Path(c)]] \in View
    BY <2>1 DEF View, TypeOK
  <2>3. view' \in [Calls -> View \cup {NoView}]
    BY <1>6, <2>2 DEF ReadHead, TypeOK
  <2>. QED  BY <1>6, <2>3 DEF ReadHead, Goto, TypeOK, Stages, world, tables
<1>7. ASSUME NEW c \in Calls, RefuseAcquire(c)
      PROVE  TypeOK'
  <2>1. request[c].path \in Paths /\ TrackedHead(c) \in HeadRow
    BY <1>7, AtWork, Targets, WritesTyped DEF RefuseAcquire
  <2>2. claim' \in [Calls -> Claim] /\ SweptHeads(c) \in [Paths -> HeadRow]
    BY <1>7, <2>1, SweepClaims, SweepHeads DEF RefuseAcquire
  <2>3. head' \in [Paths -> HeadRow]
    BY <1>7, <2>1, <2>2 DEF RefuseAcquire
  <2>. QED  BY <1>7, <2>2, <2>3 DEF RefuseAcquire, Say, Goto, TypeOK, Stages, world
<1>8. ASSUME NEW c \in Calls, GrantAcquire(c)
      PROVE  TypeOK'
  <2>1. request[c].path \in Paths /\ TrackedHead(c) \in HeadRow /\ InsertedClaims(c) \in [Calls -> Claim]
    BY <1>8, AtWork, Targets, WritesTyped DEF GrantAcquire, MayInsert
  <2>2. [TrackedHead(c) EXCEPT !.active = c] \in HeadRow
    BY <2>1, HeadUpdates
  <2>3. SweptHeads(c) \in [Paths -> HeadRow]
    BY <2>1, SweepHeads
  <2>4. head' \in [Paths -> HeadRow]
    BY <1>8, <2>2, <2>3 DEF GrantAcquire
  <2>5. /\ result' \in [Calls -> Result \cup {NoResult}]
        /\ view' \in [Calls -> View \cup {NoView}] /\ stage' \in [Calls -> Stages]
        /\ answer' = answer
    BY <1>8, <2>2, ReturnTyped DEF GrantAcquire, Statuses
  <2>. QED  BY <1>8, <2>1, <2>4, <2>5 DEF GrantAcquire, TypeOK, world
<1>9. ASSUME NEW c \in Calls, LoseAcquire(c)
      PROVE  TypeOK'
  <2>1. request[c].path \in Paths /\ InsertedClaims(c) \in [Calls -> Claim]
    BY <1>9, AtWork, Targets, WritesTyped DEF LoseAcquire, MayInsert
  <2>2. SweptHeads(c) \in [Paths -> HeadRow]
    BY <2>1, SweepHeads
  <2>. QED  BY <1>9, <2>1, <2>2 DEF LoseAcquire, Say, Goto, TypeOK, Stages, world
<1>10. ASSUME NEW c \in Calls, Heartbeat(c)
       PROVE  TypeOK'
  <2>1. view[c].now + request[c].lease \in Nat /\ SeenHead(c) \in HeadRow /\ Path(c) \in Paths
    BY <1>10, AtWork, Targets, TargetPath, WritesTyped DEF Heartbeat
  <2>2. [status |-> "active", due |-> view[c].now + request[c].lease, hash |-> NoHash] \in Claim
    BY <2>1 DEF Claim, Statuses
  <2>3. claim' \in [Calls -> Claim] /\ head' \in [Paths -> HeadRow]
    BY <1>10, <2>1, <2>2, WritesTyped, SweepHeads DEF Heartbeat
  <2>4. /\ result' \in [Calls -> Result \cup {NoResult}]
        /\ view' \in [Calls -> View \cup {NoView}] /\ stage' \in [Calls -> Stages]
        /\ answer' = answer
    BY <1>10, <2>1, ReturnTyped DEF Heartbeat, Statuses
  <2>. QED  BY <1>10, <2>3, <2>4 DEF Heartbeat, TypeOK, world
<1>11. ASSUME NEW c \in Calls, Complete(c)
       PROVE  TypeOK'
  <2>1. /\ SeenHead(c) \in HeadRow /\ Path(c) \in Paths
        /\ Target(c) \in Calls /\ request[c].hash \in Hashes
    BY <1>11, AtWork, Targets, TargetPath, WritesTyped DEF Complete
  <2>2. SweptClaims(c)[Target(c)] \in Claim
    BY <2>1, SweepClaims
  <2>3. [SweptClaims(c)[Target(c)] EXCEPT !.status = "completed", !.hash = request[c].hash] \in Claim
    BY <2>1, <2>2, ClaimCompletions
  <2>4. [hash |-> request[c].hash, revision |-> SeenHead(c).revision + 1, active |-> NoClaim] \in HeadRow
    BY <2>1 DEF HeadRow
  <2>5. claim' \in [Calls -> Claim] /\ head' \in [Paths -> HeadRow]
    BY <1>11, <2>3, <2>4, WritesTyped DEF Complete
  <2>6. /\ result' \in [Calls -> Result \cup {NoResult}]
        /\ view' \in [Calls -> View \cup {NoView}] /\ stage' \in [Calls -> Stages]
        /\ answer' = answer
    BY <1>11, <2>4, ReturnTyped DEF Complete, Statuses
  <2>7. events' \subseteq Calls \X Hashes
    BY <1>11, <2>1 DEF Complete, TypeOK
  <2>. QED  BY <1>11, <2>5, <2>6, <2>7 DEF Complete, TypeOK, world
<1>12. ASSUME NEW c \in Calls, Release(c)
       PROVE  TypeOK'
  <2>1. SeenHead(c) \in HeadRow /\ Path(c) \in Paths /\ Target(c) \in Calls
    BY <1>12, AtWork, Targets, TargetPath, WritesTyped DEF Release
  <2>2. SweptClaims(c)[Target(c)] \in Claim
    BY <2>1, SweepClaims
  <2>3. [SweptClaims(c)[Target(c)] EXCEPT !.status = "released"] \in Claim
    BY <2>2, ClaimUpdates DEF Statuses
  <2>4. [SeenHead(c) EXCEPT !.active = NoClaim] \in HeadRow
    BY <2>1, HeadUpdates
  <2>5. claim' \in [Calls -> Claim] /\ head' \in [Paths -> HeadRow]
    BY <1>12, <2>3, <2>4, WritesTyped DEF Release
  <2>6. /\ result' \in [Calls -> Result \cup {NoResult}]
        /\ view' \in [Calls -> View \cup {NoView}] /\ stage' \in [Calls -> Stages]
        /\ answer' = answer
    BY <1>12, <2>4, ReturnTyped DEF Release, Statuses
  <2>. QED  BY <1>12, <2>5, <2>6 DEF Release, TypeOK, world
<1>13. ASSUME NEW c \in Calls, ConfirmClaim(c)
       PROVE  TypeOK'
  <2>1. result[c] \in Result /\ Path(c) \in Paths
    BY <1>13, TargetPath DEF ConfirmClaim, CallsAreSound
  <2>2. [result[c] EXCEPT !.status = "none"] \in Result
    BY <2>1 DEF Result, Statuses
  <2>3. result' \in [Calls -> Result \cup {NoResult}]
    BY <1>13, <2>2 DEF ConfirmClaim, TypeOK
  <2>4. claim' \in [Calls -> Claim] /\ head' \in [Paths -> HeadRow]
    BY <1>13, <2>1, SweepClaims, SweepHeads DEF ConfirmClaim
  <2>. QED  BY <1>13, <2>3, <2>4 DEF ConfirmClaim, Goto, TypeOK, Stages, world
<1>14. CASE Tick
  BY <1>14 DEF Tick, TypeOK, tables
<1>15. CASE UNCHANGED vars
  BY <1>15 DEF vars, TypeOK
<1>. QED
  BY <1>1, <1>2, <1>3, <1>4, <1>5, <1>6, <1>7, <1>8, <1>9, <1>10, <1>11, <1>12, <1>13,
     <1>14, <1>15 DEF Next, Step

\* A started call keeps its request, and calls that are done writing stay so.
LEMMA RequestStep ==
    ASSUME IInv, [Next]_vars, NEW c \in Calls, stage[c] # "idle"
    PROVE  /\ request'[c] = request[c] /\ stage'[c] # "idle"
           /\ stage[c] \in {"claims", "heads", "done"} => stage'[c] \in {"claims", "heads", "done"}
<1>1. ASSUME NEW d \in Calls, Start(d) \/ Open(d) \/ Raise(d) \/ Lookup(d) \/ ReadClaim(d)
                              \/ ReadHead(d) \/ RefuseAcquire(d) \/ LoseAcquire(d)
                              \/ RefuseChange(d) \/ ConfirmClaim(d) \/ ConfirmHead(d)
      PROVE  /\ request'[c] = request[c] /\ stage'[c] # "idle"
             /\ stage[c] \in {"claims", "heads", "done"} => stage'[c] \in {"claims", "heads", "done"}
  BY <1>1 DEF IInv, TypeOK, Start, Open, Raise, Lookup, ReadClaim, ReadHead, RefuseAcquire,
     MayInsert, Ready, LoseAcquire, RefuseChange, ConfirmClaim, ConfirmHead, Say, Goto
<1>2. ASSUME NEW d \in Calls, GrantAcquire(d) \/ Heartbeat(d) \/ Complete(d) \/ Release(d)
      PROVE  /\ request'[c] = request[c] /\ stage'[c] # "idle"
             /\ stage[c] \in {"claims", "heads", "done"} => stage'[c] \in {"claims", "heads", "done"}
  BY <1>2 DEF IInv, TypeOK, GrantAcquire, Heartbeat, Complete, Release, Return, Goto
<1>3. CASE Tick \/ UNCHANGED vars
  BY <1>3 DEF Tick, vars
<1>. QED  BY <1>1, <1>2, <1>3 DEF Next, Step

\* Only Start makes an idle call busy.
LEMMA Started ==
    ASSUME IInv, [Next]_vars, NEW c \in Calls, stage[c] = "idle", stage'[c] # "idle"
    PROVE  Start(c)
<1>1. ASSUME NEW d \in Calls, Start(d) \/ Raise(d) \/ Lookup(d) \/ ReadClaim(d) \/ ReadHead(d)
                              \/ RefuseAcquire(d) \/ LoseAcquire(d) \/ RefuseChange(d)
                              \/ ConfirmClaim(d) \/ ConfirmHead(d)
      PROVE  stage'[c] # stage[c] => c = d
  BY <1>1 DEF IInv, TypeOK, Start, Raise, Lookup, ReadClaim, ReadHead, RefuseAcquire,
     LoseAcquire, RefuseChange, ConfirmClaim, ConfirmHead, Say, Goto
<1>2. ASSUME NEW d \in Calls, GrantAcquire(d) \/ Heartbeat(d) \/ Complete(d) \/ Release(d)
      PROVE  stage'[c] # stage[c] => c = d
  BY <1>2 DEF IInv, TypeOK, GrantAcquire, Heartbeat, Complete, Release, Return, Goto
<1>3. (\E d \in Calls : Open(d)) \/ Tick \/ UNCHANGED vars => stage' = stage
  BY DEF Open, Tick, vars
<1>4. Start(c) \/ Step(c)
  BY <1>1, <1>2, <1>3 DEF Next, Step
<1>5. ~InStore(c) /\ ~Ready(c)
  BY AtWork DEF IInv
<1>. QED
  BY <1>3, <1>4, <1>5 DEF Step, Raise, Lookup, ReadClaim, ReadHead, RefuseAcquire, GrantAcquire,
     LoseAcquire, MayInsert, RefuseChange, Heartbeat, Complete, Release, ConfirmClaim, ConfirmHead

\* What the operations do to one claim.
LEMMA ClaimWrites ==
    ASSUME IInv, NEW c \in Calls, NEW x \in Calls
    PROVE  /\ MayInsert(c) => claim[c].status = "none" /\ request[c].op = "acquire"
           /\ MayInsert(c) /\ x # c => InsertedClaims(c)[x] = SweptClaims(c)[x]
           /\ MayInsert(c) => InsertedClaims(c)[c].status = "active"
           /\ \A row \in Claim :
                 /\ ChangedClaims(c, row)[x] \in {SweptClaims(c)[x], row}
                 /\ ChangedClaims(c, row)[x] # SweptClaims(c)[x] =>
                       x = Target(c) /\ claim[x].status = "active"
<1>. USE DEF IInv
<1>1. SweptClaims(c) \in [Calls -> Claim]
  BY SweepClaims
<1>2. MayInsert(c) => claim[c].status = "none" /\ request[c].op = "acquire"
  BY DEF MayInsert, Ready, ClaimsAreSound, TypeOK, Claim, Statuses
<1>3. ASSUME NEW row \in Claim
      PROVE  /\ ChangedClaims(c, row)[x] \in {SweptClaims(c)[x], row}
             /\ ChangedClaims(c, row)[x] # SweptClaims(c)[x] =>
                   x = Target(c) /\ claim[x].status = "active"
  BY <1>1, SweepClaims DEF ChangedClaims
<1>. QED  BY <1>1, <1>2, <1>3 DEF InsertedClaims

\* The rows that Complete, Release and Heartbeat write are typed and not empty.
LEMMA RowsWritten ==
    ASSUME IInv, NEW c \in Calls, Ready(c)
    PROVE  /\ request[c].op # "acquire" => Target(c) \in Calls /\ Path(c) \in Paths
           /\ Heartbeat(c) => \E row \in Claim : row.status = "active" /\ claim' = ChangedClaims(c, row)
           /\ Complete(c) => \E row \in Claim :
                 row.status = "completed" /\ row.hash = request[c].hash /\ claim' = ChangedClaims(c, row)
           /\ Release(c) => \E row \in Claim : row.status = "released" /\ claim' = ChangedClaims(c, row)
<1>. USE DEF IInv
<1>1. Target(c) \in Calls /\ Path(c) \in Paths /\ request[c].hash \in Hashes
  BY AtWork, Targets, TargetPath
<1>2. SweptClaims(c)[Target(c)] \in Claim
  BY <1>1, SweepClaims
<1>3. ASSUME Heartbeat(c)
      PROVE  \E row \in Claim : row.status = "active" /\ claim' = ChangedClaims(c, row)
  <2>1. view[c].now + request[c].lease \in Nat
    BY AtWork, Targets
  <2>2. [status |-> "active", due |-> view[c].now + request[c].lease, hash |-> NoHash] \in Claim
    BY <2>1 DEF Claim, Statuses
  <2>. QED  BY <1>3, <2>2 DEF Heartbeat
<1>4. ASSUME Complete(c)
      PROVE  \E row \in Claim : row.status = "completed" /\ row.hash = request[c].hash
                                /\ claim' = ChangedClaims(c, row)
  BY <1>1, <1>2, <1>4, ClaimCompletions DEF Complete
<1>5. ASSUME Release(c)
      PROVE  \E row \in Claim : row.status = "released" /\ claim' = ChangedClaims(c, row)
  BY <1>2, <1>5, ClaimUpdates DEF Release, Statuses
<1>. QED  BY <1>1, <1>3, <1>4, <1>5

\* A claim comes into being by an acquire of its own, and never leaves; once
\* closed it does not change.
LEMMA ClaimStep ==
    ASSUME IInv, [Next]_vars, NEW x \in Calls
    PROVE  /\ claim[x].status # "none" => claim'[x].status # "none"
           /\ claim[x].status \notin {"none", "active"} => claim'[x] = claim[x]
           /\ claim[x].status = "none" /\ claim'[x].status # "none" =>
                 GrantAcquire(x) \/ LoseAcquire(x)
<1>. USE DEF IInv
<1>1. ASSUME NEW c \in Calls, claim' = SweptClaims(c)
      PROVE  /\ claim[x].status # "active" => claim'[x] = claim[x]
             /\ claim[x].status = "active" => claim'[x].status # "none"
  BY <1>1, SweepClaims
<1>2. ASSUME NEW c \in Calls, GrantAcquire(c) \/ LoseAcquire(c)
      PROVE  /\ claim[x].status # "none" => claim'[x].status # "none"
             /\ claim[x].status \notin {"none", "active"} => claim'[x] = claim[x]
             /\ claim[x].status = "none" /\ claim'[x].status # "none" => x = c
  <2>1. MayInsert(c) /\ claim' = InsertedClaims(c)
    BY <1>2 DEF GrantAcquire, LoseAcquire
  <2>. QED  BY <2>1, ClaimWrites, SweepClaims
<1>3. ASSUME NEW c \in Calls, Heartbeat(c) \/ Complete(c) \/ Release(c)
      PROVE  /\ claim[x].status # "active" => claim'[x] = claim[x]
             /\ claim[x].status = "active" => claim'[x].status # "none"
  <2>1. PICK row \in Claim : row.status # "none" /\ claim' = ChangedClaims(c, row)
    <3>1. Ready(c)
      BY <1>3 DEF Heartbeat, Complete, Release
    <3>. QED  BY <1>3, <3>1, RowsWritten
  <2>. QED  BY <2>1, ClaimWrites, SweepClaims
<1>4. ASSUME NEW c \in Calls, Lookup(c) \/ RefuseAcquire(c) \/ RefuseChange(c)
                              \/ ConfirmClaim(c) \/ ConfirmHead(c)
      PROVE  claim' = SweptClaims(c)
  BY <1>4 DEF Lookup, RefuseAcquire, RefuseChange, ConfirmClaim, ConfirmHead
<1>5. ASSUME NEW c \in Calls, Start(c) \/ Open(c) \/ Raise(c) \/ ReadClaim(c) \/ ReadHead(c)
      PROVE  claim' = claim
  BY <1>5 DEF Start, Open, Raise, ReadClaim, ReadHead, tables
<1>6. CASE Tick \/ UNCHANGED vars
  BY <1>6 DEF Tick, vars, tables
<1>. QED  BY <1>1, <1>2, <1>3, <1>4, <1>5, <1>6 DEF Next, Step

\* Claims stay sound.
LEMMA ClaimsStep ==
    ASSUME IInv, [Next]_vars
    PROVE  ClaimsAreSound'
<1>. USE DEF IInv
<1>1. SUFFICES ASSUME NEW c \in Calls
      PROVE  /\ claim'[c].status # "none" =>
                   stage'[c] \in {"claims", "heads", "done"} /\ request'[c].op = "acquire"
             /\ stage'[c] # "idle" /\ request'[c].op # "acquire" =>
                   claim'[request'[c].claim].status # "none"
  BY DEF ClaimsAreSound
<1>2. claim'[c].status # "none" =>
         stage'[c] \in {"claims", "heads", "done"} /\ request'[c].op = "acquire"
  <2>1. CASE claim[c].status # "none"
    <3>1. stage[c] \in {"claims", "heads", "done"} /\ request[c].op = "acquire"
      BY <2>1 DEF ClaimsAreSound
    <3>. QED  BY <3>1, RequestStep
  <2>2. CASE GrantAcquire(c) \/ LoseAcquire(c)
    BY <2>2, ClaimWrites DEF GrantAcquire, LoseAcquire, Return, Say, Goto, TypeOK
  <2>. QED  BY <2>1, <2>2, ClaimStep
<1>3. stage'[c] # "idle" /\ request'[c].op # "acquire" =>
         claim'[request'[c].claim].status # "none"
  <2>1. CASE stage[c] # "idle"
    <3>1. request'[c] = request[c] /\ request[c].claim \in Calls
      BY <2>1, RequestStep, Targets
    <3>. QED  BY <2>1, <3>1, ClaimStep DEF ClaimsAreSound
  <2>2. CASE stage[c] = "idle" /\ stage'[c] # "idle"
    <3>1. Start(c)
      BY <2>2, Started
    <3>2. PICK q \in Requests(c) : request' = [request EXCEPT ![c] = q] /\ claim' = claim
      BY <3>1 DEF Start, tables
    <3>. QED  BY <3>2 DEF Requests, TypeOK
  <2>. QED  BY <2>1, <2>2
<1>. QED  BY <1>2, <1>3

\* What a step does to a call.
LEMMA CallStep ==
    ASSUME IInv, [Next]_vars, NEW c \in Calls
    PROVE  \/ Step(c)
           \/ stage'[c] = stage[c] /\ request'[c] = request[c] /\ view'[c] = view[c] /\ result'[c] = result[c]
<1>1. ASSUME NEW d \in Calls \ {c}, Start(d) \/ Open(d) \/ Raise(d) \/ Lookup(d) \/ ReadClaim(d)
                                    \/ ReadHead(d) \/ RefuseAcquire(d) \/ LoseAcquire(d)
                                    \/ RefuseChange(d) \/ ConfirmClaim(d) \/ ConfirmHead(d)
      PROVE  stage'[c] = stage[c] /\ request'[c] = request[c] /\ view'[c] = view[c] /\ result'[c] = result[c]
  BY <1>1 DEF IInv, TypeOK, Start, Open, Raise, Lookup, ReadClaim, ReadHead, RefuseAcquire,
     LoseAcquire, RefuseChange, ConfirmClaim, ConfirmHead, Say, Goto
<1>2. ASSUME NEW d \in Calls \ {c}, GrantAcquire(d) \/ Heartbeat(d) \/ Complete(d) \/ Release(d)
      PROVE  stage'[c] = stage[c] /\ request'[c] = request[c] /\ view'[c] = view[c] /\ result'[c] = result[c]
  BY <1>2 DEF IInv, TypeOK, GrantAcquire, Heartbeat, Complete, Release, Return, Goto
<1>3. CASE Tick \/ UNCHANGED vars
  BY <1>3 DEF Tick, vars
<1>. QED  BY <1>1, <1>2, <1>3 DEF Next, Step

\* Calls stay sound.
LEMMA CallsStep ==
    ASSUME IInv, [Next]_vars
    PROVE  CallsAreSound'
<1>. USE DEF IInv
<1>1. TypeOK' /\ deployment' = deployment
  <2>1. deployment' = deployment
    BY DEF Next, Step, Start, Open, Raise, Lookup, ReadClaim, ReadHead, RefuseAcquire,
       GrantAcquire, LoseAcquire, RefuseChange, Heartbeat, Complete, Release, ConfirmClaim,
       ConfirmHead, Tick, vars, world
  <2>. QED  BY <2>1, TypeStep
<1>2. SUFFICES ASSUME NEW c \in Calls
      PROVE  /\ stage'[c] # "idle" => request'[c] \in Request
             /\ view'[c] # NoView => view'[c] \in View /\ stage'[c] # "idle"
             /\ stage'[c] = "lookup" => view'[c] # NoView /\ request'[c].op # "acquire"
             /\ stage'[c] \in {"claimRead", "headRead"} =>
                   /\ view'[c] # NoView /\ ~deployment'.snapshot
                   /\ request'[c].op # "acquire" /\ view'[c].overdue = {}
             /\ stage'[c] \in {"claims", "heads"} => result'[c] \in Result
  BY DEF CallsAreSound, InStore
<1>3. view'[c] \in View \cup {NoView} /\ result'[c] \in Result \cup {NoResult}
  BY <1>1 DEF TypeOK
<1>4. CASE stage'[c] = stage[c] /\ request'[c] = request[c] /\ view'[c] = view[c] /\ result'[c] = result[c]
  BY <1>1, <1>4 DEF CallsAreSound, InStore
<1>5. CASE Start(c)
  <2>1. PICK q \in Requests(c) :
           /\ request' = [request EXCEPT ![c] = q]
           /\ stage' = [stage EXCEPT ![c] = IF q.op = "acquire" THEN "operate" ELSE "lookup"]
           /\ view' = [view EXCEPT ![c] =
                 Reading(IF q.op = "acquire" THEN q.path ELSE PathOf(q.claim))]
    BY <1>5 DEF Start, Goto
  <2>2. q \in Request /\ request'[c] = q /\ stage'[c] = IF q.op = "acquire" THEN "operate" ELSE "lookup"
    BY <2>1 DEF Requests, TypeOK
  <2>3. \E p \in Paths : view'[c] = Reading(p)
    <3>1. view'[c] = Reading(IF q.op = "acquire" THEN q.path ELSE PathOf(q.claim))
      BY <2>1 DEF TypeOK
    <3>2. q.path \in Paths /\ q.claim \in Calls
      BY <2>2 DEF Request
    <3>3. q.op # "acquire" => PathOf(q.claim) \in Paths
      <4>1. q.op # "acquire" => stage[q.claim] # "idle"
        BY <2>1, <3>2 DEF Requests, ClaimsAreSound
      <4>. QED  BY <3>2, <4>1, Targets DEF PathOf
    <3>. QED  BY <3>1, <3>2, <3>3
  <2>. QED  BY <1>3, <2>2, <2>3, ReadingTyped
<1>6. ASSUME stage[c] # "idle"
      PROVE  request'[c] = request[c] /\ stage'[c] # "idle" /\ request[c] \in Request
  BY <1>6, RequestStep, Targets
<1>7. CASE Open(c)
  <2>1. stage'[c] \in {"operate", "claims", "heads"} /\ result'[c] = result[c] /\ stage'[c] = stage[c]
    BY <1>7 DEF Open
  <2>. QED  BY <1>3, <1>6, <2>1 DEF CallsAreSound
<1>8. CASE Raise(c) \/ RefuseAcquire(c) \/ LoseAcquire(c) \/ RefuseChange(c) \/ ConfirmHead(c)
  <2>1. view'[c] = NoView /\ stage'[c] = "done"
    BY <1>8 DEF Raise, RefuseAcquire, LoseAcquire, RefuseChange, ConfirmHead, Say, Goto, TypeOK
  <2>2. stage[c] # "idle"
    BY <1>8, AtWork DEF Raise, RefuseAcquire, LoseAcquire, MayInsert, RefuseChange, ConfirmHead
  <2>. QED  BY <1>6, <2>1, <2>2
<1>9. CASE Lookup(c)
  <2>1. view'[c] = NoView /\ stage'[c] \in {"done", "operate"}
    BY <1>9 DEF Lookup, Say, Goto, TypeOK
  <2>. QED  BY <1>6, <1>9, <2>1 DEF Lookup
<1>10. CASE ReadClaim(c)
  <2>1. /\ ~deployment.snapshot /\ request[c].op # "acquire" /\ view[c].overdue = {}
        /\ view[c] \in View /\ stage[c] # "idle"
    BY <1>10, AtWork DEF ReadClaim
  <2>2. view'[c] = [view[c] EXCEPT !.active = Active] /\ stage'[c] = "claimRead"
    BY <1>10 DEF ReadClaim, Goto, TypeOK
  <2>3. view'[c] \in View /\ view'[c].overdue = {}
    BY <2>1, <2>2 DEF View, Active
  <2>. QED  BY <1>1, <1>6, <2>1, <2>2, <2>3, ConstantsAssumption
<1>11. CASE ReadHead(c)
  <2>1. /\ ~deployment.snapshot /\ request[c].op # "acquire" /\ view[c].overdue = {}
        /\ view[c] \in View /\ stage[c] # "idle" /\ Path(c) \in Paths
    BY <1>11, TargetPath DEF ReadHead, CallsAreSound
  <2>2. view'[c] = [view[c] EXCEPT !.head = head[Path(c)]] /\ stage'[c] = "headRead"
    BY <1>11 DEF ReadHead, Goto, TypeOK
  <2>3. view'[c] \in View /\ view'[c].overdue = {}
    BY <2>1, <2>2 DEF View, TypeOK
  <2>. QED  BY <1>1, <1>6, <2>1, <2>2, <2>3, ConstantsAssumption
<1>12. CASE GrantAcquire(c) \/ Heartbeat(c) \/ Complete(c) \/ Release(c)
  <2>1. Ready(c)
    BY <1>12 DEF GrantAcquire, MayInsert, Heartbeat, Complete, Release
  <2>2. stage'[c] = "claims" /\ view'[c] = NoView /\ result'[c] # NoResult
    <3>1. PICK t \in Statuses, row \in HeadRow : Return(c, t, row)
      BY <1>12, <2>1, ReturnRows
    <3>. QED  BY <3>1, ReturnTyped, ConstantsAssumption DEF Return, Goto, TypeOK
  <2>. QED  BY <1>3, <1>6, <2>1, <2>2, AtWork
<1>13. CASE ConfirmClaim(c)
  <2>1. view'[c] = NoView /\ stage'[c] = "heads" /\ stage[c] = "claims"
    BY <1>13 DEF ConfirmClaim, Goto, TypeOK
  <2>2. result[c] \in Result
    BY <2>1 DEF CallsAreSound
  <2>3. [result[c] EXCEPT !.status = "none"] \in Result
    BY <2>2 DEF Result, Statuses
  <2>4. result'[c] \in {result[c], [result[c] EXCEPT !.status = "none"]}
    BY <1>13 DEF ConfirmClaim, TypeOK
  <2>. QED  BY <1>6, <2>1, <2>2, <2>3, <2>4
<1>. QED
  BY <1>4, <1>5, <1>7, <1>8, <1>9, <1>10, <1>11, <1>12, <1>13, CallStep DEF Step

----------------------------------------------------------------------------
(* Heads                                                                   *)

\* After a sweep a head either is as it was, and names what is active if it
\* names anything, or it named a claim that has expired.
LEMMA SweepHead ==
    ASSUME IInv, NEW c \in Calls, NEW p \in Paths
    PROVE  \/ /\ SweptHeads(c)[p] = head[p]
              /\ head[p].active # NoClaim =>
                    SweptClaims(c)[head[p].active] = claim[head[p].active]
           \/ /\ head[p].active # NoClaim
              /\ SweptClaims(c)[head[p].active].status # "active"
              /\ SweptHeads(c)[p].active = NoClaim
              /\ SweptHeads(c)[p].hash = head[p].hash
              /\ SweptHeads(c)[p].revision = head[p].revision
              /\ head[p].active \in view[c].overdue
<1>. USE DEF IInv
<1>1. CASE head[p].active = NoClaim
  <2>1. SweptHeads(c)[p] = head[p]
    BY <1>1, SweepHeads DEF SweptHeads, TypeOK, HeadRow
  <2>. QED  BY <1>1, <2>1
<1>2. CASE head[p].active # NoClaim
  <2>1. head[p].active \in Calls /\ claim[head[p].active].status = "active"
    BY <1>2 DEF HeadsAreSound
  <2>. QED  BY <1>2, <2>1, SweepHeads, SweepClaims
<1>. QED  BY <1>1, <1>2

\* What a step does to a head and to the claim that it names: nothing, ...
HeadKept(p) ==
    /\ head'[p] = head[p]
    /\ head[p].active # NoClaim => claim'[head[p].active].status = "active"

\* ... the claim has expired or was released, ...
HeadFreed(p) ==
    /\ head[p].active # NoClaim
    /\ claim'[head[p].active].status # "active"
    /\ head'[p].active = NoClaim
    /\ head'[p].hash = head[p].hash
    /\ head'[p].revision = head[p].revision

\* ... it is completed with a hash, ...
HeadCompleted(p) ==
    LET x == head[p].active IN
    /\ x # NoClaim
    /\ claim'[x] = [claim[x] EXCEPT !.status = "completed", !.hash = head'[p].hash]
    /\ head'[p].hash \in Hashes
    /\ head'[p].revision = head[p].revision + 1
    /\ head'[p].active = NoClaim

\* ... the path is granted to a new claim, ...
HeadGranted(p) ==
    \E c \in Calls :
        /\ GrantAcquire(c)
        /\ claim[c].status = "none" /\ claim'[c].status = "active" /\ PathOf(c) = p
        /\ head'[p].active = c /\ head'[p].hash = request[c].hash
        /\ request[c].hash \in Hashes
        /\ head[p].hash # NoHash =>
              head'[p].hash = head[p].hash /\ head'[p].revision = head[p].revision
        /\ head[p].hash = NoHash => head'[p].revision = 0
        /\ head[p].active # NoClaim => claim'[head[p].active].status # "active"

\* ... or it is tracked from now on.
HeadTracked(p) ==
    /\ head[p].hash = NoHash /\ head'[p].hash \in Hashes
    /\ head[p].active = NoClaim /\ head'[p].active = NoClaim
    /\ head'[p].revision = 0

\* What a step that only sweeps does to a head.
LEMMA SweepStep ==
    ASSUME IInv, NEW c \in Calls, NEW p \in Paths,
           head'[p] = SweptHeads(c)[p],
           head[p].active # NoClaim =>
              (claim'[head[p].active].status = "active"
                 <=> SweptClaims(c)[head[p].active].status = "active")
    PROVE  HeadKept(p) \/ HeadFreed(p)
<1>1. head[p].active # NoClaim => claim[head[p].active].status = "active"
  BY DEF IInv, HeadsAreSound
<1>. QED  BY <1>1, SweepHead DEF HeadKept, HeadFreed

\* A change that misses the head misses the claim that the head names.
LEMMA ChangedElsewhere ==
    ASSUME IInv, NEW c \in Calls, NEW p \in Paths, Ready(c), request[c].op # "acquire",
           NEW row \in Claim, head[p].active # NoClaim,
           ~(p = Path(c) /\ SweptHeads(c)[p].active = Target(c))
    PROVE  ChangedClaims(c, row)[head[p].active] = SweptClaims(c)[head[p].active]
<1>. DEFINE x == head[p].active
<1>1. x \in Calls /\ PathOf(x) = p
  BY DEF IInv, HeadsAreSound
<1>2. ASSUME x = Target(c)
      PROVE  SweptClaims(c)[x].status # "active"
  BY <1>1, <1>2, SweepHead DEF Path
<1>3. SweptClaims(c) \in [Calls -> Claim]
  BY SweepClaims DEF IInv
<1>. QED  BY <1>1, <1>2, <1>3 DEF ChangedClaims

\* A completion whose claim the head still names writes both rows.
LEMMA CompleteHits ==
    ASSUME IInv, NEW c \in Calls, Complete(c), SweptHeads(c)[Path(c)].active = Target(c)
    PROVE  LET p == Path(c)
               x == Target(c) IN
           /\ head[p].active = x /\ claim[x].status = "active" /\ HeadCompleted(p)
           /\ SeenHead(c) = head[p] /\ head'[p].hash = request[c].hash
<1>. USE DEF IInv
<1>. DEFINE p == Path(c)
<1>1. /\ Ready(c) /\ request[c].op = "complete" /\ MayChange(c)
      /\ claim' = ChangedClaims(c, [SweptClaims(c)[Target(c)] EXCEPT
                                       !.status = "completed", !.hash = request[c].hash])
      /\ head' = ChangedHeads(c, [hash |-> request[c].hash, revision |-> SeenHead(c).revision + 1,
                                  active |-> NoClaim])
  BY DEF Complete
<1>2. /\ Target(c) \in Calls /\ p \in Paths /\ request[c].hash \in Hashes
      /\ InStore(c) /\ Target(c) = request[c].claim /\ stage[c] # "idle"
  BY <1>1, RowsWritten, AtWork, Targets
<1>3. SweptClaims(c) \in [Calls -> Claim] /\ SweptHeads(c) \in [Paths -> HeadRow]
  BY <1>2, SweepClaims, SweepHeads
<1>4. head'[p] = [hash |-> request[c].hash, revision |-> SeenHead(c).revision + 1, active |-> NoClaim]
  BY <1>1, <1>2, <1>3 DEF ChangedHeads
<1>5. Target(c) # NoClaim
  BY <1>2, ConstantsAssumption
<1>6. /\ SweptHeads(c)[p] = head[p] /\ head[p].active = Target(c)
      /\ SweptClaims(c)[Target(c)] = claim[Target(c)]
  BY <1>2, <1>5, SweepHead
<1>7. claim[Target(c)].status = "active"
  BY <1>2, <1>5, <1>6 DEF HeadsAreSound
<1>8. claim'[Target(c)] = [claim[Target(c)] EXCEPT !.status = "completed", !.hash = request[c].hash]
  BY <1>1, <1>2, <1>3, <1>6, <1>7 DEF ChangedClaims
<1>9. SeenHead(c) = head[p]
  <2>1. CASE stage[c] = "headRead" \/ deployment.snapshot
    <3>1. SeenHead(c) = view[c].head /\ view[c].head.active = Target(c)
      BY <1>1, <2>1 DEF SeenHead, MayChange
    <3>. QED  BY <1>1, <1>2, <1>6, <3>1 DEF ViewsAreSound
  <2>2. CASE ~(stage[c] = "headRead" \/ deployment.snapshot)
    BY <1>6, <2>2 DEF SeenHead
  <2>. QED  BY <2>1, <2>2
<1>. QED  BY <1>2, <1>4, <1>5, <1>6, <1>7, <1>8, <1>9 DEF HeadCompleted

\* Completion compares and swaps.
LEMMA CompleteStep ==
    ASSUME IInv, NEW c \in Calls, NEW p \in Paths, Complete(c)
    PROVE  HeadKept(p) \/ HeadFreed(p) \/ HeadCompleted(p)
<1>. USE DEF IInv
<1>1. /\ Ready(c) /\ request[c].op = "complete"
      /\ head' = ChangedHeads(c, [hash |-> request[c].hash, revision |-> SeenHead(c).revision + 1,
                                  active |-> NoClaim])
  BY DEF Complete
<1>2. SweptHeads(c) \in [Paths -> HeadRow]
  BY SweepHeads
<1>3. CASE p = Path(c) /\ SweptHeads(c)[p].active = Target(c)
  BY <1>3, CompleteHits
<1>4. CASE ~(p = Path(c) /\ SweptHeads(c)[p].active = Target(c))
  <2>1. head'[p] = SweptHeads(c)[p]
    BY <1>1, <1>2, <1>4 DEF ChangedHeads
  <2>2. ASSUME head[p].active # NoClaim
        PROVE  claim'[head[p].active].status = "active"
                 <=> SweptClaims(c)[head[p].active].status = "active"
    <3>1. PICK row \in Claim : claim' = ChangedClaims(c, row)
      BY <1>1, RowsWritten
    <3>. QED  BY <1>1, <1>4, <2>2, <3>1, ChangedElsewhere
  <2>. QED  BY <2>1, <2>2, SweepStep
<1>. QED  BY <1>3, <1>4

\* A release takes the claim from its head.
LEMMA ReleaseStep ==
    ASSUME IInv, NEW c \in Calls, NEW p \in Paths, Release(c)
    PROVE  HeadKept(p) \/ HeadFreed(p)
<1>. USE DEF IInv
<1>1. /\ Ready(c) /\ request[c].op # "acquire" /\ MayChange(c)
      /\ claim' = ChangedClaims(c, [SweptClaims(c)[Target(c)] EXCEPT !.status = "released"])
      /\ head' = ChangedHeads(c, [SeenHead(c) EXCEPT !.active = NoClaim])
  BY DEF Release
<1>2. Target(c) \in Calls /\ Path(c) \in Paths /\ InStore(c)
  BY <1>1, RowsWritten, AtWork
<1>3. SweptClaims(c) \in [Calls -> Claim] /\ SweptHeads(c) \in [Paths -> HeadRow] /\ SeenHead(c) \in HeadRow
  BY <1>1, <1>2, SweepClaims, SweepHeads, WritesTyped
<1>4. CASE p = Path(c) /\ SweptHeads(c)[p].active = Target(c)
  <2>1. head'[p] = [SeenHead(c) EXCEPT !.active = NoClaim]
    BY <1>1, <1>3, <1>4 DEF ChangedHeads
  <2>2. Target(c) # NoClaim
    BY <1>2, ConstantsAssumption
  <2>3. /\ SweptHeads(c)[p] = head[p] /\ head[p].active = Target(c)
        /\ SweptClaims(c)[Target(c)] = claim[Target(c)]
    BY <1>4, <2>2, SweepHead
  <2>4. claim'[Target(c)].status = "released"
    <3>1. claim[Target(c)].status = "active" /\ claim[Target(c)] \in Claim
      BY <1>2, <2>2, <2>3 DEF HeadsAreSound, TypeOK
    <3>2. claim'[Target(c)] = [claim[Target(c)] EXCEPT !.status = "released"]
      BY <1>1, <1>2, <1>3, <2>3, <3>1 DEF ChangedClaims
    <3>. QED  BY <3>1, <3>2, ClaimUpdates DEF Statuses
  <2>5. SeenHead(c) = head[p]
    <3>1. CASE stage[c] = "headRead" \/ deployment.snapshot
      <4>1. SeenHead(c) = view[c].head /\ view[c].head.active = Target(c)
        BY <1>1, <3>1 DEF SeenHead, MayChange
      <4>2. Target(c) = request[c].claim
        BY <1>1 DEF Target
      <4>. QED  BY <1>1, <1>2, <1>4, <2>3, <4>1, <4>2 DEF ViewsAreSound
    <3>2. CASE ~(stage[c] = "headRead" \/ deployment.snapshot)
      BY <1>4, <2>3, <3>2 DEF SeenHead
    <3>. QED  BY <3>1, <3>2
  <2>6. /\ head'[p].active = NoClaim /\ head'[p].hash = head[p].hash
        /\ head'[p].revision = head[p].revision
    BY <1>3, <2>1, <2>5, HeadUpdates
  <2>. QED  BY <2>2, <2>3, <2>4, <2>6 DEF HeadFreed
<1>5. CASE ~(p = Path(c) /\ SweptHeads(c)[p].active = Target(c))
  <2>1. head'[p] = SweptHeads(c)[p]
    BY <1>1, <1>3, <1>5 DEF ChangedHeads
  <2>2. ASSUME head[p].active # NoClaim
        PROVE  claim'[head[p].active].status = "active"
                 <=> SweptClaims(c)[head[p].active].status = "active"
    <3>1. PICK row \in Claim : claim' = ChangedClaims(c, row)
      BY <1>1, RowsWritten
    <3>. QED  BY <1>1, <1>5, <2>2, <3>1, ChangedElsewhere
  <2>. QED  BY <2>1, <2>2, SweepStep
<1>. QED  BY <1>4, <1>5

\* An extension leaves the heads to the sweep.
LEMMA HeartbeatStep ==
    ASSUME IInv, NEW c \in Calls, NEW p \in Paths, Heartbeat(c)
    PROVE  HeadKept(p) \/ HeadFreed(p)
<1>. USE DEF IInv
<1>1. Ready(c) /\ request[c].op # "acquire" /\ head' = SweptHeads(c)
  BY DEF Heartbeat
<1>2. PICK row \in Claim : row.status = "active" /\ claim' = ChangedClaims(c, row)
  BY <1>1, RowsWritten
<1>3. SweptClaims(c) \in [Calls -> Claim]
  BY SweepClaims
<1>4. ASSUME head[p].active # NoClaim
      PROVE  claim'[head[p].active].status = "active"
               <=> SweptClaims(c)[head[p].active].status = "active"
  <2>1. head[p].active \in Calls
    BY <1>4 DEF HeadsAreSound
  <2>. QED  BY <1>2, <1>3, <2>1 DEF ChangedClaims
<1>. QED  BY <1>1, <1>4, SweepStep

\* What an acquire reads and tracks.
LEMMA TrackedRow ==
    ASSUME IInv, NEW c \in Calls, Ready(c), request[c].op = "acquire"
    PROVE  LET p == request[c].path IN
           /\ p \in Paths /\ PathOf(c) = p /\ request[c].hash \in Hashes
           /\ TrackedHead(c) \in HeadRow
           /\ head[p].hash # NoHash => TrackedHead(c) = SweptHeads(c)[p]
           /\ head[p].hash = NoHash =>
                 /\ head[p].active = NoClaim /\ TrackedHead(c).active = NoClaim
                 /\ TrackedHead(c).hash = request[c].hash /\ TrackedHead(c).revision = 0
<1>. USE DEF IInv
<1>1. request[c].path \in Paths /\ request[c].hash \in Hashes /\ TrackedHead(c) \in HeadRow
  BY AtWork, Targets, WritesTyped
<1>2. SweptHeads(c)[request[c].path].hash = head[request[c].path].hash
  BY <1>1, SweepHeads
<1>3. head[request[c].path].hash = NoHash => head[request[c].path].active = NoClaim
  BY <1>1 DEF HeadsAreSound
<1>. QED  BY <1>1, <1>2, <1>3 DEF TrackedHead, PathOf

\* A refused acquire may have tracked its path.
LEMMA RefuseAcquireStep ==
    ASSUME IInv, NEW c \in Calls, NEW p \in Paths, RefuseAcquire(c)
    PROVE  HeadKept(p) \/ HeadFreed(p) \/ HeadTracked(p)
<1>. USE DEF IInv
<1>1. Ready(c) /\ request[c].op = "acquire" /\ claim' = SweptClaims(c)
  BY DEF RefuseAcquire
<1>2. SweptHeads(c) \in [Paths -> HeadRow]
  BY SweepHeads
<1>3. CASE head'[p] = SweptHeads(c)[p]
  BY <1>1, <1>3, SweepStep
<1>4. CASE p = request[c].path /\ head'[p] = TrackedHead(c)
  <2>1. CASE head[p].hash = NoHash
    BY <1>1, <1>4, <2>1, TrackedRow DEF HeadTracked
  <2>2. CASE head[p].hash # NoHash
    <3>1. head'[p] = SweptHeads(c)[p]
      BY <1>1, <1>4, <2>2, TrackedRow
    <3>. QED  BY <1>1, <3>1, SweepStep
  <2>. QED  BY <2>1, <2>2
<1>. QED  BY <1>2, <1>3, <1>4 DEF RefuseAcquire

\* A granted acquire finds no claim on the head, or one that has expired.
LEMMA GrantStep ==
    ASSUME IInv, NEW c \in Calls, NEW p \in Paths, GrantAcquire(c)
    PROVE  HeadKept(p) \/ HeadFreed(p) \/ HeadGranted(p)
<1>. USE DEF IInv
<1>1. /\ MayInsert(c) /\ Ready(c) /\ request[c].op = "acquire"
      /\ TrackedHead(c).active = NoClaim /\ TrackedHead(c).hash = request[c].hash
      /\ claim' = InsertedClaims(c)
      /\ head' = [SweptHeads(c) EXCEPT ![request[c].path] = [TrackedHead(c) EXCEPT !.active = c]]
  BY DEF GrantAcquire, MayInsert
<1>2. SweptHeads(c) \in [Paths -> HeadRow] /\ claim[c].status = "none" /\ claim'[c].status = "active"
  BY <1>1, SweepHeads, ClaimWrites
<1>3. ASSUME head[p].active # NoClaim
      PROVE  claim'[head[p].active] = SweptClaims(c)[head[p].active]
  <2>1. head[p].active \in Calls /\ claim[head[p].active].status = "active"
    BY <1>3 DEF HeadsAreSound
  <2>. QED  BY <1>1, <1>2, <2>1, ClaimWrites
<1>4. CASE p # request[c].path
  <2>1. head'[p] = SweptHeads(c)[p]
    BY <1>1, <1>2, <1>4
  <2>. QED  BY <1>3, <2>1, SweepStep
<1>5. CASE p = request[c].path
  <2>1. head'[p] = [TrackedHead(c) EXCEPT !.active = c]
    BY <1>1, <1>2, <1>5
  <2>2. /\ head'[p].active = c /\ head'[p].hash = TrackedHead(c).hash
        /\ head'[p].revision = TrackedHead(c).revision
    <3>1. TrackedHead(c) \in HeadRow /\ c \in Calls \cup {NoClaim}
      BY <1>1, TrackedRow
    <3>. QED  BY <2>1, <3>1, HeadUpdates
  <2>3. head[p].hash # NoHash =>
           head'[p].hash = head[p].hash /\ head'[p].revision = head[p].revision
    BY <1>1, <1>5, <2>2, TrackedRow, SweepHeads
  <2>4. ASSUME head[p].active # NoClaim
        PROVE  claim'[head[p].active].status # "active"
    <3>1. SweptHeads(c)[p].active = NoClaim
      BY <1>1, <1>5, <2>4, TrackedRow
    <3>. QED  BY <1>3, <2>4, <3>1, SweepHead
  <2>5. head[p].hash = NoHash => head'[p].revision = 0
    BY <1>1, <1>5, <2>2, TrackedRow
  <2>. QED  BY <1>1, <1>2, <1>5, <2>2, <2>3, <2>4, <2>5, TrackedRow DEF HeadGranted
<1>. QED  BY <1>4, <1>5

\* What any step does to a head.
LEMMA HeadStep ==
    ASSUME IInv, [Next]_vars, NEW p \in Paths
    PROVE  HeadKept(p) \/ HeadFreed(p) \/ HeadCompleted(p) \/ HeadGranted(p) \/ HeadTracked(p)
<1>1. ASSUME NEW c \in Calls, Lookup(c) \/ RefuseChange(c) \/ ConfirmClaim(c) \/ ConfirmHead(c)
      PROVE  HeadKept(p) \/ HeadFreed(p)
  <2>1. claim' = SweptClaims(c) /\ head' = SweptHeads(c)
    BY <1>1 DEF Lookup, RefuseChange, ConfirmClaim, ConfirmHead
  <2>. QED  BY <2>1, SweepStep
<1>2. ASSUME NEW c \in Calls, LoseAcquire(c)
      PROVE  HeadKept(p) \/ HeadFreed(p)
  <2>1. MayInsert(c) /\ claim' = InsertedClaims(c) /\ head' = SweptHeads(c)
    BY <1>2 DEF LoseAcquire
  <2>2. ASSUME head[p].active # NoClaim
        PROVE  claim'[head[p].active] = SweptClaims(c)[head[p].active]
    <3>1. head[p].active \in Calls /\ claim[head[p].active].status = "active"
      BY <2>2 DEF IInv, HeadsAreSound
    <3>2. claim[c].status = "none"
      BY <2>1, ClaimWrites
    <3>. QED  BY <2>1, <3>1, <3>2, ClaimWrites
  <2>. QED  BY <2>1, <2>2, SweepStep
<1>3. ASSUME claim' = claim, head' = head
      PROVE  HeadKept(p)
  BY <1>3 DEF HeadKept, IInv, HeadsAreSound
<1>4. ASSUME NEW c \in Calls, Start(c) \/ Open(c) \/ Raise(c) \/ ReadClaim(c) \/ ReadHead(c)
      PROVE  claim' = claim /\ head' = head
  BY <1>4 DEF Start, Open, Raise, ReadClaim, ReadHead, tables
<1>5. Tick \/ UNCHANGED vars => claim' = claim /\ head' = head
  BY DEF Tick, vars, tables
<1>6. ASSUME NEW c \in Calls, RefuseAcquire(c) \/ GrantAcquire(c) \/ Heartbeat(c) \/ Complete(c)
                              \/ Release(c)
      PROVE  HeadKept(p) \/ HeadFreed(p) \/ HeadCompleted(p) \/ HeadGranted(p) \/ HeadTracked(p)
  BY <1>6, RefuseAcquireStep, GrantStep, HeartbeatStep, CompleteStep, ReleaseStep
<1>. QED  BY <1>1, <1>2, <1>3, <1>4, <1>5, <1>6 DEF Next, Step

\* Heads stay sound.
LEMMA HeadsStep ==
    ASSUME IInv, [Next]_vars
    PROVE  HeadsAreSound'
<1>. USE DEF IInv
<1>1. SUFFICES ASSUME NEW p \in Paths
      PROVE  /\ head'[p].hash = NoHash => head'[p].active = NoClaim
             /\ head'[p].active # NoClaim =>
                   /\ head'[p].active \in Calls
                   /\ claim'[head'[p].active].status = "active"
                   /\ request'[head'[p].active].path = p
                   /\ request'[head'[p].active].hash = head'[p].hash
  BY DEF HeadsAreSound, PathOf
<1>2. /\ head[p].hash = NoHash => head[p].active = NoClaim
      /\ head[p].active # NoClaim =>
            /\ head[p].active \in Calls
            /\ claim[head[p].active].status = "active"
            /\ request[head[p].active].path = p
            /\ request[head[p].active].hash = head[p].hash
  BY DEF HeadsAreSound, PathOf
<1>3. ASSUME NEW x \in Calls, claim[x].status # "none" \/ GrantAcquire(x)
      PROVE  request'[x] = request[x]
  <2>1. stage[x] # "idle"
    BY <1>3, AtWork DEF ClaimsAreSound, GrantAcquire, MayInsert
  <2>. QED  BY <2>1, RequestStep
<1>4. CASE HeadKept(p)
  BY <1>2, <1>3, <1>4 DEF HeadKept
<1>5. CASE HeadFreed(p)
  BY <1>2, <1>5 DEF HeadFreed
<1>6. CASE HeadCompleted(p)
  BY <1>6, ConstantsAssumption DEF HeadCompleted
<1>7. CASE HeadGranted(p)
  BY <1>3, <1>7, ConstantsAssumption DEF HeadGranted, PathOf
<1>8. CASE HeadTracked(p)
  BY <1>8, ConstantsAssumption DEF HeadTracked
<1>. QED  BY <1>4, <1>5, <1>6, <1>7, <1>8, HeadStep

\* A call sees a head of the present tables, or the one it has seen before.
LEMMA ViewTaken ==
    ASSUME IInv, [Next]_vars, NEW c \in Calls, view'[c] # NoView, request'[c].op # "acquire"
    PROVE  /\ request'[c].claim \in Calls /\ Path(c)' \in Paths
           /\ claim'[request'[c].claim].status # "none" /\ request'[request'[c].claim].path = Path(c)'
           /\ \/ view'[c].head = head'[Path(c)'] /\ head' = head /\ claim' = claim
              \/ /\ view[c] # NoView /\ view'[c].head = view[c].head
                 /\ request'[c] = request[c] /\ Path(c)' = Path(c)
<1>. USE DEF IInv
<1>1. CASE Start(c)
  <2>1. PICK q \in Requests(c) :
           /\ request' = [request EXCEPT ![c] = q]
           /\ view' = [view EXCEPT ![c] =
                 Reading(IF q.op = "acquire" THEN q.path ELSE PathOf(q.claim))]
    BY <1>1 DEF Start
  <2>2. q \in Request /\ request'[c] = q /\ q.op # "acquire" /\ q.claim \in Calls
    BY <2>1 DEF Requests, Request, TypeOK
  <2>3. stage[q.claim] # "idle" /\ stage[c] = "idle" /\ claim[q.claim].status # "none"
    BY <1>1, <2>1, <2>2 DEF Requests, ClaimsAreSound, Start
  <2>4. /\ Path(c)' = PathOf(q.claim) /\ PathOf(q.claim) \in Paths
        /\ request'[request'[c].claim].path = PathOf(q.claim)
    BY <2>1, <2>2, <2>3, Targets DEF Path, PathOf, Target, TypeOK
  <2>5. view'[c] = Reading(PathOf(q.claim))
    BY <2>1, <2>2 DEF TypeOK
  <2>6. head' = head /\ claim' = claim
    BY <1>1 DEF Start, tables
  <2>. QED  BY <2>2, <2>3, <2>4, <2>5, <2>6, ReadingTyped
<1>2. CASE ~Start(c)
  <2>1. stage[c] # "idle"
    <3>1. stage'[c] # "idle"
      BY CallsStep DEF CallsAreSound, InStore
    <3>. QED  BY <1>2, <3>1, Started
  <2>2. request'[c] = request[c] /\ request[c].claim \in Calls
    BY <2>1, RequestStep, Targets
  <2>3. claim[request[c].claim].status # "none" /\ stage[request[c].claim] # "idle"
    BY <2>1, <2>2 DEF ClaimsAreSound
  <2>4. claim'[request[c].claim].status # "none"
    BY <2>2, <2>3, ClaimStep
  <2>5. /\ Path(c)' = Path(c) /\ Path(c) \in Paths
        /\ request'[request'[c].claim].path = Path(c)'
    BY <2>1, <2>2, <2>3, RequestStep, TargetPath DEF Path, PathOf, Target
  <2>6. \/ view'[c].head = head[Path(c)] /\ head' = head /\ claim' = claim
        \/ view[c] # NoView /\ view'[c].head = view[c].head
    <3>1. CASE view'[c] = view[c]
      BY <3>1
    <3>2. CASE Open(c)
      BY <2>5, <3>2, ReadingTyped DEF Open, TypeOK, tables
    <3>3. CASE ReadClaim(c)
      <4>1. view[c] # NoView /\ view[c] \in View
        BY <3>3, AtWork DEF ReadClaim, InStore
      <4>2. view'[c] = [view[c] EXCEPT !.active = Active]
        BY <3>3 DEF ReadClaim, TypeOK
      <4>. QED  BY <4>1, <4>2 DEF View
    <3>4. CASE ReadHead(c)
      <4>1. view[c] \in View
        BY <3>4 DEF ReadHead, CallsAreSound
      <4>2. view'[c] = [view[c] EXCEPT !.head = head[Path(c)]] /\ head' = head /\ claim' = claim
        BY <3>4 DEF ReadHead, TypeOK, tables
      <4>. QED  BY <4>1, <4>2 DEF View
    <3>5. CASE \/ Raise(c) \/ Lookup(c) \/ RefuseAcquire(c) \/ LoseAcquire(c) \/ RefuseChange(c)
               \/ ConfirmClaim(c) \/ ConfirmHead(c)
      <4>1. view'[c] = NoView
        BY <3>5 DEF Raise, Lookup, RefuseAcquire, LoseAcquire, RefuseChange, ConfirmClaim,
           ConfirmHead, Say, TypeOK
      <4>. QED  BY <4>1
    <3>6. CASE GrantAcquire(c) \/ Heartbeat(c) \/ Complete(c) \/ Release(c)
      <4>1. view'[c] = NoView
        BY <3>6 DEF GrantAcquire, Heartbeat, Complete, Release, Return, TypeOK
      <4>. QED  BY <4>1
    <3>. QED  BY <1>2, <3>1, <3>2, <3>3, <3>4, <3>5, <3>6, CallStep DEF Step
  <2>. QED  BY <2>2, <2>4, <2>5, <2>6
<1>. QED  BY <1>1, <1>2

\* A call's view of the head stays what it has seen while its claim is named.
LEMMA ViewsStep ==
    ASSUME IInv, [Next]_vars
    PROVE  ViewsAreSound'
<1>. USE DEF IInv
<1>1. SUFFICES ASSUME NEW c \in Calls, view'[c] # NoView, request'[c].op # "acquire",
                      view'[c].head.active = request'[c].claim,
                      head'[Path(c)'].active = request'[c].claim
      PROVE  view'[c].head = head'[Path(c)']
  BY DEF ViewsAreSound, InStore
<1>2. CASE view'[c].head = head'[Path(c)']
  BY <1>2
<1>3. CASE /\ view[c] # NoView /\ view'[c].head = view[c].head
           /\ request'[c] = request[c] /\ Path(c)' = Path(c)
  <2>1. request[c].claim \in Calls /\ request[c].claim # NoClaim /\ Path(c) \in Paths
    BY <1>1, <1>3, ViewTaken, ConstantsAssumption
  <2>2. claim[request[c].claim].status # "none"
    BY <1>1, <1>3 DEF CallsAreSound, ClaimsAreSound, InStore
  <2>3. head'[Path(c)] = head[Path(c)]
    <3>1. head'[Path(c)].active = request[c].claim
      BY <1>1, <1>3
    <3>2. ~HeadFreed(Path(c)) /\ ~HeadCompleted(Path(c)) /\ ~HeadTracked(Path(c))
      BY <2>1, <3>1 DEF HeadFreed, HeadCompleted, HeadTracked
    <3>3. ~HeadGranted(Path(c))
      BY <2>2, <3>1 DEF HeadGranted
    <3>. QED  BY <2>1, <3>2, <3>3, HeadStep DEF HeadKept
  <2>. QED  BY <1>1, <1>3, <2>3 DEF ViewsAreSound, InStore
<1>. QED  BY <1>1, <1>2, <1>3, ViewTaken

----------------------------------------------------------------------------
(* One process                                                             *)

\* The deployment stays, and the clock does not go back.
LEMMA WorldStep ==
    ASSUME IInv, [Next]_vars
    PROVE  deployment' = deployment /\ now \in Nat /\ now' \in Nat /\ now <= now'
<1>1. now \in Nat
  BY DEF IInv, TypeOK
<1>2. Tick \/ UNCHANGED vars => deployment' = deployment /\ (now' = now \/ now' = now + 1)
  BY DEF Tick, vars
<1>3. ASSUME NEW c \in Calls, Step(c)
      PROVE  deployment' = deployment /\ now' = now
  BY <1>3 DEF Step, Start, Open, Raise, Lookup, ReadClaim, ReadHead, RefuseAcquire,
     GrantAcquire, LoseAcquire, RefuseChange, Heartbeat, Complete, Release, ConfirmClaim,
     ConfirmHead, world
<1>. QED  BY <1>1, <1>2, <1>3 DEF Next

\* A call is in the store after a step if it was before, or enters it.
LEMMA Entering ==
    ASSUME IInv, [Next]_vars, NEW c \in Calls, view'[c] # NoView
    PROVE  \/ InStore(c) /\ request'[c] = request[c] /\ ~Start(c) /\ ~Open(c)
           \/ Start(c) \/ Open(c)
<1>. USE DEF IInv
<1>1. CASE view'[c] = view[c]
  <2>1. InStore(c) /\ stage[c] # "idle"
    BY <1>1 DEF InStore, CallsAreSound
  <2>. QED  BY <2>1, RequestStep DEF Open, Start
<1>2. CASE ReadClaim(c) \/ ReadHead(c)
  <2>1. InStore(c) /\ stage[c] # "idle" /\ stage[c] \in {"operate", "claimRead"}
    BY <1>2 DEF ReadClaim, ReadHead, CallsAreSound
  <2>. QED  BY <2>1, RequestStep DEF Open, Start
<1>3. ASSUME \/ Raise(c) \/ Lookup(c) \/ RefuseAcquire(c) \/ LoseAcquire(c) \/ RefuseChange(c)
             \/ ConfirmClaim(c) \/ ConfirmHead(c)
      PROVE  FALSE
  BY <1>3 DEF Raise, Lookup, RefuseAcquire, LoseAcquire, RefuseChange, ConfirmClaim,
     ConfirmHead, Say, TypeOK
<1>4. ASSUME GrantAcquire(c) \/ Heartbeat(c) \/ Complete(c) \/ Release(c)
      PROVE  FALSE
  BY <1>4 DEF GrantAcquire, Heartbeat, Complete, Release, Return, TypeOK
<1>. QED  BY <1>1, <1>2, <1>3, <1>4, CallStep DEF Step

\* The lock of a process is held by one call.
LEMMA LockStep ==
    ASSUME IInv, [Next]_vars
    PROVE  LockIsHeld'
<1>. USE DEF IInv
<1>1. ASSUME NEW c \in Calls, stage'[c] # "idle"
      PROVE  request'[c].process \in deployment'.processes
  <2>1. CASE stage[c] # "idle"
    BY <2>1, RequestStep, WorldStep DEF LockIsHeld
  <2>2. CASE stage[c] = "idle"
    <3>1. Start(c)
      BY <1>1, <2>2, Started
    <3>2. PICK q \in Requests(c) : request' = [request EXCEPT ![c] = q]
      BY <3>1 DEF Start
    <3>3. request'[c] = q /\ q.process \in deployment.processes
      BY <3>2 DEF Requests, TypeOK
    <3>. QED  BY <3>3, WorldStep
  <2>. QED  BY <2>1, <2>2
<1>2. ASSUME NEW c \in Calls, NEW d \in Calls, view'[c] # NoView, view'[d] # NoView,
             request'[c].process = request'[d].process, c # d, Start(c) \/ Open(c)
      PROVE  FALSE
  <2>1. view'[d] = view[d] /\ request'[d] = request[d]
    BY <1>2 DEF Start, Open, TypeOK
  <2>2. Unlocked(request'[c].process)
    <3>1. CASE Open(c)
      BY <3>1 DEF Open
    <3>2. CASE Start(c)
      BY <3>2 DEF Start, TypeOK
    <3>. QED  BY <1>2, <3>1, <3>2
  <2>. QED  BY <1>2, <2>1, <2>2 DEF Unlocked, InStore
<1>3. ASSUME NEW c \in Calls, NEW d \in Calls, view'[c] # NoView, view'[d] # NoView,
             request'[c].process = request'[d].process
      PROVE  c = d
  BY <1>2, <1>3, Entering DEF LockIsHeld
<1>. QED  BY <1>1, <1>3 DEF LockIsHeld, InStore

\* One process has one call in the store.
LEMMA AloneInStore ==
    ASSUME IInv, OneProcess, NEW c \in Calls, NEW d \in Calls, InStore(c), InStore(d)
    PROVE  c = d
<1>1. stage[c] # "idle" /\ stage[d] # "idle"
  BY DEF IInv, CallsAreSound
<1>. QED  BY <1>1 DEF IInv, LockIsHeld, OneProcess

\* Claims are written by a call that leaves the store with it.
LEMMA WriteStep ==
    ASSUME IInv, [Next]_vars
    PROVE  \/ claim' = claim
           \/ \E c \in Calls :
                 /\ InStore(c) /\ view' = [view EXCEPT ![c] = NoView] /\ now' = now
                 /\ \/ claim' = SweptClaims(c)
                    \/ MayInsert(c) /\ claim' = InsertedClaims(c)
                    \/ \E row \in Claim : row.status \in {"active", "completed", "released"}
                                         /\ claim' = ChangedClaims(c, row)
<1>. USE DEF IInv
<1>1. ASSUME NEW c \in Calls, Start(c) \/ Open(c) \/ Raise(c) \/ ReadClaim(c) \/ ReadHead(c)
      PROVE  claim' = claim
  BY <1>1 DEF Start, Open, Raise, ReadClaim, ReadHead, tables
<1>2. Tick \/ UNCHANGED vars => claim' = claim
  BY DEF Tick, vars, tables
<1>3. ASSUME NEW c \in Calls, Lookup(c) \/ RefuseAcquire(c) \/ RefuseChange(c)
                              \/ ConfirmClaim(c) \/ ConfirmHead(c)
      PROVE  InStore(c) /\ view' = [view EXCEPT ![c] = NoView] /\ now' = now /\ claim' = SweptClaims(c)
  <2>1. view' = [view EXCEPT ![c] = NoView] /\ now' = now /\ claim' = SweptClaims(c)
    BY <1>3 DEF Lookup, RefuseAcquire, RefuseChange, ConfirmClaim, ConfirmHead, Say, world
  <2>2. Lookup(c) => InStore(c)
    BY DEF Lookup, CallsAreSound
  <2>3. RefuseAcquire(c) \/ RefuseChange(c) => Ready(c)
    BY DEF RefuseAcquire, RefuseChange
  <2>4. ConfirmClaim(c) \/ ConfirmHead(c) => InStore(c)
    BY DEF ConfirmClaim, ConfirmHead
  <2>. QED  BY <1>3, <2>1, <2>2, <2>3, <2>4, AtWork
<1>4. ASSUME NEW c \in Calls, GrantAcquire(c) \/ LoseAcquire(c)
      PROVE  /\ InStore(c) /\ view' = [view EXCEPT ![c] = NoView] /\ now' = now
             /\ MayInsert(c) /\ claim' = InsertedClaims(c)
  <2>1. MayInsert(c) /\ claim' = InsertedClaims(c) /\ now' = now
    BY <1>4 DEF GrantAcquire, LoseAcquire, world
  <2>2. view' = [view EXCEPT ![c] = NoView]
    BY <1>4 DEF GrantAcquire, LoseAcquire, Return, Say
  <2>. QED  BY <2>1, <2>2, AtWork DEF MayInsert
<1>5. ASSUME NEW c \in Calls, Heartbeat(c) \/ Complete(c) \/ Release(c)
      PROVE  /\ InStore(c) /\ view' = [view EXCEPT ![c] = NoView] /\ now' = now
             /\ \E row \in Claim : row.status \in {"active", "completed", "released"}
                                  /\ claim' = ChangedClaims(c, row)
  <2>1. view' = [view EXCEPT ![c] = NoView] /\ now' = now /\ Ready(c)
    BY <1>5 DEF Heartbeat, Complete, Release, Return, world
  <2>. QED  BY <1>5, <2>1, AtWork, RowsWritten
<1>. QED  BY <1>1, <1>2, <1>3, <1>4, <1>5 DEF Next, Step

\* Readings of the one process stay current.
LEMMA ReadingsStep ==
    ASSUME IInv, [Next]_vars
    PROVE  ReadingsAreCurrent'
<1>. USE DEF IInv
<1>1. SUFFICES ASSUME OneProcess
      PROVE  /\ \A c \in Calls :
                   view'[c] # NoView => /\ view'[c].active = Active'
                                       /\ \A x \in view'[c].overdue : claim'[x].due <= now'
             /\ \A x \in Calls : claim'[x].status = "expired" => claim'[x].due <= now'
  BY WorldStep DEF ReadingsAreCurrent, OneProcess, InStore
<1>2. ASSUME NEW x \in Calls
      PROVE  claim[x] \in Claim /\ claim[x].due \in Nat
  BY DEF TypeOK, Claim
<1>3. ASSUME NEW c \in Calls, InStore(c)
      PROVE  /\ view[c].active = Active
             /\ \A x \in view[c].overdue : x \in Calls /\ claim[x].due <= now
  BY <1>1, <1>3, AtWork DEF ReadingsAreCurrent
<1>4. ASSUME NEW c \in Calls, view'[c] # NoView
      PROVE  /\ view'[c].active = Active'
             /\ \A x \in view'[c].overdue : claim'[x].due <= now'
  <2>1. CASE claim' = claim
    <3>1. Active' = Active
      BY <2>1 DEF Active
    <3>2. view'[c].active = Active /\ \A x \in view'[c].overdue : x \in Calls /\ claim[x].due <= now
      <4>1. CASE Start(c) \/ Open(c)
        <5>1. view'[c].active = Active /\ view'[c].overdue = Overdue
          <6>1. CASE Open(c)
            BY <6>1 DEF Open, Reading, TypeOK
          <6>2. CASE Start(c)
            <7>1. PICK q \in Requests(c) :
                     view' = [view EXCEPT ![c] =
                        Reading(IF q.op = "acquire" THEN q.path ELSE PathOf(q.claim))]
              BY <6>2 DEF Start
            <7>. QED  BY <7>1 DEF Reading, TypeOK
          <6>. QED  BY <4>1, <6>1, <6>2
        <5>. QED  BY <5>1 DEF Overdue, Active
      <4>2. CASE view'[c] = view[c]
        BY <1>3, <1>4, <4>2 DEF InStore
      <4>3. CASE ReadClaim(c)
        <5>1. InStore(c) /\ view[c] \in View
          BY <4>3, AtWork DEF ReadClaim
        <5>2. view'[c] = [view[c] EXCEPT !.active = Active]
          BY <4>3 DEF ReadClaim, TypeOK
        <5>. QED  BY <1>3, <5>1, <5>2 DEF View
      <4>4. CASE ReadHead(c)
        <5>1. InStore(c) /\ view[c] \in View
          BY <4>4 DEF ReadHead, CallsAreSound
        <5>2. view'[c] = [view[c] EXCEPT !.head = head[Path(c)]]
          BY <4>4 DEF ReadHead, TypeOK
        <5>. QED  BY <1>3, <5>1, <5>2 DEF View
      <4>5. ~(Raise(c) \/ Lookup(c) \/ RefuseAcquire(c) \/ LoseAcquire(c) \/ RefuseChange(c)
              \/ ConfirmClaim(c) \/ ConfirmHead(c))
        BY <1>4 DEF Raise, Lookup, RefuseAcquire, LoseAcquire, RefuseChange, ConfirmClaim,
           ConfirmHead, Say, TypeOK
      <4>6. ~(GrantAcquire(c) \/ Heartbeat(c) \/ Complete(c) \/ Release(c))
        BY <1>4 DEF GrantAcquire, Heartbeat, Complete, Release, Return, TypeOK
      <4>. QED  BY <4>1, <4>2, <4>3, <4>4, <4>5, <4>6, CallStep DEF Step
    <3>3. ASSUME NEW x \in view'[c].overdue
          PROVE  claim'[x].due <= now'
      BY <1>2, <2>1, <3>2, WorldStep
    <3>. QED  BY <3>1, <3>2, <3>3
  <2>2. CASE claim' # claim
    <3>1. PICK d \in Calls : InStore(d) /\ view' = [view EXCEPT ![d] = NoView]
      BY <2>2, WriteStep
    <3>2. c # d /\ view'[c] = view[c]
      BY <1>4, <3>1 DEF TypeOK
    <3>. QED  BY <1>1, <1>4, <3>1, <3>2, AloneInStore DEF InStore
  <2>. QED  BY <2>1, <2>2
<1>5. ASSUME NEW x \in Calls, claim'[x].status = "expired"
      PROVE  claim'[x].due <= now'
  <2>1. CASE claim'[x] = claim[x]
    <3>1. claim[x].due <= now
      BY <1>1, <1>5, <2>1 DEF ReadingsAreCurrent
    <3>. QED  BY <1>2, <2>1, <3>1, WorldStep
  <2>2. CASE claim'[x] # claim[x]
    <3>1. PICK c \in Calls : InStore(c) /\ claim'[x] = SweptClaims(c)[x]
      <4>1. PICK c \in Calls :
               /\ InStore(c)
               /\ \/ claim' = SweptClaims(c)
                  \/ MayInsert(c) /\ claim' = InsertedClaims(c)
                  \/ \E row \in Claim : row.status \in {"active", "completed", "released"}
                                       /\ claim' = ChangedClaims(c, row)
        BY <2>2, WriteStep
      <4>2. CASE MayInsert(c) /\ claim' = InsertedClaims(c)
        BY <1>5, <4>1, <4>2, ClaimWrites
      <4>3. CASE \E row \in Claim : row.status \in {"active", "completed", "released"}
                                   /\ claim' = ChangedClaims(c, row)
        BY <1>5, <4>1, <4>3, ClaimWrites
      <4>. QED  BY <4>1, <4>2, <4>3
    <3>2. x \in view[c].overdue /\ SweptClaims(c)[x].due = claim[x].due
      BY <2>2, <3>1, SweepClaims DEF TypeOK, SweptClaims
    <3>. QED  BY <1>2, <1>3, <3>1, <3>2, WorldStep
  <2>. QED  BY <2>1, <2>2
<1>. QED  BY <1>4, <1>5

----------------------------------------------------------------------------
(* Theorems                                                                *)

\* Where an acquire finds what its reads promise it does not lose.
LEMMA NoLoss ==
    ASSUME IInv, ~deployment.snapshot \/ OneProcess, NEW c \in Calls
    PROVE  ~LoseAcquire(c)
<1>. USE DEF IInv
<1>1. SUFFICES ASSUME LoseAcquire(c)
      PROVE  FALSE
  OBVIOUS
<1>2. /\ Ready(c) /\ request[c].op = "acquire" /\ ~ClaimSeenActive(c)
      /\ TrackedHead(c).active # NoClaim
  BY <1>1 DEF LoseAcquire, MayInsert
<1>. DEFINE p == request[c].path
            x == TrackedHead(c).active
<1>3. p \in Paths /\ head[p].hash # NoHash /\ TrackedHead(c) = SweptHeads(c)[p]
  BY <1>2, TrackedRow
<1>4. /\ head[p].active = x /\ SweptClaims(c)[x] = claim[x]
      /\ x \in Calls /\ claim[x].status = "active"
  <2>1. head[p].active = x /\ SweptClaims(c)[x] = claim[x]
    BY <1>2, <1>3, SweepHead
  <2>. QED  BY <1>2, <1>3, <2>1 DEF HeadsAreSound
<1>5. CASE ~deployment.snapshot
  BY <1>2, <1>4, <1>5 DEF ClaimSeenActive
<1>6. CASE deployment.snapshot
  <2>1. x \in view[c].active
    BY <1>2, <1>4, <1>6, AtWork DEF ReadingsAreCurrent, Active
  <2>. QED  BY <1>2, <1>6, <2>1 DEF ClaimSeenActive
<1>. QED  BY <1>5, <1>6

\* The active claim of a path stays the one that its head names.
LEMMA ActiveStep ==
    ASSUME IInv, [Next]_vars
    PROVE  HeadsNameTheActiveClaim'
<1>. USE DEF IInv
<1>1. SUFFICES ASSUME ~deployment.snapshot \/ OneProcess, NEW p \in Paths
      PROVE  ActiveOn(p)' = IF head'[p].active = NoClaim THEN {} ELSE {head'[p].active}
  BY WorldStep DEF HeadsNameTheActiveClaim, OneProcess
<1>2. ASSUME NEW x \in Calls, claim'[x].status = "active", request'[x].path = p
      PROVE  head'[p].active = x
  <2>1. CASE claim[x].status = "active"
    <3>1. request'[x] = request[x]
      BY <2>1, RequestStep DEF ClaimsAreSound
    <3>2. x \in ActiveOn(p)
      BY <1>2, <2>1, <3>1 DEF ActiveOn, Active, PathOf
    <3>3. head[p].active = x /\ head[p].active # NoClaim
      BY <1>1, <3>2 DEF HeadsNameTheActiveClaim
    <3>4. ~HeadFreed(p) /\ ~HeadGranted(p)
      BY <1>2, <3>3 DEF HeadFreed, HeadGranted
    <3>5. ~HeadTracked(p)
      BY <3>3 DEF HeadTracked
    <3>6. ~HeadCompleted(p)
      <4>1. [claim[x] EXCEPT !.status = "completed", !.hash = head'[p].hash].status = "completed"
        BY DEF TypeOK, Claim
      <4>. QED  BY <1>2, <3>3, <4>1 DEF HeadCompleted
    <3>. QED  BY <3>3, <3>4, <3>5, <3>6, HeadStep DEF HeadKept
  <2>2. CASE claim[x].status # "active"
    <3>1. claim[x].status = "none"
      BY <1>2, <2>2, ClaimStep
    <3>2. GrantAcquire(x)
      BY <1>1, <1>2, <3>1, ClaimStep, NoLoss
    <3>3. Ready(x) /\ request[x].op = "acquire" /\ stage[x] # "idle"
      BY <3>2, AtWork DEF GrantAcquire, MayInsert
    <3>4. request[x].path = p /\ TrackedHead(x) \in HeadRow /\ x \in Calls \cup {NoClaim}
      BY <1>2, <3>3, RequestStep, TrackedRow
    <3>5. SweptHeads(x) \in [Paths -> HeadRow]
      BY SweepHeads
    <3>6. head'[p] = [TrackedHead(x) EXCEPT !.active = x]
      BY <3>2, <3>4, <3>5 DEF GrantAcquire
    <3>. QED  BY <3>4, <3>6, HeadUpdates
  <2>. QED  BY <2>1, <2>2
<1>3. ASSUME head'[p].active # NoClaim
      PROVE  /\ head'[p].active \in Calls
             /\ claim'[head'[p].active].status = "active"
             /\ request'[head'[p].active].path = p
  BY <1>3, HeadsStep DEF HeadsAreSound, PathOf
<1>4. NoClaim \notin Calls
  BY ConstantsAssumption
<1>. QED  BY <1>2, <1>3, <1>4 DEF ActiveOn, Active, PathOf

\* The invariant is inductive.
LEMMA NextIInv == IInv /\ [Next]_vars => IInv'
BY TypeStep, CallsStep, ClaimsStep, HeadsStep, ViewsStep, LockStep, ReadingsStep, ActiveStep
   DEF IInv

\* It holds in every behavior.
THEOREM Invariant == Spec => []IInv
BY InitIInv, NextIInv, PTL DEF Spec

\* The tables and the calls keep their types (the rows of matm_uai_edit_claims
\* and matm_uai_collaboration_heads, and the handlers' variables).
THEOREM TypeCorrect == Spec => []TypeOK
<1>1. IInv => TypeOK
  BY DEF IInv
<1>. QED  BY <1>1, Invariant, PTL

\* A claim that a head names is active and on its path, on any database; and it
\* is the only one, on SQLite with any number of processes and on MySQL with one.
THEOREM HeadsAgree == Spec => []HeadsAgreeWithClaims
<1>1. IInv => HeadsNameTheActiveClaim
  BY DEF IInv
<1>2. IInv => NamedClaimsAreActive
  BY DEF IInv, HeadsAreSound, NamedClaimsAreActive, ActiveOn, Active
<1>. QED  BY <1>1, <1>2, Invariant, PTL DEF HeadsAgreeWithClaims

\* A head's hash is only replaced by the completion of the claim it named and
\* that was based on it (complete_uai_edit_claim), on any database.
THEOREM CompletionCompares == Spec => CompletionsCompareAndSwap
<1>1. ASSUME IInv, [Next]_vars
      PROVE  \A p \in Paths :
                /\ head[p].hash # NoHash
                /\ head'[p].hash # head[p].hash \/ head'[p].revision # head[p].revision
                => LET x == head[p].active IN
                   /\ x \in Active
                   /\ request[x].hash = head[p].hash
                   /\ claim'[x] = [claim[x] EXCEPT !.status = "completed", !.hash = head'[p].hash]
                   /\ head'[p].revision = head[p].revision + 1
  <2>1. SUFFICES ASSUME NEW p \in Paths, head[p].hash # NoHash,
                        head'[p].hash # head[p].hash \/ head'[p].revision # head[p].revision
        PROVE  LET x == head[p].active IN
               /\ x \in Active
               /\ request[x].hash = head[p].hash
               /\ claim'[x] = [claim[x] EXCEPT !.status = "completed", !.hash = head'[p].hash]
               /\ head'[p].revision = head[p].revision + 1
    BY <1>1
  <2>2. ~HeadKept(p) /\ ~HeadFreed(p) /\ ~HeadGranted(p) /\ ~HeadTracked(p)
    BY <2>1 DEF HeadKept, HeadFreed, HeadGranted, HeadTracked
  <2>3. HeadCompleted(p)
    BY <1>1, <2>2, HeadStep
  <2>4. /\ head[p].active \in Calls /\ claim[head[p].active].status = "active"
        /\ request[head[p].active].hash = head[p].hash
    BY <1>1, <2>3 DEF IInv, HeadsAreSound, HeadCompleted
  <2>. QED  BY <2>3, <2>4 DEF HeadCompleted, Active
<1>. QED  BY <1>1, Invariant, PTL DEF Spec, CompletionsCompareAndSwap

\* A closed claim is not changed again (the WHERE status = 'active' of the
\* UPDATEs and of the sweep), on any database.
THEOREM ClosedStayClosed == Spec => ClosedForGood
<1>1. ASSUME IInv, [Next]_vars
      PROVE  \A x \in Calls :
                claim[x].status \in {"completed", "released", "expired"} => claim'[x] = claim[x]
  BY <1>1, ClaimStep
<1>. QED  BY <1>1, Invariant, PTL DEF Spec, ClosedForGood

\* No path is granted during another's lease where one process makes the calls.
THEOREM LeasesHold == Spec => LeasesAreHonoured
<1>1. ASSUME IInv, [Next]_vars
      PROVE  OneProcess => \A p \in Paths : ~GrantedInLease(p)
  <2>1. SUFFICES ASSUME OneProcess, NEW p \in Paths, GrantedInLease(p)
        PROVE  FALSE
    OBVIOUS
  <2>2. HeadGranted(p)
    <3>1. head'[p].active # NoClaim /\ head'[p].active # head[p].active
      BY <2>1 DEF GrantedInLease
    <3>. QED  BY <1>1, <3>1, HeadStep DEF HeadKept, HeadFreed, HeadCompleted, HeadTracked
  <2>3. PICK c \in Calls : GrantAcquire(c) /\ PathOf(c) = p /\ head'[p].active = c
    BY <2>2 DEF HeadGranted
  <2>4. PICK x \in Calls : /\ x # c /\ claim[x].status \in {"active", "expired"}
                           /\ PathOf(x) = p /\ claim[x].due > now
    BY <2>1, <2>3 DEF GrantedInLease
  <2>5. now \in Nat /\ claim[x].due \in Nat
    BY <1>1 DEF IInv, TypeOK, Claim
  <2>6. CASE claim[x].status = "expired"
    BY <1>1, <2>1, <2>4, <2>5, <2>6 DEF IInv, ReadingsAreCurrent
  <2>7. CASE claim[x].status = "active"
    <3>1. head[p].active = x /\ x # NoClaim
      <4>1. x \in ActiveOn(p)
        BY <2>4, <2>7 DEF ActiveOn, Active
      <4>. QED  BY <1>1, <2>1, <4>1, ConstantsAssumption DEF IInv, HeadsNameTheActiveClaim
    <3>2. Ready(c) /\ request[c].op = "acquire" /\ TrackedHead(c).active = NoClaim
      BY <2>3 DEF GrantAcquire, MayInsert
    <3>3. SweptHeads(c)[p].active = NoClaim
      BY <1>1, <2>3, <3>1, <3>2, TrackedRow
    <3>4. x \in view[c].overdue
      BY <1>1, <3>1, <3>3, SweepHead
    <3>5. InStore(c)
      BY <1>1, <3>2, AtWork DEF IInv
    <3>. QED  BY <1>1, <2>1, <2>4, <2>5, <3>4, <3>5 DEF IInv, ReadingsAreCurrent
  <2>. QED  BY <2>4, <2>6, <2>7
<1>. QED  BY <1>1, Invariant, PTL DEF Spec, LeasesAreHonoured

\* A completion is a compare-and-swap on the head, and closing happens once.
THEOREM ClosesOnce == Spec => ClosedByCompareAndSwap
BY CompletionCompares, ClosedStayClosed, PTL DEF ClosedByCompareAndSwap

----------------------------------------------------------------------------
(* History: what completions leave behind in heads, results and events      *)

\* A path that is not tracked has no revision yet.
UntrackedIsNew == \A p \in Paths : head[p].hash = NoHash => head[p].revision = 0

Completions(p) == {x \in Calls : claim[x].status = "completed" /\ PathOf(x) = p}

\* The claims completed are finitely many, and one for each revision.
RevisionsAreCounted ==
    \A p \in Paths :
        IsFiniteSet(Completions(p)) /\ head[p].revision = Cardinality(Completions(p))

\* A head has come to a revision, and its hash was h then.
Reached(row, r, h) == row.revision >= r /\ (row.revision = r => row.hash = h)

\* A claim that was seen on its head stays there while it is active; when it is
\* completed, the head goes on from the revision seen with the claim's hash.
SeenStayNamed ==
    \A c \in Calls :
        InStore(c) /\ request[c].op # "acquire" /\ view[c].head.active = request[c].claim =>
            LET x == request[c].claim IN
            /\ claim[x].status = "active" => head[Path(c)].active = x
            /\ claim[x].status = "completed" =>
                  Reached(head[Path(c)], view[c].head.revision + 1, claim[x].hash)

\* What a change found and returned, while the handler reads it back.
CompletionReturned(c) ==
    LET x == Target(c) IN
    /\ claim[x].status \notin {"none", "active"}
    /\ result[c].status \in {"completed", "none"}
    /\ result[c].head.hash = request[c].hash /\ result[c].head.revision > 0
    /\ claim[x].status = "completed" =>
          Reached(head[Path(c)], result[c].head.revision, claim[x].hash)
    /\ deployment.snapshot => claim[x].status = "completed" /\ claim[x].hash = request[c].hash
    /\ stage[c] = "heads" /\ result[c].status # "none" => claim[x].status = "completed"

ReleaseReturned(c) ==
    /\ claim[Target(c)].status \notin {"none", "active"}
    /\ result[c].status \in {"released", "none"}
    /\ stage[c] = "heads" /\ result[c].status # "none" => claim[Target(c)].status = "released"

ResultsAreTrue ==
    \A c \in Calls :
        stage[c] \in {"claims", "heads"} =>
            /\ request[c].op = "complete" => CompletionReturned(c)
            /\ request[c].op = "release" => ReleaseReturned(c)
            /\ request[c].op = "acquire" => claim[c].status # "none"

\* A call that confirmed is no idle one.
ConfirmedHaveStarted == \A c \in Calls : answer[c] = "confirmed" => stage[c] # "idle"

HInv ==
    /\ UntrackedIsNew
    /\ RevisionsAreCounted
    /\ SeenStayNamed
    /\ ResultsAreTrue
    /\ ConfirmedHaveStarted
    /\ ConfirmedChangesHappened
    /\ EventsAreTrue

\* Init establishes it.
LEMMA InitHInv == Init => HInv
<1> SUFFICES ASSUME Init PROVE HInv
  OBVIOUS
<1>. USE DEF Init
<1>1. UntrackedIsNew /\ SeenStayNamed /\ ResultsAreTrue /\ ConfirmedHaveStarted
  BY DEF UntrackedIsNew, SeenStayNamed, ResultsAreTrue, ConfirmedHaveStarted, InStore
<1>2. ASSUME NEW p \in Paths
      PROVE  IsFiniteSet(Completions(p)) /\ head[p].revision = Cardinality(Completions(p))
  <2>1. Completions(p) = {}
    BY DEF Completions
  <2>. QED  BY <2>1, FS_EmptySet
<1>3. ConfirmedChangesHappened /\ EventsAreTrue
  BY DEF ConfirmedChangesHappened, EventsAreTrue, FalseEvents
<1>. QED  BY <1>1, <1>2, <1>3 DEF HInv, RevisionsAreCounted

\* A head never goes back, and keeps its hash while it keeps its revision.
LEMMA ReachedStays ==
    ASSUME IInv, UntrackedIsNew, [Next]_vars, NEW p \in Paths, NEW r \in Nat, NEW h,
           r > 0, Reached(head[p], r, h)
    PROVE  Reached(head'[p], r, h)
<1>1. head[p] \in HeadRow /\ head'[p] \in HeadRow
  BY TypeStep DEF IInv, TypeOK
<1>2. /\ head[p].revision \in Nat /\ head'[p].revision \in Nat
      /\ head[p].hash # NoHash
  BY <1>1 DEF HeadRow, UntrackedIsNew, Reached
<1>3. /\ head'[p].revision >= head[p].revision
      /\ head'[p].revision = head[p].revision => head'[p].hash = head[p].hash
  <2>1. CASE HeadKept(p) \/ HeadFreed(p)
    BY <1>2, <2>1 DEF HeadKept, HeadFreed
  <2>2. CASE HeadCompleted(p)
    BY <1>2, <2>2 DEF HeadCompleted
  <2>3. CASE HeadGranted(p)
    BY <1>2, <2>3 DEF HeadGranted
  <2>4. CASE HeadTracked(p)
    BY <1>2, <2>4 DEF HeadTracked
  <2>. QED  BY <2>1, <2>2, <2>3, <2>4, HeadStep
<1>. QED  BY <1>2, <1>3 DEF Reached

\* A path that is not tracked stays without revisions.
LEMMA UntrackedStep ==
    ASSUME IInv, HInv, [Next]_vars
    PROVE  UntrackedIsNew'
<1>1. SUFFICES ASSUME NEW p \in Paths, head'[p].hash = NoHash
      PROVE  head'[p].revision = 0
  BY DEF UntrackedIsNew
<1>2. head[p].hash = NoHash => head[p].revision = 0
  BY DEF HInv, UntrackedIsNew
<1>. QED  BY <1>1, <1>2, HeadStep, ConstantsAssumption
     DEF HeadKept, HeadFreed, HeadCompleted, HeadGranted, HeadTracked

\* A completion writes the claim and its head, or misses a claim that another
\* process has closed since it was read.
LEMMA CompleteEffect ==
    ASSUME IInv, SeenStayNamed, NEW c \in Calls, Complete(c)
    PROVE  LET p == Path(c)
               x == Target(c) IN
           /\ x \in Calls /\ p \in Paths /\ PathOf(x) = p /\ request[c].hash \in Hashes
           /\ x = request[c].claim /\ InStore(c) /\ stage[c] # "idle"
           /\ SeenHead(c) \in HeadRow /\ head[p] \in HeadRow
           /\ \/ /\ claim[x].status = "active" /\ head[p].active = x
                 /\ HeadCompleted(p) /\ SeenHead(c) = head[p] /\ head'[p].hash = request[c].hash
              \/ /\ stage[c] = "headRead" /\ claim[x].status \notin {"none", "active"}
                 /\ claim'[x] = claim[x]
                 /\ SeenHead(c) = view[c].head /\ view[c].head.active = x
<1>. USE DEF IInv
<1>1. /\ Ready(c) /\ request[c].op = "complete" /\ TargetSeenActive(c)
      /\ SeenHead(c).active = Target(c)
      /\ claim' = ChangedClaims(c, [SweptClaims(c)[Target(c)] EXCEPT
                                       !.status = "completed", !.hash = request[c].hash])
  BY DEF Complete, MayChange
<1>2. /\ Target(c) \in Calls /\ Path(c) \in Paths /\ request[c].hash \in Hashes
      /\ InStore(c) /\ Target(c) = request[c].claim /\ stage[c] # "idle"
      /\ PathOf(Target(c)) = Path(c)
  BY <1>1, RowsWritten, AtWork, Targets DEF Path
<1>3. SeenHead(c) \in HeadRow /\ head[Path(c)] \in HeadRow
  BY <1>1, <1>2, WritesTyped DEF TypeOK
<1>4. claim[Target(c)].status # "none"
  BY <1>1, <1>2 DEF ClaimsAreSound
<1>5. CASE claim[Target(c)].status = "active"
  <2>1. head[Path(c)].active = Target(c)
    <3>1. CASE stage[c] = "headRead" \/ deployment.snapshot
      BY <1>1, <1>2, <1>5, <3>1 DEF SeenHead, SeenStayNamed
    <3>2. CASE ~(stage[c] = "headRead" \/ deployment.snapshot)
      <4>1. SweptHeads(c)[Path(c)].active = Target(c) /\ Target(c) # NoClaim
        BY <1>1, <1>2, <3>2, ConstantsAssumption DEF SeenHead
      <4>. QED  BY <1>2, <4>1, SweepHead
    <3>. QED  BY <3>1, <3>2
  <2>2. Target(c) \notin view[c].overdue
    <3>1. CASE stage[c] = "headRead"
      BY <3>1 DEF CallsAreSound
    <3>2. CASE stage[c] # "headRead"
      BY <1>1, <1>2, <3>2, SweepClaims DEF TargetSeenActive
    <3>. QED  BY <3>1, <3>2
  <2>3. SweptHeads(c)[Path(c)].active = Target(c)
    BY <1>2, <2>1, <2>2, SweepHeads
  <2>. QED  BY <1>2, <1>3, <1>5, <2>3, CompleteHits
<1>6. CASE claim[Target(c)].status # "active"
  <2>1. SweptClaims(c) \in [Calls -> Claim] /\ SweptClaims(c)[Target(c)] = claim[Target(c)]
    BY <1>2, <1>6, SweepClaims
  <2>2. stage[c] = "headRead"
    BY <1>1, <1>6, <2>1 DEF TargetSeenActive
  <2>3. claim'[Target(c)] = claim[Target(c)]
    BY <1>1, <1>2, <1>6, <2>1 DEF ChangedClaims
  <2>. QED  BY <1>1, <1>2, <1>3, <1>4, <1>6, <2>2, <2>3 DEF SeenHead
<1>. QED  BY <1>5, <1>6

\* Only a completion completes a claim: the one that its head names.
LEMMA NewlyCompleted ==
    ASSUME IInv, HInv, [Next]_vars, NEW x \in Calls,
           claim[x].status # "completed", claim'[x].status = "completed"
    PROVE  /\ PathOf(x) \in Paths /\ HeadCompleted(PathOf(x)) /\ head[PathOf(x)].active = x
<1>. USE DEF IInv
<1>1. claim[x].status = "active"
  <2>1. claim[x].status = "none" => claim'[x].status = "active"
    <3>1. ASSUME GrantAcquire(x) \/ LoseAcquire(x)
          PROVE  claim'[x].status = "active"
      BY <3>1, ClaimWrites DEF GrantAcquire, LoseAcquire
    <3>. QED  BY <3>1, ClaimStep
  <2>. QED  BY <2>1, ClaimStep
<1>2. ASSUME NEW c \in Calls, Start(c) \/ Open(c) \/ Raise(c) \/ ReadClaim(c) \/ ReadHead(c)
      PROVE  claim' = claim
  BY <1>2 DEF Start, Open, Raise, ReadClaim, ReadHead, tables
<1>3. ASSUME NEW c \in Calls, Lookup(c) \/ RefuseAcquire(c) \/ RefuseChange(c)
                              \/ ConfirmClaim(c) \/ ConfirmHead(c)
      PROVE  claim' = SweptClaims(c)
  BY <1>3 DEF Lookup, RefuseAcquire, RefuseChange, ConfirmClaim, ConfirmHead
<1>4. ASSUME NEW c \in Calls, GrantAcquire(c) \/ LoseAcquire(c)
      PROVE  claim'[x].status # "completed"
  <2>1. MayInsert(c) /\ claim' = InsertedClaims(c)
    BY <1>4 DEF GrantAcquire, LoseAcquire
  <2>2. x # c
    BY <1>1, <2>1, ClaimWrites
  <2>3. claim'[x] = SweptClaims(c)[x]
    BY <2>1, <2>2, ClaimWrites
  <2>. QED  BY <1>1, <2>3, SweepClaims
<1>5. ASSUME NEW c \in Calls, Heartbeat(c) \/ Release(c)
      PROVE  claim'[x].status # "completed"
  <2>1. Ready(c)
    BY <1>5 DEF Heartbeat, Release
  <2>2. PICK row \in Claim : row.status \in {"active", "released"} /\ claim' = ChangedClaims(c, row)
    BY <1>5, <2>1, RowsWritten
  <2>. QED  BY <1>1, <2>2, ClaimWrites, SweepClaims
<1>6. PICK c \in Calls : Complete(c)
  <2>1. Tick \/ UNCHANGED vars => claim' = claim
    BY DEF Tick, vars, tables
  <2>2. \A c \in Calls : SweptClaims(c)[x].status # "completed"
    BY <1>1, SweepClaims
  <2>. QED  BY <1>1, <1>2, <1>3, <1>4, <1>5, <2>1, <2>2 DEF Next, Step
<1>7. x = Target(c)
  <2>1. PICK row \in Claim : claim' = ChangedClaims(c, row)
    <3>1. Ready(c)
      BY <1>6 DEF Complete
    <3>. QED  BY <1>6, <3>1, RowsWritten
  <2>2. SweptClaims(c)[x].status # "completed"
    BY <1>1, SweepClaims
  <2>3. ChangedClaims(c, row)[x] # SweptClaims(c)[x]
    BY <2>1, <2>2
  <2>. QED  BY <2>3, ClaimWrites
<1>. QED  BY <1>1, <1>6, <1>7, CompleteEffect DEF HInv

\* The row of the claim that is completed.
LEMMA CompletedRow ==
    ASSUME IInv, NEW p \in Paths, HeadCompleted(p)
    PROVE  LET x == head[p].active IN
           /\ x \in Calls /\ claim[x].status = "active" /\ PathOf(x) = p
           /\ claim'[x].status = "completed" /\ claim'[x].hash = head'[p].hash
<1>. DEFINE x == head[p].active
            h == head'[p].hash
<1>1. x \in Calls /\ claim[x].status = "active" /\ PathOf(x) = p
  BY DEF IInv, HeadsAreSound, HeadCompleted
<1>2. claim[x] \in Claim /\ h \in Hashes
  BY <1>1 DEF IInv, TypeOK, HeadCompleted
<1>3. claim'[x] = [claim[x] EXCEPT !.status = "completed", !.hash = h]
  BY DEF HeadCompleted
<1>4. /\ [claim[x] EXCEPT !.status = "completed", !.hash = h].status = "completed"
      /\ [claim[x] EXCEPT !.status = "completed", !.hash = h].hash = h
  BY <1>2, ClaimCompletions
<1>. QED  BY <1>1, <1>3, <1>4

\* Revisions go on counting the completions.
LEMMA RevisionsStep ==
    ASSUME IInv, HInv, [Next]_vars
    PROVE  RevisionsAreCounted'
<1>. USE DEF IInv
<1>1. SUFFICES ASSUME NEW p \in Paths
      PROVE  IsFiniteSet(Completions(p)') /\ head'[p].revision = Cardinality(Completions(p)')
  BY DEF RevisionsAreCounted
<1>2. /\ IsFiniteSet(Completions(p)) /\ head[p].revision = Cardinality(Completions(p))
      /\ head[p].hash = NoHash => head[p].revision = 0
  BY DEF HInv, RevisionsAreCounted, UntrackedIsNew
<1>3. ASSUME NEW x \in Calls, claim[x].status # "none"
      PROVE  PathOf(x)' = PathOf(x)
  <2>1. stage[x] # "idle"
    BY <1>3 DEF ClaimsAreSound
  <2>. QED  BY <2>1, RequestStep DEF PathOf
<1>4. Completions(p) \subseteq Completions(p)'
  BY <1>3, ClaimStep DEF Completions
<1>5. ASSUME NEW x \in Completions(p)' \ Completions(p)
      PROVE  HeadCompleted(p) /\ x = head[p].active
  <2>1. x \in Calls /\ claim'[x].status = "completed" /\ PathOf(x)' = p
    BY <1>5 DEF Completions
  <2>2. claim[x].status # "completed"
    BY <1>3, <1>5, <2>1 DEF Completions
  <2>3. PathOf(x) \in Paths /\ HeadCompleted(PathOf(x)) /\ head[PathOf(x)].active = x
    BY <2>1, <2>2, NewlyCompleted
  <2>4. claim[x].status = "active"
    BY <2>1, <2>3, ConstantsAssumption DEF HeadsAreSound
  <2>. QED  BY <1>3, <2>1, <2>3, <2>4
<1>6. CASE HeadCompleted(p)
  <2>. DEFINE x == head[p].active
  <2>1. x \in Calls /\ claim[x].status = "active" /\ PathOf(x) = p
    BY <1>6, CompletedRow
  <2>2. claim'[x].status = "completed"
    BY <1>6, CompletedRow
  <2>3. x \notin Completions(p) /\ x \in Completions(p)'
    BY <1>3, <2>1, <2>2 DEF Completions
  <2>4. Completions(p)' = Completions(p) \cup {x}
    BY <1>4, <1>5, <2>3
  <2>5. head'[p].revision = head[p].revision + 1
    BY <1>6 DEF HeadCompleted
  <2>. QED  BY <1>2, <2>3, <2>4, <2>5, FS_AddElement
<1>7. CASE ~HeadCompleted(p)
  <2>1. Completions(p)' = Completions(p)
    BY <1>4, <1>5, <1>7
  <2>2. head'[p].revision = head[p].revision
    BY <1>2, <1>7, HeadStep DEF HeadKept, HeadFreed, HeadGranted, HeadTracked
  <2>. QED  BY <1>2, <2>1, <2>2
<1>. QED  BY <1>6, <1>7

\* A claim seen on its head stays there until it is closed.
LEMMA SeenStep ==
    ASSUME IInv, HInv, [Next]_vars
    PROVE  SeenStayNamed'
<1>. USE DEF IInv
<1>1. SUFFICES ASSUME NEW c \in Calls, view'[c] # NoView, request'[c].op # "acquire",
                      view'[c].head.active = request'[c].claim
      PROVE  LET x == request'[c].claim IN
             /\ claim'[x].status = "active" => head'[Path(c)'].active = x
             /\ claim'[x].status = "completed" =>
                   Reached(head'[Path(c)'], view'[c].head.revision + 1, claim'[x].hash)
  BY DEF SeenStayNamed, InStore, Reached
<1>2. CASE view'[c].head = head'[Path(c)']
  <2>1. request'[c].claim \in Calls /\ request'[c].claim # NoClaim /\ Path(c)' \in Paths
    BY <1>1, ViewTaken, ConstantsAssumption
  <2>2. claim'[request'[c].claim].status = "active"
    BY <1>1, <1>2, <2>1, HeadsStep DEF HeadsAreSound
  <2>. QED  BY <1>1, <1>2, <2>2
<1>3. CASE /\ view[c] # NoView /\ view'[c].head = view[c].head
           /\ request'[c] = request[c] /\ Path(c)' = Path(c)
  <2>. DEFINE x == request[c].claim
              p == Path(c)
              r == view[c].head.revision + 1
  <2>1. /\ x \in Calls /\ x # NoClaim /\ p \in Paths /\ stage[c] # "idle"
        /\ InStore(c) /\ request[c].op # "acquire" /\ view[c].head.active = x
    BY <1>1, <1>3, ViewTaken, ConstantsAssumption DEF InStore, CallsAreSound
  <2>2. p = PathOf(x) /\ claim[x].status # "none"
    BY <2>1 DEF Path, Target, ClaimsAreSound
  <2>3. r \in Nat /\ r > 0
    BY <2>1, AtWork DEF HeadRow
  <2>4. /\ claim[x].status = "active" => head[p].active = x
        /\ claim[x].status = "completed" => Reached(head[p], r, claim[x].hash)
    BY <2>1 DEF HInv, SeenStayNamed
  <2>5. CASE claim[x].status = "active"
    <3>1. view[c].head = head[p]
      BY <2>1, <2>4, <2>5 DEF ViewsAreSound
    <3>2. ASSUME claim'[x].status = "active"
          PROVE  head'[p].active = x
      <4>1. ~HeadCompleted(p)
        <5>1. [claim[x] EXCEPT !.status = "completed", !.hash = head'[p].hash].status = "completed"
          BY <2>1 DEF TypeOK, Claim
        <5>. QED  BY <2>4, <2>5, <3>2, <5>1 DEF HeadCompleted
      <4>. QED
        BY <2>1, <2>4, <2>5, <3>2, <4>1, HeadStep DEF HeadKept, HeadFreed, HeadGranted, HeadTracked
    <3>3. ASSUME claim'[x].status = "completed"
          PROVE  Reached(head'[p], r, claim'[x].hash)
      <4>1. HeadCompleted(p)
        BY <2>1, <2>2, <2>5, <3>3, NewlyCompleted
      <4>2. claim'[x].hash = head'[p].hash
        BY <2>1, <2>4, <2>5, <4>1, CompletedRow
      <4>. QED  BY <2>3, <3>1, <4>1, <4>2 DEF HeadCompleted, Reached
    <3>. QED  BY <1>3, <3>2, <3>3
  <2>6. CASE claim[x].status # "active"
    <3>1. claim'[x] = claim[x]
      BY <2>1, <2>2, <2>6, ClaimStep
    <3>2. claim[x].status = "completed" => Reached(head'[p], r, claim[x].hash)
      BY <2>1, <2>3, <2>4, ReachedStays DEF HInv
    <3>. QED  BY <1>3, <2>6, <3>1, <3>2
  <2>. QED  BY <2>5, <2>6
<1>. QED  BY <1>1, <1>2, <1>3, ViewTaken

\* A closed claim keeps its row, and every claim its request.
LEMMA ReferredStep ==
    ASSUME IInv, [Next]_vars, NEW c \in Calls, stage[c] # "idle",
           claim[Target(c)].status # "none"
    PROVE  /\ request'[c] = request[c] /\ Target(c) \in Calls /\ Path(c) \in Paths
           /\ Target(c)' = Target(c) /\ Path(c)' = Path(c)
           /\ claim'[Target(c)].status # "none"
           /\ claim[Target(c)].status # "active" => claim'[Target(c)] = claim[Target(c)]
<1>. USE DEF IInv
<1>1. request'[c] = request[c] /\ Target(c) \in Calls /\ Path(c) \in Paths
  BY RequestStep, Targets, TargetPath
<1>2. request'[Target(c)] = request[Target(c)]
  <2>1. stage[Target(c)] # "idle"
    BY <1>1 DEF ClaimsAreSound
  <2>. QED  BY <1>1, <2>1, RequestStep
<1>3. Target(c)' = Target(c) /\ Path(c)' = Path(c)
  BY <1>1, <1>2 DEF Target, Path, PathOf
<1>. QED  BY <1>1, <1>3, ClaimStep

\* What a complete has returned, from the step in which it did.
LEMMA CompleteReturns ==
    ASSUME IInv, HInv, [Next]_vars, NEW c \in Calls, Complete(c)
    PROVE  CompletionReturned(c)'
<1>. USE DEF IInv
<1>. DEFINE x == Target(c)
            p == Path(c)
<1>1. /\ x \in Calls /\ p \in Paths /\ PathOf(x) = p /\ request[c].hash \in Hashes
      /\ x = request[c].claim /\ InStore(c) /\ stage[c] # "idle"
      /\ SeenHead(c) \in HeadRow /\ head[p] \in HeadRow
      /\ \/ /\ claim[x].status = "active" /\ head[p].active = x
            /\ HeadCompleted(p) /\ SeenHead(c) = head[p] /\ head'[p].hash = request[c].hash
         \/ /\ stage[c] = "headRead" /\ claim[x].status \notin {"none", "active"}
            /\ claim'[x] = claim[x]
            /\ SeenHead(c) = view[c].head /\ view[c].head.active = x
  BY CompleteEffect DEF HInv
<1>2. /\ request'[c] = request[c] /\ Target(c)' = x /\ Path(c)' = p /\ deployment' = deployment
      /\ request[c].op = "complete"
  BY <1>1, ReferredStep, WorldStep DEF Complete
<1>3. /\ result'[c].status = "completed" /\ result'[c].head.hash = request[c].hash
      /\ result'[c].head.revision = SeenHead(c).revision + 1 /\ stage'[c] = "claims"
  BY DEF Complete, Return, Goto, TypeOK
<1>4. SeenHead(c).revision \in Nat /\ head[p].revision \in Nat
  BY <1>1 DEF HeadRow
<1>5. CASE HeadCompleted(p) /\ head[p].active = x /\ SeenHead(c) = head[p] /\ head'[p].hash = request[c].hash
  <2>1. claim'[x].status = "completed" /\ claim'[x].hash = request[c].hash
    BY <1>1, <1>5, CompletedRow
  <2>2. head'[p].revision = result'[c].head.revision
    BY <1>3, <1>5 DEF HeadCompleted
  <2>3. Reached(head'[p], result'[c].head.revision, claim'[x].hash)
    BY <1>3, <1>4, <1>5, <2>1, <2>2 DEF Reached
  <2>. QED  BY <1>2, <1>3, <1>4, <2>1, <2>3 DEF CompletionReturned, Reached
<1>6. CASE /\ stage[c] = "headRead" /\ claim[x].status \notin {"none", "active"}
           /\ claim'[x] = claim[x] /\ SeenHead(c) = view[c].head /\ view[c].head.active = x
  <2>1. ~deployment.snapshot
    BY <1>6 DEF CallsAreSound
  <2>2. claim[x].status = "completed" =>
           Reached(head[p], view[c].head.revision + 1, claim[x].hash)
    BY <1>1, <1>2, <1>6 DEF HInv, SeenStayNamed
  <2>3. claim[x].status = "completed" =>
           Reached(head'[p], view[c].head.revision + 1, claim[x].hash)
    <3>1. view[c].head.revision + 1 \in Nat /\ view[c].head.revision + 1 > 0
      BY <1>4, <1>6
    <3>. QED  BY <1>1, <2>2, <3>1, ReachedStays DEF HInv
  <2>. QED  BY <1>2, <1>3, <1>4, <1>6, <2>1, <2>3 DEF CompletionReturned, Reached
<1>. QED  BY <1>1, <1>5, <1>6

\* So for a release.
LEMMA ReleaseReturns ==
    ASSUME IInv, HInv, [Next]_vars, NEW c \in Calls, Release(c)
    PROVE  ReleaseReturned(c)'
<1>. USE DEF IInv
<1>1. /\ Ready(c) /\ request[c].op # "acquire" /\ TargetSeenActive(c)
      /\ claim' = ChangedClaims(c, [SweptClaims(c)[Target(c)] EXCEPT !.status = "released"])
  BY DEF Release, MayChange
<1>2. Target(c) \in Calls /\ stage[c] # "idle" /\ Target(c) = request[c].claim
  BY <1>1, AtWork, Targets
<1>3. claim[Target(c)].status # "none"
  BY <1>1, <1>2 DEF ClaimsAreSound
<1>4. Target(c)' = Target(c)
  BY <1>2, <1>3, ReferredStep
<1>5. result'[c].status = "released" /\ stage'[c] = "claims"
  BY DEF Release, Return, Goto, TypeOK
<1>6. claim'[Target(c)].status \notin {"none", "active"}
  <2>1. SweptClaims(c)[Target(c)].status # "none"
    BY <1>2, <1>3, SweepClaims
  <2>2. SweptClaims(c) \in [Calls -> Claim]
    BY <1>2, SweepClaims
  <2>3. [SweptClaims(c)[Target(c)] EXCEPT !.status = "released"].status = "released"
    BY <1>2, <2>2, ClaimUpdates DEF Statuses
  <2>. QED  BY <1>1, <1>2, <2>1, <2>2, <2>3 DEF ChangedClaims
<1>. QED  BY <1>4, <1>5, <1>6 DEF ReleaseReturned

\* What was returned stays true while the handler reads it back.
LEMMA ResultsStep ==
    ASSUME IInv, HInv, [Next]_vars
    PROVE  ResultsAreTrue'
<1>. USE DEF IInv
<1>1. SUFFICES ASSUME NEW c \in Calls, stage'[c] \in {"claims", "heads"}
      PROVE  /\ request'[c].op = "complete" => CompletionReturned(c)'
             /\ request'[c].op = "release" => ReleaseReturned(c)'
             /\ request'[c].op = "acquire" => claim'[c].status # "none"
  BY DEF ResultsAreTrue
<1>2. CASE Complete(c)
  BY <1>2, CompleteReturns, RequestStep, AtWork DEF Complete
<1>3. CASE Release(c)
  BY <1>3, ReleaseReturns, RequestStep, AtWork DEF Release
<1>4. CASE GrantAcquire(c)
  <2>1. request[c].op = "acquire" /\ Ready(c) /\ claim'[c].status = "active"
    BY <1>4, ClaimWrites DEF GrantAcquire, MayInsert
  <2>. QED  BY <2>1, RequestStep, AtWork
<1>5. CASE Heartbeat(c)
  BY <1>5, RequestStep, AtWork DEF Heartbeat
<1>6. ASSUME stage[c] \in {"claims", "heads"}
      PROVE  /\ claim[Target(c)].status # "none" /\ stage[c] # "idle"
             /\ request[c].op = "complete" => CompletionReturned(c)
             /\ request[c].op = "release" => ReleaseReturned(c)
             /\ request[c].op = "acquire" => Target(c) = c
  BY <1>6, Targets DEF HInv, ResultsAreTrue, ClaimsAreSound
<1>7. ASSUME stage[c] \in {"claims", "heads"},
             \/ stage'[c] = stage[c] /\ result'[c] = result[c]
             \/ /\ stage'[c] = "heads" /\ stage[c] = "claims"
                /\ \/ /\ result'[c] = result[c]
                      /\ result[c].status \in {"completed", "released"} =>
                            claim[Target(c)].status = result[c].status
                   \/ result'[c].status = "none" /\ result'[c].head = result[c].head
      PROVE  /\ request[c].op = "complete" => CompletionReturned(c)'
             /\ request[c].op = "release" => ReleaseReturned(c)'
             /\ request[c].op = "acquire" => claim'[c].status # "none"
  <2>1. /\ request'[c] = request[c] /\ Target(c) \in Calls /\ Path(c) \in Paths
        /\ Target(c)' = Target(c) /\ Path(c)' = Path(c)
        /\ claim'[Target(c)].status # "none" /\ deployment' = deployment
        /\ claim[Target(c)].status # "active" => claim'[Target(c)] = claim[Target(c)]
    BY <1>6, <1>7, ReferredStep, WorldStep
  <2>2. result'[c].head = result[c].head /\ result[c].head.revision \in Nat
    BY <1>7 DEF CallsAreSound, Result, HeadRow
  <2>3. ASSUME request[c].op = "complete"
        PROVE  CompletionReturned(c)'
    <3>1. CompletionReturned(c)
      BY <1>6, <1>7, <2>3
    <3>2. claim'[Target(c)] = claim[Target(c)]
      BY <2>1, <3>1 DEF CompletionReturned
    <3>3. claim[Target(c)].status = "completed" =>
             Reached(head'[Path(c)], result[c].head.revision, claim[Target(c)].hash)
      BY <2>1, <2>2, <3>1, ReachedStays DEF CompletionReturned, HInv
    <3>4. result'[c].status \in {"completed", "none"}
      BY <1>7, <3>1 DEF CompletionReturned
    <3>5. stage'[c] = "heads" /\ result'[c].status # "none" => claim[Target(c)].status = "completed"
      BY <1>7, <3>1 DEF CompletionReturned
    <3>. QED  BY <2>1, <2>2, <3>1, <3>2, <3>3, <3>4, <3>5 DEF CompletionReturned, Reached
  <2>4. ASSUME request[c].op = "release"
        PROVE  ReleaseReturned(c)'
    <3>1. ReleaseReturned(c)
      BY <1>6, <1>7, <2>4
    <3>. QED  BY <1>7, <2>1, <3>1 DEF ReleaseReturned
  <2>. QED  BY <1>6, <1>7, <2>1, <2>3, <2>4
<1>8. CASE ConfirmClaim(c)
  <2>1. /\ stage[c] = "claims" /\ stage'[c] = "heads"
        /\ result'[c] = IF FoundClaim(c) THEN result[c] ELSE [result[c] EXCEPT !.status = "none"]
    BY <1>8 DEF ConfirmClaim, Goto, TypeOK
  <2>2. /\ [result[c] EXCEPT !.status = "none"].status = "none"
        /\ [result[c] EXCEPT !.status = "none"].head = result[c].head
    BY <2>1 DEF CallsAreSound, Result
  <2>3. ASSUME FoundClaim(c), result[c].status \in {"completed", "released"}
        PROVE  claim[Target(c)].status = result[c].status \/ claim[Target(c)].status = "active"
    <3>1. SweptClaims(c)[Target(c)].status = result[c].status
      BY <2>3 DEF FoundClaim
    <3>. QED  BY <1>6, <2>1, <2>3, <3>1, Targets, SweepClaims
  <2>4. ASSUME FoundClaim(c), result[c].status \in {"completed", "released"}
        PROVE  claim[Target(c)].status = result[c].status
    <3>1. CASE claim[Target(c)].status = "active"
      <4>1. SweptClaims(c)[Target(c)].status \in {"active", "expired"}
        BY <1>6, <2>1, <3>1, Targets, SweepClaims
      <4>. QED  BY <2>4, <4>1 DEF FoundClaim
    <3>. QED  BY <2>3, <2>4, <3>1
  <2>. QED  BY <1>6, <1>7, <2>1, <2>2, <2>4, ReferredStep
<1>9. CASE stage[c] \in {"claims", "heads"} /\ stage'[c] = stage[c] /\ result'[c] = result[c]
  BY <1>6, <1>7, <1>9, RequestStep
<1>10. ASSUME \/ Start(c) \/ Raise(c) \/ Lookup(c) \/ ReadClaim(c) \/ ReadHead(c)
              \/ RefuseAcquire(c) \/ LoseAcquire(c) \/ RefuseChange(c) \/ ConfirmHead(c)
       PROVE  FALSE
  BY <1>1, <1>10 DEF Start, Raise, Lookup, ReadClaim, ReadHead, RefuseAcquire, LoseAcquire,
     RefuseChange, ConfirmHead, Say, Goto, TypeOK
<1>11. Open(c) => stage'[c] = stage[c] /\ result'[c] = result[c]
  BY DEF Open
<1>. QED
  BY <1>1, <1>2, <1>3, <1>4, <1>5, <1>8, <1>9, <1>10, <1>11, CallStep DEF Step

\* Only the last readback confirms.
LEMMA AnswerStep ==
    ASSUME IInv, [Next]_vars, NEW c \in Calls, answer'[c] = "confirmed", answer[c] # "confirmed"
    PROVE  /\ stage[c] = "heads" /\ stage'[c] # "idle" /\ ConfirmHead(c)
           /\ result[c].status # "none" /\ FoundHead(c)
<1>. USE DEF IInv
<1>1. ASSUME NEW d \in Calls, \/ Start(d) \/ Open(d) \/ Raise(d) \/ Lookup(d) \/ ReadClaim(d)
                              \/ ReadHead(d) \/ RefuseAcquire(d) \/ LoseAcquire(d) \/ RefuseChange(d)
      PROVE  answer'[c] # "confirmed"
  BY <1>1 DEF Start, Open, Raise, Lookup, ReadClaim, ReadHead, RefuseAcquire, LoseAcquire,
     RefuseChange, Say, TypeOK
<1>2. ASSUME NEW d \in Calls, \/ GrantAcquire(d) \/ Heartbeat(d) \/ Complete(d) \/ Release(d)
                              \/ ConfirmClaim(d)
      PROVE  answer' = answer
  BY <1>2 DEF GrantAcquire, Heartbeat, Complete, Release, ConfirmClaim, Return
<1>3. Tick \/ UNCHANGED vars => answer' = answer
  BY DEF Tick, vars
<1>4. PICK d \in Calls : ConfirmHead(d)
  BY <1>1, <1>2, <1>3 DEF Next, Step
<1>5. d = c
  BY <1>4 DEF ConfirmHead, Say, TypeOK
<1>. QED  BY <1>4, <1>5 DEF ConfirmHead, Say, Goto, TypeOK

\* A confirmed change is in the tables, and stays.
LEMMA ConfirmedStep ==
    ASSUME IInv, HInv, [Next]_vars
    PROVE  ConfirmedHaveStarted' /\ ConfirmedChangesHappened'
<1>. USE DEF IInv
<1>1. SUFFICES ASSUME NEW c \in Calls, answer'[c] = "confirmed"
      PROVE  /\ stage'[c] # "idle"
             /\ CASE request'[c].op = "complete" ->
                       /\ claim'[Target(c)'].status = "completed"
                       /\ claim'[Target(c)'].hash = request'[c].hash
                  [] request'[c].op = "release" -> claim'[Target(c)'].status = "released"
                  [] OTHER -> claim'[Target(c)'].status # "none"
  BY DEF ConfirmedHaveStarted, ConfirmedChangesHappened
<1>2. ASSUME stage[c] # "idle", claim[Target(c)].status # "none",
             request[c].op = "complete" =>
                claim[Target(c)].status = "completed" /\ claim[Target(c)].hash = request[c].hash,
             request[c].op = "release" => claim[Target(c)].status = "released"
      PROVE  /\ stage'[c] # "idle"
             /\ CASE request'[c].op = "complete" ->
                       /\ claim'[Target(c)'].status = "completed"
                       /\ claim'[Target(c)'].hash = request'[c].hash
                  [] request'[c].op = "release" -> claim'[Target(c)'].status = "released"
                  [] OTHER -> claim'[Target(c)'].status # "none"
  BY <1>2, ReferredStep, RequestStep
<1>3. CASE answer[c] = "confirmed"
  <2>1. stage[c] # "idle"
    BY <1>3 DEF HInv, ConfirmedHaveStarted
  <2>2. /\ claim[Target(c)].status # "none"
        /\ request[c].op = "complete" =>
              claim[Target(c)].status = "completed" /\ claim[Target(c)].hash = request[c].hash
        /\ request[c].op = "release" => claim[Target(c)].status = "released"
    BY <1>3 DEF HInv, ConfirmedChangesHappened
  <2>. QED  BY <1>2, <2>1, <2>2
<1>4. CASE answer[c] # "confirmed"
  <2>1. stage[c] = "heads" /\ InStore(c) /\ result[c].status # "none" /\ FoundHead(c)
    BY <1>1, <1>4, AnswerStep DEF ConfirmHead
  <2>2. /\ request[c].op = "complete" => CompletionReturned(c)
        /\ request[c].op = "release" => ReleaseReturned(c)
        /\ request[c].op = "acquire" => claim[c].status # "none"
    BY <2>1 DEF HInv, ResultsAreTrue
  <2>3. claim[Target(c)].status # "none"
    BY <2>1, <2>2 DEF ClaimsAreSound, Target
  <2>4. ASSUME request[c].op = "complete"
        PROVE  claim[Target(c)].status = "completed" /\ claim[Target(c)].hash = request[c].hash
    <3>1. CompletionReturned(c)
      BY <2>2, <2>4
    <3>2. claim[Target(c)].status = "completed"
      BY <2>1, <3>1 DEF CompletionReturned
    <3>3. CASE deployment.snapshot
      BY <3>1, <3>3 DEF CompletionReturned
    <3>4. CASE ~deployment.snapshot
      <4>1. result[c].head = SweptHeads(c)[Path(c)]
        BY <2>1, <3>4 DEF FoundHead
      <4>2. result[c].head.hash = head[Path(c)].hash /\ result[c].head.revision = head[Path(c)].revision
        BY <2>1, <4>1, TargetPath, SweepHeads
      <4>. QED  BY <3>1, <3>2, <4>2 DEF CompletionReturned, Reached
    <3>. QED  BY <3>2, <3>3, <3>4
  <2>5. request[c].op = "release" => claim[Target(c)].status = "released"
    BY <2>1, <2>2 DEF ReleaseReturned
  <2>. QED  BY <1>2, <2>1, <2>3, <2>4, <2>5
<1>. QED  BY <1>3, <1>4

\* The events tell of completions that took place, where the claim is read
\* under its lock or by one process.
LEMMA EventsStep ==
    ASSUME IInv, HInv, [Next]_vars
    PROVE  EventsAreTrue'
<1>. USE DEF IInv
<1>1. SUFFICES ASSUME deployment.snapshot \/ OneProcess, NEW e \in events'
      PROVE  claim'[e[1]].status = "completed" /\ claim'[e[1]].hash = e[2]
  <2>1. deployment' = deployment
    BY WorldStep
  <2>. QED  BY <1>1, <2>1 DEF EventsAreTrue, FalseEvents, OneProcess
<1>2. CASE e \in events
  <2>1. claim[e[1]].status = "completed" /\ claim[e[1]].hash = e[2]
    BY <1>1, <1>2 DEF HInv, EventsAreTrue, FalseEvents
  <2>2. e[1] \in Calls
    BY <1>2 DEF TypeOK
  <2>. QED  BY <2>1, <2>2, ClaimStep
<1>3. CASE e \notin events
  <2>1. PICK c \in Calls : Complete(c)
    <3>1. ASSUME NEW c \in Calls, Step(c), ~Complete(c)
          PROVE  events' = events
      BY <3>1 DEF Step, Start, Open, Raise, Lookup, ReadClaim, ReadHead, RefuseAcquire,
         GrantAcquire, LoseAcquire, RefuseChange, Heartbeat, Release, ConfirmClaim,
         ConfirmHead, tables
    <3>2. Tick \/ UNCHANGED vars => events' = events
      BY DEF Tick, vars, tables
    <3>. QED  BY <1>3, <3>1, <3>2 DEF Next
  <2>2. e = <<Target(c), request[c].hash>>
    BY <1>3, <2>1 DEF Complete
  <2>3. CASE /\ HeadCompleted(Path(c)) /\ head[Path(c)].active = Target(c)
             /\ head'[Path(c)].hash = request[c].hash /\ Path(c) \in Paths
    BY <2>2, <2>3, CompletedRow
  <2>4. ASSUME stage[c] = "headRead", claim[Target(c)].status # "active"
        PROVE  FALSE
    <3>1. InStore(c) /\ ~deployment.snapshot
      BY <2>4 DEF CallsAreSound
    <3>2. view[c].active = Active
      BY <1>1, <3>1 DEF ReadingsAreCurrent
    <3>3. Target(c) \in view[c].active
      BY <2>1, <2>4 DEF Complete, MayChange, TargetSeenActive
    <3>. QED  BY <2>4, <3>2, <3>3 DEF Active
  <2>5. \/ /\ HeadCompleted(Path(c)) /\ head[Path(c)].active = Target(c)
           /\ head'[Path(c)].hash = request[c].hash /\ Path(c) \in Paths
        \/ stage[c] = "headRead" /\ claim[Target(c)].status # "active"
    BY <2>1, CompleteEffect DEF HInv
  <2>. QED  BY <2>3, <2>4, <2>5
<1>. QED  BY <1>2, <1>3

\* The history is inductive.
LEMMA NextHInv == IInv /\ HInv /\ [Next]_vars => HInv'
BY UntrackedStep, RevisionsStep, SeenStep, ResultsStep, ConfirmedStep, EventsStep DEF HInv

\* It holds in every behavior.
THEOREM History == Spec => []HInv
BY InitHInv, NextHInv, Invariant, PTL DEF Spec

\* Every completion has advanced its head by one revision, and nothing else has
\* (complete_uai_edit_claim), on any database and with any number of processes.
THEOREM RevisionsCount == Spec => []RevisionsCountCompletions
<1>1. HInv => RevisionsCountCompletions
  BY DEF HInv, RevisionsAreCounted, RevisionsCountCompletions, Completions
<1>. QED  BY <1>1, History, PTL

\* What a handler confirmed after its readback is in the tables, on any database
\* (_uai_claim_readback_visible).
THEOREM ConfirmationsHold == Spec => []ConfirmedChangesHappened
<1>1. HInv => ConfirmedChangesHappened
  BY DEF HInv
<1>. QED  BY <1>1, History, PTL

\* The tables of claims, heads and events tell one story.
THEOREM TablesTellOneStory == Spec => []TablesAgree
<1>1. HInv => EventsAreTrue
  BY DEF HInv
<1>. QED
  BY <1>1, History, TypeCorrect, HeadsAgree, RevisionsCount, ConfirmationsHold, PTL DEF TablesAgree

---------------------------------------------------------------------------
(* FileStore: the lock, the file and the documents that requests hold. *)

\* What the record of a worker consists of, whatever its call and document are.
WorkerRow(r) ==
    r = [pc |-> r.pc, call |-> r.call, todo |-> r.todo, seen |-> r.seen, doc |-> r.doc]

\* Whether a worker with this record holds the lock of its process (as Holds says).
HoldsLock(r) ==
    \/ r.pc \in {"tidy", "sweep", "write"}
    \/ r.pc = "store" /\ Head(r.todo) \notin WithoutLock

\* A worker that holds the lock has what it read, swept or made of the file.
HasRead(r, f, l) ==
    /\ r.pc = "store" /\ Head(r.todo) \notin WithoutLock => r.doc = f
    /\ r.pc \in {"tidy", "sweep"} => \E x \in SUBSET l : r.doc = _normalize_store(f, x)
    /\ r.pc = "write" /\ Head(r.todo) \notin WithoutLock =>
          \E x \in SUBSET l :
             r.doc = Do(f, Head(r.todo), [r.call EXCEPT !.late = x, !.seen = r.seen])

\* One worker holds the lock, with what is in the file.
OneHolder(ws, f, l) ==
    /\ \A w, o \in Workers : HoldsLock(ws[w]) /\ HoldsLock(ws[o]) => w = o
    /\ \A w \in Workers : HasRead(ws[w], f, l)

\* While half a file is there, someone writes or the process has crashed.
HalfIsWritten(h, x, ws) == h => x \/ \E w \in Workers : ws[w].pc \in {"sweep", "write"}

\* The inductive invariant.
LockInv ==
    /\ workers = [w \in Workers |-> workers[w]]
    /\ \A w \in Workers : WorkerRow(workers[w])
    /\ HalfIsWritten(half, crashed, workers)
    /\ lane.processes = 1 => OneHolder(workers, file, late)

\* A record of a worker is given by its fields.
LEMMA RowIs ==
  ASSUME NEW x, NEW p, NEW c, NEW t, NEW s, NEW d,
         x \in [pc : {p}, call : {c}, todo : {t}, seen : {s}, doc : {d}]
  PROVE  x = [pc |-> p, call |-> c, todo |-> t, seen |-> s, doc |-> d]
OBVIOUS

\* What updating fields of a worker's record gives.
LEMMA RowBegins ==
  ASSUME NEW r, WorkerRow(r), NEW c, NEW t, NEW y, y = [r EXCEPT !.pc = "load", !.todo = t, !.call = c]
  PROVE  y = [pc |-> "load", call |-> c, todo |-> t, seen |-> r.seen, doc |-> r.doc]
<1>1. r \in [pc : {r.pc}, call : {r.call}, todo : {r.todo}, seen : {r.seen}, doc : {r.doc}]
  BY DEF WorkerRow
<1>2. y \in [pc : {"load"}, call : {c}, todo : {t}, seen : {r.seen}, doc : {r.doc}]
  BY <1>1
<1>. QED  BY <1>2, RowIs

\* What was loaded goes into the record.
LEMMA RowReads ==
  ASSUME NEW r, WorkerRow(r), NEW b, NEW d, NEW y, y = [r EXCEPT !.doc = d, !.call.before = b]
  PROVE  y = [pc |-> r.pc, call |-> [r.call EXCEPT !.before = b], todo |-> r.todo,
              seen |-> r.seen, doc |-> d]
<1>1. r \in [pc : {r.pc}, call : {r.call}, todo : {r.todo}, seen : {r.seen}, doc : {r.doc}]
  BY DEF WorkerRow
<1>. DEFINE c == [r.call EXCEPT !.before = b]
<1>2. y \in [pc : {r.pc}, call : {c}, todo : {r.todo}, seen : {r.seen}, doc : {d}]
  BY <1>1
<1>. HIDE DEF c
<1>3. y = [pc |-> r.pc, call |-> c, todo |-> r.todo, seen |-> r.seen, doc |-> d]
  BY <1>2, RowIs
<1>. QED  BY <1>3 DEF c

\* What is being written goes into the record.
LEMMA RowWrites ==
  ASSUME NEW r, WorkerRow(r), NEW d, NEW y, y = [[r EXCEPT !.pc = "write"] EXCEPT !.doc = d]
  PROVE  y = [pc |-> "write", call |-> r.call, todo |-> r.todo, seen |-> r.seen, doc |-> d]
<1>1. r \in [pc : {r.pc}, call : {r.call}, todo : {r.todo}, seen : {r.seen}, doc : {r.doc}]
  BY DEF WorkerRow
<1>2. y \in [pc : {"write"}, call : {r.call}, todo : {r.todo}, seen : {r.seen}, doc : {d}]
  BY <1>1
<1>. QED  BY <1>2, RowIs

\* A section that is over leaves its worker idle or before the next load.
LEMMA OnwardIsFree ==
  ASSUME NEW r, NEW found, WorkerRow(r)
  PROVE  /\ WorkerRow(Onward(r, found)) /\ ~HoldsLock(Onward(r, found))
         /\ Onward(r, found).pc \in {"idle", "load"}
<1>1. CASE Len(r.todo) = 1
  <2>1. Onward(r, found) = Idle
    BY <1>1 DEF Onward
  <2>. QED  BY <2>1 DEF Idle, WorkerRow, HoldsLock
<1>2. CASE Len(r.todo) /= 1
  <2>1. PICK s : Onward(r, found) = [r EXCEPT !.pc = "load", !.todo = Tail(@), !.seen = s,
                                              !.doc = _blank_store]
    BY <1>2 DEF Onward
  <2>2. Onward(r, found) = [pc |-> "load", call |-> r.call, todo |-> Tail(r.todo), seen |-> s,
                            doc |-> _blank_store]
    BY <2>1 DEF WorkerRow
  <2>. QED  BY <2>2 DEF WorkerRow, HoldsLock
<1>. QED  BY <1>1, <1>2

\* So does a section that returned without saving.
LEMMA BackIsFree ==
  ASSUME NEW r, WorkerRow(r)
  PROVE  WorkerRow(Back(r)) /\ ~HoldsLock(Back(r)) /\ Back(r).pc \in {"idle", "load"}
<1>1. CASE Back(r) = Onward(r, r.doc)
  BY <1>1, OnwardIsFree
<1>2. CASE Back(r) = Idle
  BY <1>2 DEF Idle, WorkerRow, HoldsLock
<1>3. CASE Back(r) = [r EXCEPT !.pc = "load", !.todo = <<"release_idempotency_claim">>,
                               !.doc = _blank_store]
  <2>1. Back(r) = [pc |-> "load", call |-> r.call, todo |-> <<"release_idempotency_claim">>,
                   seen |-> r.seen, doc |-> _blank_store]
    BY <1>3 DEF WorkerRow
  <2>. QED  BY <2>1 DEF WorkerRow, HoldsLock
<1>. QED  BY <1>1, <1>2, <1>3 DEF Back

\* A section that has loaded goes on to its save with what it loaded, or is over.
LEMMA LoadedIsRow ==
  ASSUME NEW r, WorkerRow(r)
  PROVE  /\ WorkerRow(Loaded(r)) /\ Loaded(r).pc \in {"idle", "load", "store"}
         /\ HoldsLock(Loaded(r)) => Loaded(r).pc = "store"
         /\ Loaded(r).pc = "store" => Loaded(r).doc = r.doc
<1>1. CASE Head(r.todo) = "load"
  BY <1>1, OnwardIsFree DEF Loaded
<1>2. CASE Head(r.todo) /= "load"
  <2>1. Loaded(r) = [pc |-> "store", call |-> r.call, todo |-> r.todo, seen |-> r.seen,
                     doc |-> r.doc]
    BY <1>2 DEF Loaded, WorkerRow
  <2>. QED  BY <2>1 DEF WorkerRow, HoldsLock
<1>. QED  BY <1>1, <1>2

\* In one process, a worker for whom the lock is free is the only one to take it.
LEMMA NobodyElseHolds ==
  ASSUME NEW w \in Workers, LockFree(w), lane.processes = 1
  PROVE  \A o \in Workers \ {w} : ~HoldsLock(workers[o])
BY DEF LockFree, Peers, Process, Holds, HoldsLock

\* The invariant after a worker has moved: it holds the lock alone and with what is in
\* the file, and the others keep what they have read.
LEMMA WorkerMoves ==
  ASSUME LockInv, NEW w \in Workers, NEW r, WorkerRow(r),
         workers' = [workers EXCEPT ![w] = r], lane' = lane,
         half' => \/ crashed' \/ r.pc \in {"sweep", "write"}
                  \/ ~crashed /\ half /\ workers[w].pc \notin {"sweep", "write"},
         lane.processes = 1 =>
            /\ HoldsLock(r) => \A o \in Workers \ {w} : ~HoldsLock(workers[o])
            /\ HasRead(r, file', late')
            /\ \/ file' = file /\ late \subseteq late'
               \/ \A o \in Workers \ {w} : ~HoldsLock(workers[o])
  PROVE  LockInv'
<1>1. /\ workers' = [o \in Workers |-> IF o = w THEN r ELSE workers[o]]
      /\ \A o \in Workers : workers'[o] = IF o = w THEN r ELSE workers[o]
  BY DEF LockInv
<1>2. workers' = [o \in Workers |-> workers'[o]]
  BY <1>1
<1>3. \A o \in Workers : WorkerRow(workers'[o])
  BY <1>1 DEF LockInv
<1>4. HalfIsWritten(half', crashed', workers')
  BY <1>1 DEF LockInv, HalfIsWritten
<1>5. ASSUME lane.processes = 1 PROVE OneHolder(workers', file', late')
  <2>1. OneHolder(workers, file, late)
    BY <1>5 DEF LockInv
  <2>2. ASSUME NEW o \in Workers \ {w} PROVE HasRead(workers[o], file', late')
    <3>1. CASE ~HoldsLock(workers[o])
      BY <3>1 DEF HasRead, HoldsLock
    <3>2. CASE file' = file /\ late \subseteq late'
      BY <3>2, <2>1, <2>2 DEF OneHolder, HasRead
    <3>. QED  BY <1>5, <2>2, <3>1, <3>2
  <2>. QED  BY <1>1, <1>5, <2>1, <2>2 DEF OneHolder
<1>. QED  BY <1>2, <1>3, <1>4, <1>5 DEF LockInv

\* Each kind of step keeps the invariant.
LEMMA BeginKeeps ==
  ASSUME LockInv, NEW w \in Workers, NEW c, Begin(w, c) PROVE LockInv'
<1>. DEFINE call == [c EXCEPT !.n = begun + 1]
            todo == Sections(c)
            r == [Idle EXCEPT !.pc = "load", !.todo = todo, !.call = call]
<1>2. /\ workers[w].pc = "idle" /\ workers' = [workers EXCEPT ![w] = r]
      /\ UNCHANGED <<lane, file, half, late, crashed>>
  BY DEF Begin
<1>. HIDE DEF call, todo
<1>1. WorkerRow(r) /\ r.pc = "load"
  <2>1. WorkerRow(Idle)
    BY DEF Idle, WorkerRow
  <2>2. r = [pc |-> "load", call |-> call, todo |-> todo, seen |-> Idle.seen, doc |-> Idle.doc]
    BY <2>1, RowBegins
  <2>. HIDE DEF r
  <2>. QED  BY <2>2 DEF WorkerRow
<1>. HIDE DEF r
<1>3. HasRead(r, file', late') /\ ~HoldsLock(r)
  BY <1>1 DEF HasRead, HoldsLock
<1>. QED  BY <1>1, <1>2, <1>3, WorkerMoves

\* A load: of the file as it is, or of what the sweep leaves of it.
LEMMA LoadKeeps ==
  ASSUME LockInv, NEW w \in Workers, _load(w) PROVE LockInv'
<1>. DEFINE normal == _normalize_store(file, late)
            before == IF workers[w].seen = <<>> /\ Head(workers[w].todo) = Sections(workers[w].call)[1]
                      THEN late ELSE workers[w].call.before
            q == [workers[w] EXCEPT !.doc = normal, !.call.before = before]
            r == IF normal = file THEN Loaded(q) ELSE [q EXCEPT !.pc = "tidy"]
<1>1. /\ MayLoad(w) /\ ~half /\ workers' = [workers EXCEPT ![w] = r]
      /\ UNCHANGED <<lane, file, half, late, begun, crashed>>
  BY DEF _load
<1>2. WorkerRow(workers[w])
  BY DEF LockInv
<1>4. LockFree(w)
  BY <1>1 DEF MayLoad
<1>. HIDE DEF normal, before
<1>3. WorkerRow(q) /\ q.doc = normal /\ q.todo = workers[w].todo
  <2>1. q = [pc |-> workers[w].pc, call |-> [workers[w].call EXCEPT !.before = before],
             todo |-> workers[w].todo, seen |-> workers[w].seen, doc |-> normal]
    BY <1>2, RowReads
  <2>. HIDE DEF q
  <2>. QED  BY <2>1 DEF WorkerRow
<1>. HIDE DEF q
<1>. USE DEF normal
<1>5. CASE normal = file
  <2>1. r = Loaded(q)
    BY <1>5
  <2>. HIDE DEF r
  <2>2. WorkerRow(r) /\ HasRead(r, file', late')
    BY <1>1, <1>3, <1>5, <2>1, LoadedIsRow DEF HasRead
  <2>. QED  BY <1>1, <1>4, <2>2, NobodyElseHolds, WorkerMoves
<1>6. CASE normal /= file
  <2>1. r = [pc |-> "tidy", call |-> q.call, todo |-> q.todo, seen |-> q.seen, doc |-> normal]
    BY <1>3, <1>6 DEF WorkerRow
  <2>. HIDE DEF r
  <2>2. WorkerRow(r) /\ HasRead(r, file', late')
    BY <1>1, <2>1 DEF HasRead, WorkerRow
  <2>. QED  BY <1>1, <1>4, <2>2, NobodyElseHolds, WorkerMoves
<1>. QED  BY <1>5, <1>6

\* A load that fails.
LEMMA LoadFailsKeeps ==
  ASSUME LockInv, NEW w \in Workers, LoadFails(w) PROVE LockInv'
<1>1. /\ workers[w].pc = "load" /\ workers' = [workers EXCEPT ![w] = Idle]
      /\ UNCHANGED <<lane, file, half, late, begun, crashed>>
  BY DEF LoadFails, MayLoad
<1>2. WorkerRow(Idle) /\ HasRead(Idle, file', late') /\ ~HoldsLock(Idle)
  BY DEF Idle, WorkerRow, HasRead, HoldsLock
<1>. QED  BY <1>1, <1>2, WorkerMoves

\* A worker whose sweep goes into the file is one that has swept.
LEMMA RowSweeps ==
  ASSUME NEW r, WorkerRow(r), NEW y, y = [r EXCEPT !.pc = "sweep"]
  PROVE  /\ WorkerRow(y) /\ y.pc = "sweep" /\ y.call = r.call /\ y.todo = r.todo
         /\ y.seen = r.seen /\ y.doc = r.doc
<1>1. r \in [pc : {r.pc}, call : {r.call}, todo : {r.todo}, seen : {r.seen}, doc : {r.doc}]
  BY DEF WorkerRow
<1>2. y \in [pc : {"sweep"}, call : {r.call}, todo : {r.todo}, seen : {r.seen}, doc : {r.doc}]
  BY <1>1
<1>3. y = [pc |-> "sweep", call |-> r.call, todo |-> r.todo, seen |-> r.seen, doc |-> r.doc]
  BY <1>2, RowIs
<1>. QED  BY <1>3 DEF WorkerRow

\* The beginning of a sweep in place.
LEMMA InPlaceKeeps ==
  ASSUME LockInv, NEW w \in Workers, SweepInPlace(w) PROVE LockInv'
<1>1. PICK r : r = [workers[w] EXCEPT !.pc = "sweep"]
  OBVIOUS
<1>2. /\ workers[w].pc = "tidy" /\ workers' = [workers EXCEPT ![w] = r]
      /\ UNCHANGED <<lane, file, late, begun, crashed>>
  BY <1>1 DEF SweepInPlace
<1>3. WorkerRow(workers[w]) /\ HoldsLock(workers[w])
  BY <1>2 DEF LockInv, HoldsLock
<1>4. WorkerRow(r) /\ r.pc = "sweep" /\ r.doc = workers[w].doc
  BY <1>1, <1>3, RowSweeps
<1>5. lane.processes = 1 => HasRead(r, file', late')
  BY <1>2, <1>4 DEF LockInv, OneHolder, HasRead
<1>6. lane.processes = 1 => \A o \in Workers \ {w} : ~HoldsLock(workers[o])
  BY <1>3 DEF LockInv, OneHolder
<1>7. lane' = lane /\ file' = file /\ late' = late /\ WorkerRow(r) /\ r.pc = "sweep"
  BY <1>2, <1>4
<1>8. workers' = [workers EXCEPT ![w] = r]
  BY <1>2
<1>. QED  BY <1>5, <1>6, <1>7, <1>8, WorkerMoves

\* The save of the sweep.
LEMMA TidyKeeps ==
  ASSUME LockInv, NEW w \in Workers, Tidy(w) PROVE LockInv'
<1>. DEFINE r == Loaded(workers[w])
<1>1. /\ workers[w].pc \in {"tidy", "sweep"} /\ file' = workers[w].doc /\ ~half'
      /\ workers' = [workers EXCEPT ![w] = r] /\ UNCHANGED <<lane, late, begun, crashed>>
  BY DEF Tidy
<1>2. WorkerRow(workers[w]) /\ HoldsLock(workers[w])
  BY <1>1 DEF LockInv, HoldsLock
<1>3. WorkerRow(r) /\ HasRead(r, file', late')
  BY <1>1, <1>2, LoadedIsRow DEF HasRead
<1>4. lane.processes = 1 => \A o \in Workers \ {w} : ~HoldsLock(workers[o])
  BY <1>2 DEF LockInv, OneHolder
<1>. HIDE DEF r
<1>. QED  BY <1>1, <1>3, <1>4, WorkerMoves

\* Whoever may save is alone with the file, locked or not.
LEMMA MaySaveIsAlone ==
  ASSUME LockInv, NEW w \in Workers, MaySave(w), lane.processes = 1
  PROVE  \A o \in Workers \ {w} : ~HoldsLock(workers[o])
<1>1. CASE Head(workers[w].todo) \in WithoutLock
  BY <1>1, NobodyElseHolds DEF MaySave
<1>2. CASE Head(workers[w].todo) \notin WithoutLock
  BY <1>2 DEF MaySave, LockInv, OneHolder, HoldsLock
<1>. QED  BY <1>1, <1>2

\* A section that does not save.
LEMMA ReturnsKeeps ==
  ASSUME LockInv, NEW w \in Workers, Returns(w) PROVE LockInv'
<1>. DEFINE r == Back(workers[w])
<1>1. /\ workers[w].pc = "store" /\ workers' = [workers EXCEPT ![w] = r]
      /\ UNCHANGED <<lane, file, half, late, begun, crashed>>
  BY DEF Returns, MaySave
<1>2. WorkerRow(r) /\ ~HoldsLock(r) /\ HasRead(r, file', late')
  BY BackIsFree DEF LockInv, HasRead
<1>. HIDE DEF r
<1>. QED  BY <1>1, <1>2, WorkerMoves

\* A save that replaces the file.
LEMMA SaveKeeps ==
  ASSUME LockInv, NEW w \in Workers, _save(w) PROVE LockInv'
<1>. DEFINE r == Onward(workers[w], workers[w].doc)
<1>1. /\ MaySave(w) /\ ~half' /\ workers' = [workers EXCEPT ![w] = r] /\ lane' = lane
  BY DEF _save
<1>2. WorkerRow(r) /\ ~HoldsLock(r) /\ HasRead(r, file', late')
  BY OnwardIsFree DEF LockInv, HasRead
<1>. HIDE DEF r
<1>. QED  BY <1>1, <1>2, MaySaveIsAlone, WorkerMoves

\* The beginning of a write in place.
LEMMA WriteKeeps ==
  ASSUME LockInv, NEW w \in Workers, WriteInPlace(w) PROVE LockInv'
<1>. DEFINE section == Head(workers[w].todo)
            call == [workers[w].call EXCEPT !.late = late, !.seen = workers[w].seen]
            d == Do(workers[w].doc, section, call)
            r == [pc |-> "write", call |-> workers[w].call, todo |-> workers[w].todo,
                  seen |-> workers[w].seen, doc |-> d]
<1>1. WorkerRow(workers[w])
  BY DEF LockInv
<1>2. d = Saves(w)
  BY DEF Saves, Now
<1>3. /\ MaySave(w) /\ workers[w].pc = "store"
      /\ workers' = [workers EXCEPT ![w].pc = "write", ![w].doc = Saves(w)]
      /\ UNCHANGED <<lane, file, late, begun, crashed>>
  BY DEF WriteInPlace, MaySave
<1>. HIDE DEF d
<1>4. workers' = [workers EXCEPT ![w] = r]
  <2>1. [[workers[w] EXCEPT !.pc = "write"] EXCEPT !.doc = d] = r
    BY <1>1, RowWrites
  <2>2. workers' = [[workers EXCEPT ![w].pc = "write"] EXCEPT ![w].doc = d]
    BY <1>2, <1>3
  <2>3. workers = [o \in Workers |-> workers[o]]
    BY DEF LockInv
  <2>. HIDE DEF r
  <2>4. workers' = [workers EXCEPT ![w] = [[workers[w] EXCEPT !.pc = "write"] EXCEPT !.doc = d]]
    BY <2>2, <2>3
  <2>. QED  BY <2>1, <2>4
<1>5. lane.processes = 1 /\ section \notin WithoutLock =>
        d = Do(file, section, [workers[w].call EXCEPT !.late = late, !.seen = workers[w].seen])
  <2>1. lane.processes = 1 /\ section \notin WithoutLock => workers[w].doc = file
    BY <1>3 DEF LockInv, OneHolder, HasRead
  <2>. QED  BY <2>1 DEF d
<1>6. /\ WorkerRow(r) /\ r.pc = "write" /\ r.todo = workers[w].todo /\ r.doc = d
      /\ r.call = workers[w].call /\ r.seen = workers[w].seen
  BY DEF WorkerRow
<1>. HIDE DEF r
<1>7. lane.processes = 1 => HasRead(r, file', late')
  BY <1>3, <1>5, <1>6 DEF HasRead
<1>. QED  BY <1>3, <1>4, <1>6, <1>7, MaySaveIsAlone, WorkerMoves

\* Its end.
LEMMA WriteEndsKeeps ==
  ASSUME LockInv, NEW w \in Workers, WriteEnds(w) PROVE LockInv'
<1>. DEFINE r == Onward(workers[w], file')
<1>1. /\ workers[w].pc = "write" /\ ~half' /\ workers' = [workers EXCEPT ![w] = r] /\ lane' = lane
  BY DEF WriteEnds
<1>2. WorkerRow(r) /\ ~HoldsLock(r) /\ HasRead(r, file', late')
  BY OnwardIsFree DEF LockInv, HasRead
<1>3. lane.processes = 1 => \A o \in Workers \ {w} : ~HoldsLock(workers[o])
  BY <1>1 DEF LockInv, OneHolder, HoldsLock
<1>. HIDE DEF r
<1>. QED  BY <1>1, <1>2, <1>3, WorkerMoves

\* A deadline.
LEMMA LapseKeeps ==
  ASSUME LockInv, NEW k, Lapse(k) PROVE LockInv'
<1>1. UNCHANGED <<lane, file, half, workers, begun, crashed>> /\ late \subseteq late'
  BY DEF Lapse
<1>2. lane.processes = 1 => OneHolder(workers', file', late')
  BY <1>1 DEF LockInv, OneHolder, HasRead
<1>. QED  BY <1>1, <1>2 DEF LockInv, HalfIsWritten

\* A crash.
LEMMA CrashKeeps ==
  ASSUME LockInv, NEW w \in Workers, Crash(w) PROVE LockInv'
<1>1. /\ crashed' /\ lane' = lane /\ UNCHANGED <<file, late>>
      /\ workers' = [o \in Workers |-> IF Process(o) = Process(w) THEN Idle ELSE workers[o]]
  BY DEF Crash
<1>2. WorkerRow(Idle) /\ HasRead(Idle, file, late) /\ ~HoldsLock(Idle)
  BY DEF Idle, WorkerRow, HasRead, HoldsLock
<1>3. workers' = [o \in Workers |-> workers'[o]] /\ \A o \in Workers : WorkerRow(workers'[o])
  BY <1>1, <1>2 DEF LockInv
<1>4. lane.processes = 1 => OneHolder(workers', file', late')
  BY <1>1, <1>2 DEF LockInv, OneHolder
<1>. QED  BY <1>1, <1>3, <1>4 DEF LockInv, HalfIsWritten

\* At first nobody holds anything.
LEMMA LockInvStarts == FileInit => LockInv
<1>1. WorkerRow(Idle) /\ ~HoldsLock(Idle) /\ HasRead(Idle, file, late)
  BY DEF Idle, WorkerRow, HasRead, HoldsLock
<1>. QED  BY <1>1 DEF FileInit, LockInv, OneHolder, HalfIsWritten

\* Every step keeps it.
LEMMA LockInvStep == LockInv /\ [FileNext]_fileVars => LockInv'
<1>. SUFFICES ASSUME LockInv, [FileNext]_fileVars PROVE LockInv'
  OBVIOUS
<1>1. CASE UNCHANGED fileVars
  BY <1>1 DEF fileVars, LockInv, OneHolder, HalfIsWritten
<1>2. ASSUME NEW w \in Workers, NEW c \in Offered, Begin(w, c) PROVE LockInv'
  BY <1>2, BeginKeeps
<1>3. ASSUME NEW w \in Workers, _load(w) PROVE LockInv'
  BY <1>3, LoadKeeps
<1>4. ASSUME NEW w \in Workers, LoadFails(w) PROVE LockInv'
  BY <1>4, LoadFailsKeeps
<1>5. ASSUME NEW w \in Workers, Tidy(w) PROVE LockInv'
  BY <1>5, TidyKeeps
<1>6. ASSUME NEW w \in Workers, Returns(w) PROVE LockInv'
  BY <1>6, ReturnsKeeps
<1>7. ASSUME NEW w \in Workers, _save(w) PROVE LockInv'
  BY <1>7, SaveKeeps
<1>8. ASSUME NEW w \in Workers, WriteInPlace(w) PROVE LockInv'
  BY <1>8, WriteKeeps
<1>9. ASSUME NEW w \in Workers, WriteEnds(w) PROVE LockInv'
  BY <1>9, WriteEndsKeeps
<1>10. ASSUME NEW w \in Workers, Crash(w) PROVE LockInv'
  BY <1>10, CrashKeeps
<1>11. ASSUME NEW k \in lane.over, Lapse(k) PROVE LockInv'
  BY <1>11, LapseKeeps
<1>12. ASSUME NEW w \in Workers, SweepInPlace(w) PROVE LockInv'
  BY <1>12, InPlaceKeeps
<1>13. CASE \E k \in lane.over : Lapse(k)
  BY <1>11, <1>13
<1>. QED
  BY <1>1, <1>2, <1>3, <1>4, <1>5, <1>6, <1>7, <1>8, <1>9, <1>10, <1>12, <1>13, ZenonT(60)
     DEF FileNext

\* It holds in every behavior.
LEMMA LockInvAlways == FileSpec => []LockInv
BY LockInvStarts, LockInvStep, PTL DEF FileSpec

\* Under the invariant no locked section of the one process holds a stale document.
LEMMA NoLockedSave ==
  ASSUME LockInv, lane.processes = 1 PROVE ~LockedSave
<1>. SUFFICES ASSUME NEW w \in Workers, Head(workers[w].todo) \notin WithoutLock, Stale(w)
              PROVE  FALSE
  BY DEF LockedSave
<1>1. HasRead(workers[w], file, late)
  BY DEF LockInv, OneHolder
<1>2. Head(workers[w].todo) /= "submit_sync_mutation"
  BY DEF WithoutLock
<1>. QED  BY <1>1, <1>2 DEF Stale, HasRead

\* Half a file is met only after a crash: a writer that lives holds the lock.
LEMMA HalfIsNotMet ==
  ASSUME LockInv, lane.processes = 1, [FileNext]_fileVars, half,
         NEW w \in Workers, workers[w].pc = "load", workers'[w] = Idle
  PROVE  crashed'
<1>1. crashed => crashed'
  BY DEF FileNext, fileVars, Begin, _load, LoadFails, SweepInPlace, Tidy, Returns, _save,
         WriteInPlace, WriteEnds, Lapse, Crash
<1>2. workers'[w] /= workers[w]
  BY DEF Idle
<1>3. ASSUME NEW v \in Workers, NEW r, workers' = [workers EXCEPT ![v] = r] PROVE v = w
  BY <1>2, <1>3 DEF LockInv
<1>4. CASE \E o \in Workers : workers[o].pc \in {"sweep", "write"}
  <2>1. ~LockFree(w)
    BY <1>4, NobodyElseHolds DEF HoldsLock
  <2>2. ~MayLoad(w)
    BY <2>1 DEF MayLoad
  <2>3. ASSUME NEW v \in Workers,
               \/ \E c \in Offered : Begin(v, c)
               \/ _load(v) \/ LoadFails(v) \/ SweepInPlace(v) \/ Tidy(v) \/ Returns(v)
               \/ _save(v) \/ WriteEnds(v)
        PROVE  v = w
    BY <2>3, <1>3 DEF Begin, _load, LoadFails, SweepInPlace, Tidy, Returns, _save, WriteEnds
  <2>4. ASSUME NEW v \in Workers, WriteInPlace(v) PROVE v = w
    BY <2>4, <1>2 DEF WriteInPlace, LockInv
  <2>5. ASSUME NEW v \in Workers, Crash(v) PROVE crashed'
    BY <2>5 DEF Crash
  <2>6. ~UNCHANGED fileVars /\ \A k : ~Lapse(k)
    BY <1>2 DEF fileVars, Lapse
  <2>7. /\ \A c : ~Begin(w, c)
        /\ ~_load(w) /\ ~LoadFails(w) /\ ~SweepInPlace(w) /\ ~Tidy(w) /\ ~Returns(w) /\ ~_save(w)
        /\ ~WriteInPlace(w) /\ ~WriteEnds(w)
    BY <2>2 DEF Begin, _load, LoadFails, SweepInPlace, Tidy, Returns, _save, WriteInPlace,
       WriteEnds, MaySave
  <2>. QED  BY <2>3, <2>4, <2>5, <2>6, <2>7 DEF FileNext
<1>. QED  BY <1>1, <1>4 DEF LockInv, HalfIsWritten

\* In one process a locked section saves what it made of the document in the file
\* (_LOCK around _load and _save), and half a file is met only after a crash.
THEOREM LockIsKept == FileSpec => LockHolds
<1>1. LockInv /\ [FileNext]_fileVars =>
        [ lane.processes = 1 =>
          /\ ~LockedSave
          /\ \A w \in Workers :
                half /\ workers[w].pc = "load" /\ workers'[w] = Idle => crashed' ]_fileVars
  BY NoLockedSave, HalfIsNotMet
<1>. QED  BY <1>1, LockInvAlways, PTL DEF FileSpec, LockHolds

---------------------------------------------------------------------------
(* What the requests at work have read and made. *)

\* A document whose records fit and whose credentials do.
Sound(d, U) == Good(d, U) /\ Credentials(d)

\* A document that is sound for some numbers is sound for fewer.
LEMMA FewerSound ==
  ASSUME NEW d, NEW U, NEW V, V \subseteq U, Sound(d, U)
  PROVE  Sound(d, V)
BY FewerGood DEF Sound

\* A load's sweep leaves a sound document.
LEMMA SweepSound ==
  ASSUME NEW d, NEW U, NEW L, Sound(d, U)
  PROVE  Sound(_normalize_store(d, L), U)
<1>1. Good(_normalize_store(d, L), U)
  BY SweepKeeps DEF Sound
<1>2. Shaped(d, U)
  BY DEF Sound, Good
<1>. QED  BY <1>1, <1>2, SweepCredentials DEF Sound

\* The sections that serve several calls save sound documents.
LEMMA AuxSound ==
  ASSUME NEW c, NEW d, NEW U, NEW s \in Aux, Sound(d, U), Do(d, s, c) /= Refused,
         s \in Reserving => IsKey(c.key) /\ c.key[1] = "idem"
  PROVE  Sound(Do(d, s, c), U)
<1>1. Good(Do(d, s, c), U)
  BY AuxGood DEF Sound
<1>2. Shaped(d, U)
  BY DEF Sound, Good
<1>. QED  BY <1>1, <1>2, AuxCredentials DEF Sound

\* A call's own section saves a sound document.
LEMMA OwnSound ==
  ASSUME NEW l, NEW c, NEW d, NEW U, Serves(l, c, d, U), Do(d, c.op, c) /= Refused, c.op \notin Aux,
         Credentials(d), c.op \in Seeing => Credentials(c.seen[1])
  PROVE  Sound(Do(d, c.op, c), U)
BY OwnGood, OwnCredentials DEF Sound

Readings == {"load", "authenticate_company_master", "authenticate_human_owner",
             "authenticate_human_session", "authenticate_human_account_session",
             "authenticate_connector_token"}

\* The sections a call has left: its own one at most once, and a reservation's with a key.
Planned(op, key, S) ==
    /\ S \in Seq(Aux \cup {op}) /\ Len(S) >= 1
    /\ op \notin Aux => \A i, j \in 1..Len(S) : S[i] = op /\ S[j] = op => i = j
    /\ \A i \in 1..Len(S) : S[i] \in Reserving => IsKey(key) /\ key[1] = "idem"

\* A section whose document counts comes before the call's own.
Reads(op, S) == \E j \in 1..Len(S) : S[j] \in Readings /\ \A i \in 1..j : S[i] /= op

Busy(l, b, r) ==
    /\ Formed(l, r.call) /\ r.call.n \in 1..b
    /\ Planned(r.call.op, r.call.key, r.todo)
    /\ r.call.op \in Seeing => r.seen /= <<>> \/ Reads(r.call.op, r.todo)

\* The call's own section has not made its document yet.
Awaited(r) ==
    r.pc /= "idle" /\ \E i \in 1..Len(r.todo) : r.todo[i] = r.call.op /\ ~(i = 1 /\ r.pc = "write")

\* The numbers that no document has: of requests to come, and of those not there yet.
Unspent(l, b, ws) ==
    {n \in 1..RequestsOf(l) : n > b \/ \E w \in Workers : ws[w].call.n = n /\ Awaited(ws[w])}

Known(r, U) ==
    /\ Sound(r.doc, U)
    /\ \E D : r.seen \in Seq(D) /\ \A x \in D : Sound(x, U)

StoreRow(l, b, r) ==
    /\ r.pc \in {"idle", "load", "tidy", "sweep", "store", "write"}
    /\ r.pc = "idle" => r = Idle
    /\ r.pc /= "idle" => Busy(l, b, r)

SameCall(r, q) == r.pc /= "idle" /\ q.pc /= "idle" /\ r.call.n = q.call.n

\* The inductive invariant.
StoreInv ==
    /\ lane \in Lanes /\ begun \in 0..RequestsOf(lane)
    /\ half \in BOOLEAN /\ crashed \in BOOLEAN
    /\ Sound(file, Unspent(lane, begun, workers))
    /\ \A w \in Workers : Known(workers[w], Unspent(lane, begun, workers))
    /\ \A w \in Workers : StoreRow(lane, begun, workers[w])
    /\ \A v, w \in Workers : SameCall(workers[v], workers[w]) => v = w

\* The empty document is good.
LEMMA BlankIsGood ==
  ASSUME NEW U PROVE Good(_blank_store, U)
<1>1. PICK b : b = _blank_store
  OBVIOUS
<1>2. DOMAIN b = {}
  BY <1>1 DEF _blank_store
<1>3. Sources(b) = {}
  BY <1>2 DEF Sources, Section
<1>4. RateInv(b)
  <2>1. IsFiniteSet({}) /\ Cardinality({}) = 0
    BY FS_EmptySet
  <2>. QED  BY <1>2, <1>3, <2>1, LimitsAreNumbers DEF RateInv
<1>5. SyncInv(b)
  <2>1. 0 \in Nat
    OBVIOUS
  <2>. QED  BY <1>2, <2>1 DEF SyncInv
<1>6. ClaimsInv(b) /\ PackInv(b) /\ ReviewInv(b) /\ MessageInv(b) /\ RoutingInv(b) /\ ApprovalInv(b)
  BY <1>2 DEF ClaimsInv, PackInv, ReviewInv, MessageInv, RoutingInv, ApprovalInv
<1>7. Shaped(b, U) /\ SuccessionInv(b)
  BY <1>2 DEF Shaped, SuccessionInv
<1>. QED  BY <1>1, <1>4, <1>5, <1>6, <1>7 DEF Good, Records

\* The empty document is sound.
LEMMA BlankIsSound ==
  ASSUME NEW U PROVE Sound(_blank_store, U)
BY BlankIsGood, BlankCredentials DEF Sound

\* An idle worker knows the empty document and awaits nothing.
LEMMA IdleIs ==
  ASSUME NEW U PROVE Known(Idle, U) /\ ~Awaited(Idle) /\ Idle.pc = "idle"
<1>1. Idle.pc = "idle" /\ Idle.doc = _blank_store /\ Idle.seen = <<>>
  BY DEF Idle
<1>2. \E D : Idle.seen \in Seq(D) /\ \A x \in D : Sound(x, U)
  <2>1. <<>> \in Seq({}) /\ \A x \in {} : Sound(x, U)
    OBVIOUS
  <2>2. PICK E : E = {}
    OBVIOUS
  <2>3. Idle.seen \in Seq(E) /\ \A x \in E : Sound(x, U)
    BY <1>1, <2>1, <2>2
  <2>. QED  BY <2>3
<1>3. Sound(Idle.doc, U)
  BY <1>1, BlankIsSound
<1>4. ~Awaited(Idle)
  BY <1>1 DEF Awaited
<1>5. Known(Idle, U)
  BY <1>2, <1>3 DEF Known
<1>. QED  BY <1>1, <1>4, <1>5

\* What is known for some numbers is known for fewer.
LEMMA KnownFewer ==
  ASSUME NEW r, NEW U, NEW V, V \subseteq U, Known(r, U) PROVE Known(r, V)
BY FewerSound DEF Known

\* A lane has a number of requests.
LEMMA LaneIs ==
  ASSUME NEW l \in Lanes
  PROVE  RequestsOf(l) \in Nat /\ Len(l.start) \in Nat
BY LanesAreFormed DEF RequestsOf

\* The fields Formed looks at.
LEMMA FormedSame ==
  ASSUME NEW l, NEW c, NEW e, Formed(l, c), DOMAIN e = DOMAIN c, e.op = c.op, e.in = c.in,
         e.as = c.as, e.of = c.of, e.to = c.to, e.how = c.how, e.body = c.body, e.key = c.key
  PROVE  Formed(l, e)
<1>1. DOMAIN e = DOMAIN NoCall
  BY DEF Formed
<1>2. \A k \in {e.in, e.as, e.of, e.to, e.key} : k = <<k[1], k[2]>>
  BY DEF Formed
<1>3. InFits(e)
  BY DEF Formed, InFits
<1>4. AsFits(e)
  BY DEF Formed, AsFits
<1>5. OfFits(e)
  BY DEF Formed, OfFits
<1>6. ToFits(e)
  BY DEF Formed, ToFits
<1>7. HowFits(e)
  BY DEF Formed, HowFits
<1>8. ChosenFits(l, e)
  BY DEF Formed, ChosenFits
<1>. QED  BY <1>1, <1>2, <1>3, <1>4, <1>5, <1>6, <1>7, <1>8 DEF Formed

\* A request is formed whatever its number is.
LEMMA FormedNumber ==
  ASSUME NEW l, NEW c, Formed(l, c), NEW a
  PROVE  LET x == [c EXCEPT !.n = a]
         IN Formed(l, x) /\ x.n = a /\ x.op = c.op /\ x.key = c.key
<1>1. DOMAIN c = {"op", "n", "in", "as", "of", "to", "how", "body", "key", "late", "before", "seen"}
  BY DEF Formed, NoCall
<1>2. PICK x : x = [c EXCEPT !.n = a]
  OBVIOUS
<1>3. /\ DOMAIN x = DOMAIN c /\ x.n = a /\ x.op = c.op /\ x.in = c.in /\ x.as = c.as /\ x.of = c.of
      /\ x.to = c.to /\ x.how = c.how /\ x.body = c.body /\ x.key = c.key
  BY <1>1, <1>2
<1>4. Formed(l, x)
  BY <1>3, FormedSame
<1>. QED  BY <1>2, <1>3, <1>4

\* A request is formed whatever had passed when it began.
LEMMA FormedBefore ==
  ASSUME NEW l, NEW c, Formed(l, c), NEW a
  PROVE  LET x == [c EXCEPT !.before = a]
         IN Formed(l, x) /\ x.n = c.n /\ x.op = c.op /\ x.key = c.key
<1>1. DOMAIN c = {"op", "n", "in", "as", "of", "to", "how", "body", "key", "late", "before", "seen"}
  BY DEF Formed, NoCall
<1>2. PICK x : x = [c EXCEPT !.before = a]
  OBVIOUS
<1>3. /\ DOMAIN x = DOMAIN c /\ x.n = c.n /\ x.op = c.op /\ x.in = c.in /\ x.as = c.as /\ x.of = c.of
      /\ x.to = c.to /\ x.how = c.how /\ x.body = c.body /\ x.key = c.key
  BY <1>1, <1>2
<1>4. Formed(l, x)
  BY <1>3, FormedSame
<1>. QED  BY <1>2, <1>3, <1>4

\* A request is formed as its next section sees it.
LEMMA NowIs ==
  ASSUME NEW l, NEW r, Formed(l, r.call)
  PROVE  /\ Formed(l, Now(r)) /\ Now(r).n = r.call.n /\ Now(r).seen = r.seen
         /\ Now(r).op = r.call.op /\ Now(r).key = r.call.key
<1>1. PICK c : c = r.call
  OBVIOUS
<1>2. PICK x : x = [c EXCEPT !.late = late, !.seen = r.seen]
  OBVIOUS
<1>3. DOMAIN c = {"op", "n", "in", "as", "of", "to", "how", "body", "key", "late", "before", "seen"}
  BY <1>1 DEF Formed, NoCall
<1>4. /\ DOMAIN x = DOMAIN c /\ x.n = c.n /\ x.seen = r.seen /\ x.op = c.op /\ x.in = c.in
      /\ x.as = c.as /\ x.of = c.of
      /\ x.to = c.to /\ x.how = c.how /\ x.body = c.body /\ x.key = c.key
  BY <1>2, <1>3
<1>5. Formed(l, x)
  BY <1>1, <1>4, FormedSame
<1>6. x = Now(r)
  BY <1>1, <1>2 DEF Now
<1>. QED  BY <1>1, <1>4, <1>5, <1>6

---------------------------------------------------------------------------
(* The plans of calls. *)

Before == Aux \ Reserving

\* A section that comes before serves several calls and reserves nothing.
LEMMA BeforeIs ==
  ASSUME NEW x \in Before PROVE x \in Aux /\ x \notin Reserving
BY DEF Before

\* One section, or some that come before it.
LEMMA PlannedAlone ==
  ASSUME NEW op, op \notin Reserving, NEW key PROVE Planned(op, key, <<op>>)
BY DEF Planned

\* A plan with one section before it.
LEMMA PlannedTwo ==
  ASSUME NEW op, op \notin Reserving, NEW key, NEW x \in Before PROVE Planned(op, key, <<x, op>>)
BY BeforeIs DEF Planned

\* A plan with two sections before it.
LEMMA PlannedThree ==
  ASSUME NEW op, op \notin Reserving, NEW key, NEW x \in Before, NEW y \in Before
  PROVE  Planned(op, key, <<x, y, op>>)
BY BeforeIs DEF Planned

\* A plan with three sections before it.
LEMMA PlannedFour ==
  ASSUME NEW op, op \notin Reserving, NEW key, NEW x \in Before, NEW y \in Before, NEW z \in Before
  PROVE  Planned(op, key, <<x, y, z, op>>)
BY BeforeIs DEF Planned

\* And under a key.
LEMMA PlannedKeyed ==
  ASSUME NEW op, op \notin Reserving, NEW key, IsKey(key), key[1] = "idem"
  PROVE  Planned(op, key, <<"claim_idempotency", op, "record_idempotency">>)
<1>1. "claim_idempotency" \in Aux /\ "record_idempotency" \in Aux
  BY DEF Aux
<1>. QED  BY <1>1 DEF Planned

\* A plan with a reading, between claiming and recording a key.
LEMMA PlannedKeyedTwo ==
  ASSUME NEW op, op \notin Reserving, NEW key, IsKey(key), key[1] = "idem", NEW x \in Before
  PROVE  Planned(op, key, <<"claim_idempotency", x, op, "record_idempotency">>)
<1>1. "claim_idempotency" \in Aux /\ "record_idempotency" \in Aux
  BY DEF Aux
<1>. QED  BY <1>1, BeforeIs DEF Planned

\* A plan that reads first, in its three forms.
LEMMA ReadsTuples ==
  ASSUME NEW op \in Seeing, NEW x \in Readings \ Seeing
  PROVE  /\ Reads(op, <<x, op>>)
         /\ Reads(op, <<"expire_connector_pairings", x, op>>)
         /\ Reads(op, <<"claim_idempotency", x, op, "record_idempotency">>)
<1>1. x /= op /\ op /= "expire_connector_pairings" /\ op /= "claim_idempotency"
  BY DEF Seeing, AfterMaster, AfterSession, AfterReading
<1>2. Reads(op, <<x, op>>)
  BY <1>1 DEF Reads
<1>3. Reads(op, <<"expire_connector_pairings", x, op>>)
  BY <1>1 DEF Reads
<1>4. Reads(op, <<"claim_idempotency", x, op, "record_idempotency">>)
  BY <1>1 DEF Reads
<1>. QED  BY <1>2, <1>3, <1>4

\* Two sections in a row.
LEMMA JoinTwo ==
  ASSUME NEW a, NEW b PROVE <<a>> \o <<b>> = <<a, b>>
<1>. DEFINE S == {a, b}
<1>1. <<a>> \in Seq(S) /\ <<b>> \in Seq(S)
  OBVIOUS
<1>2. PICK s, t : s = <<a>> /\ t = <<b>>
  OBVIOUS
<1>3. Len(s) = 1 /\ s[1] = a /\ Len(t) = 1 /\ t[1] = b
  BY <1>2
<1>4. s \o t = [i \in 1..2 |-> IF i <= 1 THEN s[i] ELSE t[i - 1]]
  BY <1>1, <1>2, <1>3
<1>5. [i \in 1..2 |-> IF i <= 1 THEN s[i] ELSE t[i - 1]] = <<a, b>>
  BY <1>3
<1>. QED  BY <1>2, <1>4, <1>5

\* Three sections in a row.
LEMMA JoinThree ==
  ASSUME NEW a, NEW b, NEW c PROVE <<a>> \o <<b, c>> = <<a, b, c>>
<1>. DEFINE S == {a, b, c}
<1>1. <<a>> \in Seq(S) /\ <<b, c>> \in Seq(S)
  OBVIOUS
<1>2. PICK s, t : s = <<a>> /\ t = <<b, c>>
  OBVIOUS
<1>3. Len(s) = 1 /\ s[1] = a /\ Len(t) = 2 /\ t[1] = b /\ t[2] = c
  BY <1>2
<1>4. s \o t = [i \in 1..3 |-> IF i <= 1 THEN s[i] ELSE t[i - 1]]
  BY <1>1, <1>2, <1>3
<1>5. [i \in 1..3 |-> IF i <= 1 THEN s[i] ELSE t[i - 1]] = <<a, b, c>>
  BY <1>3
<1>. QED  BY <1>2, <1>4, <1>5

\* A third section after two.
LEMMA JoinLast ==
  ASSUME NEW a, NEW b, NEW c PROVE <<a, b>> \o <<c>> = <<a, b, c>>
<1>. DEFINE S == {a, b, c}
<1>1. <<a, b>> \in Seq(S) /\ <<c>> \in Seq(S)
  OBVIOUS
<1>2. PICK s, t : s = <<a, b>> /\ t = <<c>>
  OBVIOUS
<1>3. Len(s) = 2 /\ s[1] = a /\ s[2] = b /\ Len(t) = 1 /\ t[1] = c
  BY <1>2
<1>4. s \o t = [i \in 1..3 |-> IF i <= 2 THEN s[i] ELSE t[i - 2]]
  BY <1>1, <1>2, <1>3
<1>5. [i \in 1..3 |-> IF i <= 2 THEN s[i] ELSE t[i - 2]] = <<a, b, c>>
  BY <1>3
<1>. QED  BY <1>2, <1>4, <1>5

\* A fourth section after three.
LEMMA JoinFourth ==
  ASSUME NEW a, NEW b, NEW c, NEW e PROVE <<a, b, c>> \o <<e>> = <<a, b, c, e>>
<1>. DEFINE S == {a, b, c, e}
<1>1. <<a, b, c>> \in Seq(S) /\ <<e>> \in Seq(S)
  OBVIOUS
<1>2. PICK s, t : s = <<a, b, c>> /\ t = <<e>>
  OBVIOUS
<1>3. Len(s) = 3 /\ s[1] = a /\ s[2] = b /\ s[3] = c /\ Len(t) = 1 /\ t[1] = e
  BY <1>2
<1>4. s \o t = [i \in 1..4 |-> IF i <= 3 THEN s[i] ELSE t[i - 3]]
  BY <1>1, <1>2, <1>3
<1>5. [i \in 1..4 |-> IF i <= 3 THEN s[i] ELSE t[i - 3]] = <<a, b, c, e>>
  BY <1>3
<1>. QED  BY <1>2, <1>4, <1>5

\* The sections of every request are a plan, and who uses what it read has read before.
LEMMA SectionsArePlanned ==
  ASSUME NEW l, NEW c, Formed(l, c)
  PROVE  Planned(c.op, c.key, Sections(c)) /\ (c.op \in Seeing => Reads(c.op, Sections(c)))
<1>. SUFFICES ASSUME NEW op, op = c.op
              PROVE  Planned(op, c.key, Sections(c)) /\ (op \in Seeing => Reads(op, Sections(c)))
  OBVIOUS
<1>0. op \notin Reserving /\ (op \in WithoutLock => c.key = Nobody \/ (IsKey(c.key) /\ c.key[1] = "idem"))
  BY DEF Formed, Reserving, IsKey
<1>1. /\ \A x \in {"load", "authenticate_company_master", "authenticate_human_owner",
                   "authenticate_human_session", "authenticate_human_account_session",
                   "authenticate_connector_token"} : x \in Before /\ x \in Readings /\ x \notin Seeing
      /\ "expire_connector_pairings" \in Before
  BY DEF Before, Aux, Reserving, Readings, Seeing, AfterMaster, AfterSession, AfterReading
<1>2. Session(c) \in {"authenticate_human_session", "authenticate_human_account_session"}
  BY DEF Session
<1>3. PICK s : s = Session(c)
  OBVIOUS
<1>. DEFINE Work(o, x) ==
            CASE o \in AfterMaster -> <<"authenticate_company_master", o>>
              [] o \in AfterSession -> <<x, o>>
              [] o = "approve_connector_pairing_request" -> <<"expire_connector_pairings", x, o>>
              [] o \in AfterReading -> <<"load", o>>
              [] o = "record_outbound_mcp_authorization_decision" -> <<"load", "load", o>>
              [] o \in AfterExpiry -> <<"expire_connector_pairings", o>>
              [] o \in AfterConnector ->
                   <<"expire_connector_pairings", "authenticate_connector_token", o>>
              [] o = "prepare_connector_rotation" ->
                   <<"expire_connector_pairings", "expire_connector_pairings",
                     "authenticate_connector_token", o>>
              [] o = "create_human_session" -> <<"authenticate_human_owner", o>>
              [] o = "revoke_human_session" -> <<"authenticate_human_session", o>>
              [] o = "reauthenticate_human_session" ->
                   <<"authenticate_human_owner", "authenticate_human_session", o>>
              [] OTHER -> <<o>>
            work == Work(op, s)
<1>5. Sections(c) = IF op \in WithoutLock /\ c.key /= Nobody
                    THEN <<"claim_idempotency">> \o work \o <<"record_idempotency">> ELSE work
  <2>1. Sections(c) = IF c.op \in WithoutLock /\ c.key /= Nobody
                      THEN <<"claim_idempotency">> \o Work(c.op, Session(c)) \o <<"record_idempotency">>
                      ELSE Work(c.op, Session(c))
    BY DEF Sections
  <2>. HIDE DEF Work
  <2>. QED  BY <1>3, <2>1
<1>6. s \in Before /\ s \in Readings /\ s \notin Seeing
  BY <1>1, <1>2, <1>3
<1>7. CASE op \in AfterMaster
  <2>1. op \notin AfterSession /\ op /= "approve_connector_pairing_request" /\ op \notin
        AfterReading /\ op /= "record_outbound_mcp_authorization_decision" /\ op \notin
        AfterExpiry /\ op \notin AfterConnector /\ op /= "prepare_connector_rotation" /\ op /=
        "create_human_session" /\ op /= "revoke_human_session" /\ op /=
        "reauthenticate_human_session"
    BY <1>7 DEF AfterMaster, AfterSession, AfterReading, AfterExpiry, AfterConnector, WithoutLock, Seeing
  <2>2. work = <<"authenticate_company_master", op>>
    BY <1>7, <2>1, Zenon
  <2>3. op \notin WithoutLock
    BY <1>7 DEF AfterMaster, AfterSession, AfterReading, AfterExpiry, AfterConnector, WithoutLock, Seeing
  <2>4. Sections(c) = <<"authenticate_company_master", op>>
    BY <1>5, <2>2, <2>3
  <2>5. Planned(op, c.key, Sections(c))
    BY <1>0, <1>1, <1>6, <2>4, PlannedTwo
  <2>6. op \in Seeing => Reads(op, Sections(c))
    BY <1>1, <1>6, <2>4, ReadsTuples
  <2>. QED  BY <2>5, <2>6
<1>8. CASE op \in AfterSession
  <2>1. op \notin AfterMaster /\ op /= "approve_connector_pairing_request" /\ op \notin
        AfterReading /\ op /= "record_outbound_mcp_authorization_decision" /\ op \notin
        AfterExpiry /\ op \notin AfterConnector /\ op /= "prepare_connector_rotation" /\ op /=
        "create_human_session" /\ op /= "revoke_human_session" /\ op /=
        "reauthenticate_human_session"
    BY <1>8 DEF AfterMaster, AfterSession, AfterReading, AfterExpiry, AfterConnector, WithoutLock, Seeing
  <2>2. work = <<s, op>>
    BY <1>8, <2>1, Zenon
  <2>3. op \notin WithoutLock
    BY <1>8 DEF AfterMaster, AfterSession, AfterReading, AfterExpiry, AfterConnector, WithoutLock, Seeing
  <2>4. Sections(c) = <<s, op>>
    BY <1>5, <2>2, <2>3
  <2>5. Planned(op, c.key, Sections(c))
    BY <1>0, <1>1, <1>6, <2>4, PlannedTwo
  <2>6. op \in Seeing => Reads(op, Sections(c))
    BY <1>1, <1>6, <2>4, ReadsTuples
  <2>. QED  BY <2>5, <2>6
<1>9. CASE op = "approve_connector_pairing_request"
  <2>1. op \notin AfterMaster /\ op \notin AfterSession /\ op \notin AfterReading /\ op /=
        "record_outbound_mcp_authorization_decision" /\ op \notin AfterExpiry /\ op \notin
        AfterConnector /\ op /= "prepare_connector_rotation" /\ op /= "create_human_session" /\
        op /= "revoke_human_session" /\ op /= "reauthenticate_human_session"
    BY <1>9 DEF AfterMaster, AfterSession, AfterReading, AfterExpiry, AfterConnector, WithoutLock, Seeing
  <2>2. work = <<"expire_connector_pairings", s, op>>
    BY <1>9, <2>1, Zenon
  <2>3. op \notin WithoutLock
    BY <1>9 DEF AfterMaster, AfterSession, AfterReading, AfterExpiry, AfterConnector, WithoutLock, Seeing
  <2>4. Sections(c) = <<"expire_connector_pairings", s, op>>
    BY <1>5, <2>2, <2>3
  <2>5. Planned(op, c.key, Sections(c))
    BY <1>0, <1>1, <1>6, <2>4, PlannedThree
  <2>6. op \in Seeing => Reads(op, Sections(c))
    BY <1>1, <1>6, <2>4, ReadsTuples
  <2>. QED  BY <2>5, <2>6
<1>10. CASE op \in AfterReading
  <2>1. op \notin AfterMaster /\ op \notin AfterSession /\ op /=
        "approve_connector_pairing_request" /\ op /=
        "record_outbound_mcp_authorization_decision" /\ op \notin AfterExpiry /\ op \notin
        AfterConnector /\ op /= "prepare_connector_rotation" /\ op /= "create_human_session" /\
        op /= "revoke_human_session" /\ op /= "reauthenticate_human_session"
    BY <1>10 DEF AfterMaster, AfterSession, AfterReading, AfterExpiry, AfterConnector, WithoutLock, Seeing
  <2>2. work = <<"load", op>>
    BY <1>10, <2>1, Zenon
  <2>3. CASE ~(op \in WithoutLock /\ c.key /= Nobody)
    <3>1. Sections(c) = <<"load", op>>
      BY <1>5, <2>2, <2>3
    <3>. QED  BY <1>0, <1>1, <3>1, PlannedTwo, ReadsTuples
  <2>4. CASE op \in WithoutLock /\ c.key /= Nobody
    <3>1. Sections(c) = <<"claim_idempotency">> \o <<"load", op>> \o <<"record_idempotency">>
      BY <1>5, <2>2, <2>4
    <3>3. <<"claim_idempotency">> \o <<"load", op>> = <<"claim_idempotency", "load", op>>
      BY JoinThree
    <3>4. <<"claim_idempotency", "load", op>> \o <<"record_idempotency">>
            = <<"claim_idempotency", "load", op, "record_idempotency">>
      BY JoinFourth
    <3>2. Sections(c) = <<"claim_idempotency", "load", op, "record_idempotency">>
      BY <3>1, <3>3, <3>4
    <3>. QED  BY <1>0, <1>1, <2>4, <3>2, PlannedKeyedTwo, ReadsTuples
  <2>. QED  BY <2>3, <2>4
<1>11. CASE op = "record_outbound_mcp_authorization_decision"
  <2>1. op \notin AfterMaster /\ op \notin AfterSession /\ op /=
        "approve_connector_pairing_request" /\ op \notin AfterReading /\ op \notin AfterExpiry
        /\ op \notin AfterConnector /\ op /= "prepare_connector_rotation" /\ op /=
        "create_human_session" /\ op /= "revoke_human_session" /\ op /=
        "reauthenticate_human_session"
    BY <1>11 DEF AfterMaster, AfterSession, AfterReading, AfterExpiry, AfterConnector, WithoutLock, Seeing
  <2>2. work = <<"load", "load", op>>
    BY <1>11, <2>1, Zenon
  <2>3. op \notin WithoutLock /\ op \notin Seeing
    BY <1>11 DEF AfterMaster, AfterSession, AfterReading, AfterExpiry, AfterConnector, WithoutLock, Seeing
  <2>4. Sections(c) = <<"load", "load", op>>
    BY <1>5, <2>2, <2>3
  <2>5. Planned(op, c.key, Sections(c))
    BY <1>0, <1>1, <1>6, <2>4, PlannedThree
  <2>. QED  BY <2>3, <2>5
<1>12. CASE op \in AfterExpiry
  <2>1. op \notin AfterMaster /\ op \notin AfterSession /\ op /=
        "approve_connector_pairing_request" /\ op \notin AfterReading /\ op /=
        "record_outbound_mcp_authorization_decision" /\ op \notin AfterConnector /\ op /=
        "prepare_connector_rotation" /\ op /= "create_human_session" /\ op /=
        "revoke_human_session" /\ op /= "reauthenticate_human_session"
    BY <1>12 DEF AfterMaster, AfterSession, AfterReading, AfterExpiry, AfterConnector, WithoutLock, Seeing
  <2>2. work = <<"expire_connector_pairings", op>>
    BY <1>12, <2>1, Zenon
  <2>3. op \notin WithoutLock /\ op \notin Seeing
    BY <1>12 DEF AfterMaster, AfterSession, AfterReading, AfterExpiry, AfterConnector, WithoutLock, Seeing
  <2>4. Sections(c) = <<"expire_connector_pairings", op>>
    BY <1>5, <2>2, <2>3
  <2>5. Planned(op, c.key, Sections(c))
    BY <1>0, <1>1, <1>6, <2>4, PlannedTwo
  <2>. QED  BY <2>3, <2>5
<1>13. CASE op \in AfterConnector
  <2>1. op \notin AfterMaster /\ op \notin AfterSession /\ op /=
        "approve_connector_pairing_request" /\ op \notin AfterReading /\ op /=
        "record_outbound_mcp_authorization_decision" /\ op \notin AfterExpiry /\ op /=
        "prepare_connector_rotation" /\ op /= "create_human_session" /\ op /=
        "revoke_human_session" /\ op /= "reauthenticate_human_session"
    BY <1>13 DEF AfterMaster, AfterSession, AfterReading, AfterExpiry, AfterConnector, WithoutLock, Seeing
  <2>2. work = <<"expire_connector_pairings", "authenticate_connector_token", op>>
    BY <1>13, <2>1, Zenon
  <2>3. op \notin WithoutLock /\ op \notin Seeing
    BY <1>13 DEF AfterMaster, AfterSession, AfterReading, AfterExpiry, AfterConnector, WithoutLock, Seeing
  <2>4. Sections(c) = <<"expire_connector_pairings", "authenticate_connector_token", op>>
    BY <1>5, <2>2, <2>3
  <2>5. Planned(op, c.key, Sections(c))
    BY <1>0, <1>1, <1>6, <2>4, PlannedThree
  <2>. QED  BY <2>3, <2>5
<1>14. CASE op = "prepare_connector_rotation"
  <2>1. op \notin AfterMaster /\ op \notin AfterSession /\ op /=
        "approve_connector_pairing_request" /\ op \notin AfterReading /\ op /=
        "record_outbound_mcp_authorization_decision" /\ op \notin AfterExpiry /\ op \notin
        AfterConnector /\ op /= "create_human_session" /\ op /= "revoke_human_session" /\ op /=
        "reauthenticate_human_session"
    BY <1>14 DEF AfterMaster, AfterSession, AfterReading, AfterExpiry, AfterConnector, WithoutLock, Seeing
  <2>2. work = <<"expire_connector_pairings", "expire_connector_pairings",
          "authenticate_connector_token", op>>
    BY <1>14, <2>1, Zenon
  <2>3. op \notin WithoutLock /\ op \notin Seeing
    BY <1>14 DEF AfterMaster, AfterSession, AfterReading, AfterExpiry, AfterConnector, WithoutLock, Seeing
  <2>4. Sections(c) = <<"expire_connector_pairings", "expire_connector_pairings",
          "authenticate_connector_token", op>>
    BY <1>5, <2>2, <2>3
  <2>5. Planned(op, c.key, Sections(c))
    BY <1>0, <1>1, <1>6, <2>4, PlannedFour
  <2>. QED  BY <2>3, <2>5
<1>15. CASE op = "create_human_session"
  <2>1. op \notin AfterMaster /\ op \notin AfterSession /\ op /=
        "approve_connector_pairing_request" /\ op \notin AfterReading /\ op /=
        "record_outbound_mcp_authorization_decision" /\ op \notin AfterExpiry /\ op \notin
        AfterConnector /\ op /= "prepare_connector_rotation" /\ op /= "revoke_human_session" /\
        op /= "reauthenticate_human_session"
    BY <1>15 DEF AfterMaster, AfterSession, AfterReading, AfterExpiry, AfterConnector, WithoutLock, Seeing
  <2>2. work = <<"authenticate_human_owner", op>>
    BY <1>15, <2>1, Zenon
  <2>3. op \notin WithoutLock
    BY <1>15 DEF AfterMaster, AfterSession, AfterReading, AfterExpiry, AfterConnector, WithoutLock, Seeing
  <2>4. Sections(c) = <<"authenticate_human_owner", op>>
    BY <1>5, <2>2, <2>3
  <2>5. Planned(op, c.key, Sections(c))
    BY <1>0, <1>1, <1>6, <2>4, PlannedTwo
  <2>6. op \in Seeing => Reads(op, Sections(c))
    BY <1>1, <1>6, <2>4, ReadsTuples
  <2>. QED  BY <2>5, <2>6
<1>16. CASE op = "revoke_human_session"
  <2>1. op \notin AfterMaster /\ op \notin AfterSession /\ op /=
        "approve_connector_pairing_request" /\ op \notin AfterReading /\ op /=
        "record_outbound_mcp_authorization_decision" /\ op \notin AfterExpiry /\ op \notin
        AfterConnector /\ op /= "prepare_connector_rotation" /\ op /= "create_human_session" /\
        op /= "reauthenticate_human_session"
    BY <1>16 DEF AfterMaster, AfterSession, AfterReading, AfterExpiry, AfterConnector, WithoutLock, Seeing
  <2>2. work = <<"authenticate_human_session", op>>
    BY <1>16, <2>1, Zenon
  <2>3. op \notin WithoutLock /\ op \notin Seeing
    BY <1>16 DEF AfterMaster, AfterSession, AfterReading, AfterExpiry, AfterConnector, WithoutLock, Seeing
  <2>4. Sections(c) = <<"authenticate_human_session", op>>
    BY <1>5, <2>2, <2>3
  <2>5. Planned(op, c.key, Sections(c))
    BY <1>0, <1>1, <1>6, <2>4, PlannedTwo
  <2>. QED  BY <2>3, <2>5
<1>17. CASE op = "reauthenticate_human_session"
  <2>1. op \notin AfterMaster /\ op \notin AfterSession /\ op /=
        "approve_connector_pairing_request" /\ op \notin AfterReading /\ op /=
        "record_outbound_mcp_authorization_decision" /\ op \notin AfterExpiry /\ op \notin
        AfterConnector /\ op /= "prepare_connector_rotation" /\ op /= "create_human_session" /\
        op /= "revoke_human_session"
    BY <1>17 DEF AfterMaster, AfterSession, AfterReading, AfterExpiry, AfterConnector, WithoutLock, Seeing
  <2>2. work = <<"authenticate_human_owner", "authenticate_human_session", op>>
    BY <1>17, <2>1, Zenon
  <2>3. op \notin WithoutLock /\ op \notin Seeing
    BY <1>17 DEF AfterMaster, AfterSession, AfterReading, AfterExpiry, AfterConnector, WithoutLock, Seeing
  <2>4. Sections(c) = <<"authenticate_human_owner", "authenticate_human_session", op>>
    BY <1>5, <2>2, <2>3
  <2>5. Planned(op, c.key, Sections(c))
    BY <1>0, <1>1, <1>6, <2>4, PlannedThree
  <2>. QED  BY <2>3, <2>5
<1>18. CASE op \notin AfterMaster /\ op \notin AfterSession /\ op /=
           "approve_connector_pairing_request" /\ op \notin AfterReading /\ op /=
           "record_outbound_mcp_authorization_decision" /\ op \notin AfterExpiry /\ op \notin
           AfterConnector /\ op /= "prepare_connector_rotation" /\ op /= "create_human_session"
           /\ op /= "revoke_human_session" /\ op /= "reauthenticate_human_session"
  <2>1. work = <<op>>
    BY <1>18, Zenon
  <2>2. op \notin Seeing
    BY <1>18 DEF Seeing
  <2>3. CASE ~(op \in WithoutLock /\ c.key /= Nobody)
    <3>1. Sections(c) = <<op>>
      BY <1>5, <2>1, <2>3
    <3>. QED  BY <1>0, <1>1, <2>2, <3>1, PlannedAlone
  <2>4. CASE op \in WithoutLock /\ c.key /= Nobody
    <3>1. Sections(c) = <<"claim_idempotency">> \o <<op>> \o <<"record_idempotency">>
      BY <1>5, <2>1, <2>4
    <3>3. <<"claim_idempotency">> \o <<op>> = <<"claim_idempotency", op>>
      BY JoinTwo
    <3>4. <<"claim_idempotency", op>> \o <<"record_idempotency">>
            = <<"claim_idempotency", op, "record_idempotency">>
      BY JoinLast
    <3>2. Sections(c) = <<"claim_idempotency", op, "record_idempotency">>
      BY <3>1, <3>3, <3>4
    <3>. QED  BY <1>0, <1>1, <2>2, <2>4, <3>2, PlannedKeyed
  <2>. QED  BY <2>3, <2>4
<1>. QED  BY <1>7, <1>8, <1>9, <1>10, <1>11, <1>12, <1>13, <1>14, <1>15, <1>16, <1>17, <1>18

---------------------------------------------------------------------------
(* Workers that move. *)

\* What is left of a plan after its first section.
LEMMA TailIs ==
  ASSUME NEW D, NEW s \in Seq(D), s /= <<>>, Len(s) /= 1
  PROVE  /\ Tail(s) \in Seq(D) /\ Len(Tail(s)) = Len(s) - 1 /\ Len(Tail(s)) >= 1 /\ Len(s) \in Nat
         /\ \A i \in 1..Len(Tail(s)) : Tail(s)[i] = s[i + 1] /\ i + 1 \in 1..Len(s)
<1>1. /\ Tail(s) \in Seq(D) /\ Len(Tail(s)) = Len(s) - 1
      /\ \A i \in 1..Len(Tail(s)) : Tail(s)[i] = s[i + 1]
  BY HeadTailProperties
<1>2. Len(s) \in Nat /\ (Len(s) = 0 => s = <<>>)
  BY LenProperties, EmptySeq
<1>. QED  BY <1>1, <1>2

\* One more document that was read.
LEMMA SeenMore ==
  ASSUME NEW D, NEW s \in Seq(D), NEW x
  PROVE  Append(s, x) \in Seq(D \cup {x}) /\ Append(s, x) /= <<>>
<1>1. s \in Seq(D \cup {x})
  OBVIOUS
<1>2. Append(s, x) \in Seq(D \cup {x}) /\ Len(Append(s, x)) = Len(s) + 1 /\ Len(s) \in Nat
  BY <1>1
<1>. QED  BY <1>2

\* What Onward leaves: the rest of the plan, with what was read.
LEMMA OnwardIs ==
  ASSUME NEW r, WorkerRow(r), NEW l, NEW b, Busy(l, b, r), r.pc /= "idle", NEW V, Known(r, V),
         NEW found, Sound(found, V)
  PROVE  LET q == Onward(r, found)
         IN /\ Known(q, V) /\ StoreRow(l, b, q)
            /\ q.pc /= "idle" => q.call = r.call
            /\ Awaited(q) => /\ Awaited(r)
                             /\ ~(Head(r.todo) = r.call.op /\ r.call.op \notin Aux)
<1>1. PICK q : q = Onward(r, found)
  OBVIOUS
<1>2. CASE Len(r.todo) = 1
  <2>1. q = Idle
    BY <1>1, <1>2 DEF Onward
  <2>. QED  BY <1>1, <2>1, IdleIs DEF StoreRow
<1>3. CASE Len(r.todo) /= 1
  <2>1. PICK S : S = r.todo
    OBVIOUS
  <2>2. PICK op : op = r.call.op
    OBVIOUS
  <2>3. S \in Seq(Aux \cup {op}) /\ Len(S) >= 1 /\ S /= <<>>
    BY <2>1, <2>2 DEF Busy, Planned
  <2>4. PICK seen : seen = IF Head(S) \in {"expire_connector_pairings", "claim_idempotency"}
                           THEN r.seen ELSE Append(r.seen, found)
    OBVIOUS
  <2>5. q = [r EXCEPT !.pc = "load", !.todo = Tail(@), !.seen = seen, !.doc = _blank_store]
    BY <1>1, <1>3, <2>1, <2>4 DEF Onward
  <2>6. q = [pc |-> "load", call |-> r.call, todo |-> Tail(S), seen |-> seen, doc |-> _blank_store]
    BY <2>1, <2>5 DEF WorkerRow
  <2>7. /\ Tail(S) \in Seq(Aux \cup {op}) /\ Len(Tail(S)) = Len(S) - 1 /\ Len(Tail(S)) >= 1
        /\ Len(S) \in Nat
        /\ \A i \in 1..Len(Tail(S)) : Tail(S)[i] = S[i + 1] /\ i + 1 \in 1..Len(S)
    BY <1>3, <2>1, <2>3, TailIs
  <2>8. Planned(op, r.call.key, Tail(S))
    <3>1. Planned(op, r.call.key, S)
      BY <2>1, <2>2 DEF Busy
    <3>2. op \notin Aux => \A i, j \in 1..Len(Tail(S)) : Tail(S)[i] = op /\ Tail(S)[j] = op => i = j
      <4>. SUFFICES ASSUME op \notin Aux, NEW i \in 1..Len(Tail(S)), NEW j \in 1..Len(Tail(S)),
                           Tail(S)[i] = op, Tail(S)[j] = op
                    PROVE  i = j
        OBVIOUS
      <4>1. S[i + 1] = op /\ S[j + 1] = op /\ i + 1 \in 1..Len(S) /\ j + 1 \in 1..Len(S)
        BY <2>7
      <4>2. i + 1 = j + 1
        BY <3>1, <4>1 DEF Planned
      <4>. QED  BY <4>2
    <3>3. \A i \in 1..Len(Tail(S)) : Tail(S)[i] \in Reserving => IsKey(r.call.key) /\ r.call.key[1] = "idem"
      BY <2>7, <3>1 DEF Planned
    <3>. QED  BY <2>7, <3>2, <3>3 DEF Planned
  <2>9. \E D : seen \in Seq(D) /\ \A x \in D : Sound(x, V)
    <3>1. PICK D : r.seen \in Seq(D) /\ \A x \in D : Sound(x, V)
      BY DEF Known
    <3>2. Append(r.seen, found) \in Seq(D \cup {found})
      BY <3>1, SeenMore
    <3>3. PICK E : E = D \cup {found}
      OBVIOUS
    <3>4. \A x \in E : Sound(x, V)
      BY <3>1, <3>3
    <3>5. CASE seen = r.seen
      BY <3>1, <3>5
    <3>6. CASE seen = Append(r.seen, found)
      BY <3>2, <3>3, <3>4, <3>6
    <3>. QED  BY <2>4, <3>5, <3>6
  <2>10. op \in Seeing => seen /= <<>> \/ Reads(op, Tail(S))
    <3>. SUFFICES ASSUME op \in Seeing, seen = <<>> PROVE Reads(op, Tail(S))
      OBVIOUS
    <3>1. \E D : r.seen \in Seq(D)
      BY DEF Known
    <3>2. Append(r.seen, found) /= <<>>
      BY <3>1, SeenMore
    <3>3. r.seen = <<>> /\ Head(S) \in {"expire_connector_pairings", "claim_idempotency"}
      BY <2>4, <3>2
    <3>4. Reads(op, S)
      BY <2>1, <2>2, <3>3 DEF Busy
    <3>5. PICK j \in 1..Len(S) : S[j] \in Readings /\ \A i \in 1..j : S[i] /= op
      BY <3>4 DEF Reads
    <3>6. S[1] = Head(S)
      BY <2>3
    <3>7. j /= 1
      BY <3>3, <3>5, <3>6 DEF Readings
    <3>8. j - 1 \in 1..Len(Tail(S)) /\ (j - 1) + 1 = j
      BY <2>7, <3>7
    <3>9. Tail(S)[j - 1] \in Readings
      BY <2>7, <3>5, <3>8
    <3>10. \A i \in 1..(j - 1) : Tail(S)[i] /= op
      <4>. SUFFICES ASSUME NEW i \in 1..(j - 1) PROVE Tail(S)[i] /= op
        OBVIOUS
      <4>1. i \in 1..Len(Tail(S)) /\ i + 1 \in 1..j
        BY <3>8
      <4>. QED  BY <2>7, <3>5, <4>1
    <3>. QED  BY <3>8, <3>9, <3>10 DEF Reads
  <2>11. q.pc = "load" /\ q.call = r.call /\ q.todo = Tail(S) /\ q.seen = seen /\ q.doc = _blank_store
    BY <2>6
  <2>12. StoreRow(l, b, q)
    BY <2>2, <2>8, <2>10, <2>11 DEF StoreRow, Busy
  <2>13. Known(q, V)
    BY <2>9, <2>11, BlankIsSound DEF Known
  <2>14. ASSUME Awaited(q)
         PROVE  Awaited(r) /\ ~(Head(r.todo) = r.call.op /\ r.call.op \notin Aux)
    <3>1. PICK i \in 1..Len(Tail(S)) : Tail(S)[i] = op
      BY <2>2, <2>11, <2>14 DEF Awaited
    <3>2. S[i + 1] = op /\ i + 1 \in 1..Len(S) /\ i + 1 /= 1
      BY <2>7, <3>1
    <3>3. Awaited(r)
      BY <2>1, <2>2, <3>2 DEF Awaited
    <3>4. Head(S) = S[1] /\ 1 \in 1..Len(S)
      BY <2>3
    <3>5. Planned(op, r.call.key, S)
      BY <2>1, <2>2 DEF Busy
    <3>6. op \notin Aux => S[1] /= op
      BY <3>2, <3>4, <3>5 DEF Planned
    <3>. QED  BY <2>1, <2>2, <3>3, <3>4, <3>6
  <2>. QED  BY <1>1, <2>11, <2>12, <2>13, <2>14
<1>. QED  BY <1>2, <1>3

\* The first section of a plan.
LEMMA FirstIs ==
  ASSUME NEW op, NEW key, NEW S, Planned(op, key, S)
  PROVE  /\ Head(S) = S[1] /\ 1 \in 1..Len(S) /\ (Head(S) \in Aux \/ Head(S) = op)
         /\ Last(S) = S[Len(S)] /\ Len(S) \in 1..Len(S)
<1>1. S \in Seq(Aux \cup {op}) /\ Len(S) >= 1
  BY DEF Planned
<1>2. S /= <<>> /\ Len(S) \in Nat
  BY <1>1, LenProperties
<1>. QED  BY <1>1, <1>2 DEF Last

\* A section that returned without saving ends its call or gives the reservation back.
LEMMA BackIs ==
  ASSUME NEW r, WorkerRow(r), NEW l, NEW b, Busy(l, b, r), r.pc = "store", NEW V, Known(r, V)
  PROVE  LET q == Back(r)
         IN /\ Known(q, V) /\ StoreRow(l, b, q)
            /\ q.pc /= "idle" => q.call = r.call
            /\ Awaited(q) => Awaited(r)
<1>0. PICK q : q = Back(r)
  OBVIOUS
<1>1. CASE q = Onward(r, r.doc)
  <2>1. Sound(r.doc, V)
    BY DEF Known
  <2>. QED  BY <1>0, <1>1, <2>1, OnwardIs
<1>2. CASE q = Idle
  BY <1>0, <1>2, IdleIs DEF StoreRow
<1>3. CASE /\ Last(r.todo) = "record_idempotency" /\ Head(r.todo) = r.call.op
           /\ q = [r EXCEPT !.pc = "load", !.todo = <<"release_idempotency_claim">>, !.doc = _blank_store]
  <2>1. q = [pc |-> "load", call |-> r.call, todo |-> <<"release_idempotency_claim">>,
             seen |-> r.seen, doc |-> _blank_store]
    BY <1>3 DEF WorkerRow
  <2>2. /\ q.pc = "load" /\ q.call = r.call /\ q.todo = <<"release_idempotency_claim">>
        /\ q.seen = r.seen /\ q.doc = _blank_store
    BY <2>1
  <2>3. Planned(r.call.op, r.call.key, r.todo)
    BY DEF Busy
  <2>4. IsKey(r.call.key) /\ r.call.key[1] = "idem"
    BY <1>3, <2>3, FirstIs DEF Planned, Reserving
  <2>5. r.call.op \notin Reserving
    BY DEF Busy, Formed, Reserving
  <2>6. Planned(r.call.op, r.call.key, q.todo)
    <3>1. "release_idempotency_claim" \in Aux
      BY DEF Aux
    <3>2. <<"release_idempotency_claim">> \in Seq(Aux \cup {r.call.op})
      BY <3>1
    <3>. QED  BY <2>2, <2>4, <3>2 DEF Planned
  <2>7. r.call.op \in Seeing => r.seen /= <<>>
    <3>. SUFFICES ASSUME r.call.op \in Seeing, Reads(r.call.op, r.todo) PROVE FALSE
      BY DEF Busy
    <3>. QED  BY <1>3, <2>3, FirstIs DEF Reads
  <2>8. StoreRow(l, b, q)
    BY <2>2, <2>6, <2>7 DEF StoreRow, Busy
  <2>9. Known(q, V)
    BY <2>2, BlankIsSound DEF Known
  <2>10. ~Awaited(q)
    BY <2>2, <2>5 DEF Awaited, Reserving
  <2>. QED  BY <1>0, <2>2, <2>8, <2>9, <2>10
<1>. QED  BY <1>0, <1>1, <1>2, <1>3 DEF Back

\* A section that has loaded.
LEMMA LoadedIs ==
  ASSUME NEW r, WorkerRow(r), NEW l, NEW b, Busy(l, b, r), r.pc /= "idle", r.pc /= "write",
         NEW V, Known(r, V)
  PROVE  LET q == Loaded(r)
         IN /\ Known(q, V) /\ StoreRow(l, b, q)
            /\ q.pc /= "idle" => q.call = r.call
            /\ Awaited(q) => Awaited(r)
<1>0. PICK q : q = Loaded(r)
  OBVIOUS
<1>1. CASE Head(r.todo) = "load"
  <2>1. q = Onward(r, r.doc)
    BY <1>0, <1>1 DEF Loaded
  <2>2. Sound(r.doc, V)
    BY DEF Known
  <2>. QED  BY <1>0, <2>1, <2>2, OnwardIs
<1>2. CASE Head(r.todo) /= "load"
  <2>1. q = [pc |-> "store", call |-> r.call, todo |-> r.todo, seen |-> r.seen, doc |-> r.doc]
    BY <1>0, <1>2 DEF Loaded, WorkerRow
  <2>2. q.pc = "store" /\ q.call = r.call /\ q.todo = r.todo /\ q.seen = r.seen /\ q.doc = r.doc
    BY <2>1
  <2>. QED  BY <1>0, <2>2 DEF StoreRow, Busy, Known, Awaited
<1>. QED  BY <1>1, <1>2

\* What a section saves is good where the call's number is spent, if the section is its own.
LEMMA SavesSound ==
  ASSUME StoreInv, NEW w \in Workers, workers[w].pc = "store", Saves(w) /= Refused,
         NEW V, V \subseteq Unspent(lane, begun, workers),
         Head(workers[w].todo) \notin Aux => workers[w].call.n \notin V
  PROVE  Sound(Saves(w), V)
<1>1. PICK r : r = workers[w]
  OBVIOUS
<1>2. PICK U : U = Unspent(lane, begun, workers)
  OBVIOUS
<1>3. Known(r, U) /\ Busy(lane, begun, r) /\ r.pc = "store"
  BY <1>1, <1>2 DEF StoreInv, StoreRow
<1>4. PICK c : c = Now(r)
  OBVIOUS
<1>5. PICK s : s = Head(r.todo)
  OBVIOUS
<1>6. Saves(w) = Do(r.doc, s, c)
  BY <1>1, <1>4, <1>5 DEF Saves
<1>7. /\ Formed(lane, c) /\ c.n = r.call.n /\ c.op = r.call.op /\ c.key = r.call.key /\ c.seen = r.seen
  <2>1. Formed(lane, r.call)
    BY <1>3 DEF Busy
  <2>. QED  BY <1>4, <2>1, NowIs
<1>8. Planned(c.op, c.key, r.todo)
  BY <1>3, <1>7 DEF Busy
<1>9. s = r.todo[1] /\ 1 \in 1..Len(r.todo) /\ (s \in Aux \/ s = c.op)
  BY <1>5, <1>8, FirstIs
<1>10. Sound(r.doc, U)
  BY <1>3 DEF Known
<1>11. CASE s \in Aux
  <2>1. s \in Reserving => IsKey(c.key) /\ c.key[1] = "idem"
    BY <1>8, <1>9 DEF Planned
  <2>2. Sound(Do(r.doc, s, c), U)
    BY <1>6, <1>10, <1>11, <2>1, AuxSound
  <2>. QED  BY <1>2, <1>6, <2>2, FewerSound
<1>12. CASE s \notin Aux
  <2>1. s = c.op
    BY <1>9, <1>12
  <2>2. lane \in Lanes /\ begun \in 0..RequestsOf(lane) /\ RequestsOf(lane) \in Nat
    BY LaneIs DEF StoreInv
  <2>3. c.n \in 1..RequestsOf(lane) /\ c.n \in Nat
    BY <1>3, <1>7, <2>2 DEF Busy
  <2>4. Awaited(r)
    BY <1>3, <1>7, <1>9, <2>1 DEF Awaited
  <2>5. c.n \in U
    BY <1>1, <1>2, <1>7, <2>3, <2>4 DEF Unspent
  <2>6. V \cup {c.n} \subseteq U
    BY <1>2, <2>5
  <2>7. V \subseteq 1..RequestsOf(lane)
    BY DEF Unspent
  <2>8. c.n \notin V
    BY <1>1, <1>5, <1>7, <1>12
  <2>9. c.op \in Seeing => Sound(c.seen[1], V \cup {c.n})
    <3>. SUFFICES ASSUME c.op \in Seeing PROVE Sound(c.seen[1], V \cup {c.n})
      OBVIOUS
    <3>1. PICK D : r.seen \in Seq(D) /\ \A x \in D : Sound(x, U)
      BY <1>3 DEF Known
    <3>2. r.seen /= <<>>
      <4>. SUFFICES ASSUME Reads(c.op, r.todo) PROVE FALSE
        BY <1>3, <1>7 DEF Busy
      <4>1. PICK j \in 1..Len(r.todo) : \A i \in 1..j : r.todo[i] /= c.op
        BY DEF Reads
      <4>2. 1 \in 1..j
        OBVIOUS
      <4>. QED  BY <1>9, <2>1, <4>1, <4>2
    <3>3. r.seen[1] \in D
      BY <3>1, <3>2
    <3>. QED  BY <1>7, <2>6, <3>1, <3>3, FewerSound
  <2>10. Sound(r.doc, V \cup {c.n})
    BY <1>10, <2>6, FewerSound
  <2>11. Serves(lane, c, r.doc, V)
    BY <1>7, <2>3, <2>7, <2>8, <2>9, <2>10 DEF Serves, Sound
  <2>14. Credentials(r.doc) /\ (c.op \in Seeing => Credentials(c.seen[1]))
    BY <2>9, <2>10 DEF Sound
  <2>12. Do(r.doc, c.op, c) /= Refused /\ c.op \notin Aux
    BY <1>6, <1>12, <2>1
  <2>13. Sound(Do(r.doc, c.op, c), V)
    BY <2>11, <2>12, <2>14, OwnSound
  <2>. QED  BY <1>6, <2>1, <2>13
<1>. QED  BY <1>11, <1>12

\* A worker's move spends numbers only.
LEMMA UnspentShrinks ==
  ASSUME NEW l, NEW b, NEW d, b <= d, b \in Nat, d \in Nat, NEW ws, NEW vs, NEW w \in Workers,
         \A o \in Workers \ {w} : vs[o] = ws[o],
         Awaited(vs[w]) => \/ Awaited(ws[w]) /\ vs[w].call.n = ws[w].call.n
                           \/ vs[w].call.n = b + 1
  PROVE  Unspent(l, d, vs) \subseteq Unspent(l, b, ws)
<1>. SUFFICES ASSUME NEW n \in 1..RequestsOf(l),
                     n > d \/ \E o \in Workers : vs[o].call.n = n /\ Awaited(vs[o])
              PROVE  n \in Unspent(l, b, ws)
  BY DEF Unspent
<1>0. n \in Nat
  OBVIOUS
<1>1. CASE n > d
  BY <1>0, <1>1 DEF Unspent
<1>2. ASSUME NEW o \in Workers, vs[o].call.n = n, Awaited(vs[o]) PROVE n \in Unspent(l, b, ws)
  <2>1. CASE o /= w
    BY <1>2, <2>1 DEF Unspent
  <2>2. CASE o = w /\ Awaited(ws[w]) /\ vs[w].call.n = ws[w].call.n
    BY <1>2, <2>2 DEF Unspent
  <2>3. CASE o = w /\ vs[w].call.n = b + 1
    <3>1. n > b
      BY <1>2, <2>3
    <3>. QED  BY <3>1 DEF Unspent
  <2>. QED  BY <1>2, <2>1, <2>2, <2>3
<1>. QED  BY <1>1, <1>2

\* The invariant after a worker of the same call, or of the next one, has moved.
LEMMA StoreMoves ==
  ASSUME StoreInv, LockInv, NEW w \in Workers, NEW r, workers' = [workers EXCEPT ![w] = r],
         lane' = lane, begun' \in 0..RequestsOf(lane), half' \in BOOLEAN, crashed' = crashed,
         StoreRow(lane, begun', r),
         \/ begun' = begun /\ (r.pc /= "idle" => workers[w].pc /= "idle" /\ r.call.n = workers[w].call.n)
         \/ begun' = begun + 1 /\ r.call.n = begun + 1,
         Awaited(r) => Awaited(workers[w]) \/ r.call.n = begun + 1,
         Known(r, Unspent(lane, begun', workers')), Sound(file', Unspent(lane, begun', workers'))
  PROVE  StoreInv'
<1>1. /\ \A o \in Workers : workers'[o] = IF o = w THEN r ELSE workers[o]
      /\ begun \in Nat /\ begun' \in Nat /\ begun <= begun'
  <2>1. RequestsOf(lane) \in Nat
    BY LaneIs DEF StoreInv
  <2>. QED  BY <2>1 DEF LockInv, StoreInv
<1>2. Unspent(lane, begun', workers') \subseteq Unspent(lane, begun, workers)
  <2>1. Awaited(workers'[w]) => \/ Awaited(workers[w]) /\ workers'[w].call.n = workers[w].call.n
                                \/ workers'[w].call.n = begun + 1
    BY <1>1 DEF Awaited
  <2>2. PICK vs : vs = workers'
    OBVIOUS
  <2>3. PICK e : e = begun'
    OBVIOUS
  <2>4. /\ \A o \in Workers \ {w} : vs[o] = workers[o]
        /\ Awaited(vs[w]) => \/ Awaited(workers[w]) /\ vs[w].call.n = workers[w].call.n
                             \/ vs[w].call.n = begun + 1
        /\ begun \in Nat /\ e \in Nat /\ begun <= e
    BY <1>1, <2>1, <2>2, <2>3
  <2>5. Unspent(lane, e, vs) \subseteq Unspent(lane, begun, workers)
    BY <2>4, UnspentShrinks
  <2>. QED  BY <2>2, <2>3, <2>5
<1>3. \A o \in Workers : Known(workers'[o], Unspent(lane, begun', workers'))
  <2>. SUFFICES ASSUME NEW o \in Workers PROVE Known(workers'[o], Unspent(lane, begun', workers'))
    OBVIOUS
  <2>1. CASE o = w
    BY <1>1, <2>1
  <2>2. CASE o /= w
    <3>1. Known(workers[o], Unspent(lane, begun, workers)) /\ workers'[o] = workers[o]
      BY <1>1, <2>2 DEF StoreInv
    <3>2. Known(workers[o], Unspent(lane, begun', workers'))
      BY <1>2, <3>1, KnownFewer
    <3>. QED  BY <3>1, <3>2
  <2>. QED  BY <2>1, <2>2
<1>4. \A o \in Workers : StoreRow(lane, begun', workers'[o])
  <2>. SUFFICES ASSUME NEW o \in Workers PROVE StoreRow(lane, begun', workers'[o])
    OBVIOUS
  <2>1. CASE o = w
    BY <1>1, <2>1
  <2>2. CASE o /= w
    <3>1. StoreRow(lane, begun, workers[o]) /\ workers'[o] = workers[o]
      BY <1>1, <2>2 DEF StoreInv
    <3>2. 1..begun \subseteq 1..begun'
      BY <1>1
    <3>. QED  BY <3>1, <3>2 DEF StoreRow, Busy
  <2>. QED  BY <2>1, <2>2
<1>5. \A v, o \in Workers : SameCall(workers'[v], workers'[o]) => v = o
  <2>1. \A o \in Workers : workers[o].pc /= "idle" => workers[o].call.n \in 1..begun
    BY DEF StoreInv, StoreRow, Busy
  <2>2. \A o \in Workers : workers[o].pc /= "idle" => workers[o].call.n /= begun + 1
    BY <1>1, <2>1
  <2>3. \A v, o \in Workers : SameCall(workers[v], workers[o]) => v = o
    BY DEF StoreInv
  <2>4. ASSUME NEW o \in Workers, o /= w PROVE ~SameCall(workers[o], r)
    <3>1. CASE begun' = begun /\ (r.pc /= "idle" => workers[w].pc /= "idle" /\ r.call.n = workers[w].call.n)
      BY <2>3, <2>4, <3>1 DEF SameCall
    <3>2. CASE r.call.n = begun + 1
      BY <2>2, <2>4, <3>2 DEF SameCall
    <3>. QED  BY <3>1, <3>2
  <2>. SUFFICES ASSUME NEW v \in Workers, NEW o \in Workers, v /= o,
                       SameCall(workers'[v], workers'[o])
                PROVE  FALSE
    OBVIOUS
  <2>5. CASE v /= w /\ o /= w
    BY <1>1, <2>3, <2>5
  <2>6. CASE v = w
    BY <1>1, <2>4, <2>6 DEF SameCall
  <2>7. CASE o = w
    BY <1>1, <2>4, <2>7
  <2>. QED  BY <2>5, <2>6, <2>7
<1>6. lane' \in Lanes /\ begun' \in 0..RequestsOf(lane') /\ half' \in BOOLEAN /\ crashed' \in BOOLEAN
  BY DEF StoreInv
<1>. QED  BY <1>3, <1>4, <1>5, <1>6 DEF StoreInv

\* What the moves of a worker have in common: fewer numbers, and documents that stay good.
LEMMA MoveShrinks ==
  ASSUME StoreInv, LockInv, NEW w \in Workers, NEW r, workers' = [workers EXCEPT ![w] = r],
         lane' = lane, begun' = begun,
         r.pc /= "idle" => r.call.n = workers[w].call.n, Awaited(r) => Awaited(workers[w])
  PROVE  LET V == Unspent(lane, begun', workers')
         IN /\ V \subseteq Unspent(lane, begun, workers)
            /\ Sound(file, V) /\ Known(workers[w], V)
            /\ ~Awaited(r) /\ workers[w].pc /= "idle" => workers[w].call.n \notin V
<1>1. PICK vs : vs = workers'
  OBVIOUS
<1>2. PICK ws : ws = workers
  OBVIOUS
<1>3. begun \in Nat
  <2>1. RequestsOf(lane) \in Nat
    BY LaneIs DEF StoreInv
  <2>. QED  BY <2>1 DEF StoreInv
<1>4. PICK V : V = Unspent(lane, begun', workers')
  OBVIOUS
<1>5. \A o \in Workers : vs[o] = IF o = w THEN r ELSE ws[o]
  BY <1>1, <1>2 DEF LockInv
<1>6. V = Unspent(lane, begun, vs)
  BY <1>1, <1>4
<1>7. \A o \in Workers \ {w} : vs[o] = ws[o]
  BY <1>5
<1>8. Awaited(vs[w]) => \/ Awaited(ws[w]) /\ vs[w].call.n = ws[w].call.n
                        \/ vs[w].call.n = begun + 1
  BY <1>2, <1>5 DEF Awaited
<1>9. V \subseteq Unspent(lane, begun, ws)
  <2>1. begun <= begun
    BY <1>3
  <2>. QED  BY <1>3, <1>6, <1>7, <1>8, <2>1, UnspentShrinks
<1>10. Sound(file, V) /\ Known(workers[w], V)
  <2>1. Sound(file, Unspent(lane, begun, ws)) /\ Known(workers[w], Unspent(lane, begun, ws))
    BY <1>2 DEF StoreInv
  <2>. QED  BY <1>9, <2>1, FewerSound, KnownFewer
<1>11. ASSUME ~Awaited(r), ws[w].pc /= "idle", ws[w].call.n \in V PROVE FALSE
  <2>1. ws[w].call.n \in 1..begun
    BY <1>2, <1>11 DEF StoreInv, StoreRow, Busy
  <2>2. PICK o \in Workers : vs[o].call.n = ws[w].call.n /\ Awaited(vs[o])
    BY <1>3, <1>6, <1>11, <2>1 DEF Unspent
  <2>3. o /= w
    BY <1>5, <1>11, <2>2
  <2>4. ws[o].pc /= "idle" /\ ws[o].call.n = ws[w].call.n
    BY <1>5, <2>2, <2>3 DEF Awaited
  <2>5. SameCall(workers[o], workers[w])
    BY <1>2, <1>11, <2>4 DEF SameCall
  <2>. QED  BY <2>3, <2>5 DEF StoreInv
<1>. QED  BY <1>2, <1>4, <1>9, <1>10, <1>11

\* A request that begins keeps the invariant: its number was not used.
LEMMA BeginStores ==
  ASSUME StoreInv, LockInv, NEW w \in Workers, NEW c \in Offered, Begin(w, c) PROVE StoreInv'
<1>. DEFINE call == [c EXCEPT !.n = begun + 1]
            todo == Sections(c)
            r == [Idle EXCEPT !.pc = "load", !.todo = todo, !.call = call]
<1>1. /\ workers[w].pc = "idle" /\ workers' = [workers EXCEPT ![w] = r] /\ begun' = begun + 1
      /\ begun < RequestsOf(lane) /\ UNCHANGED <<lane, file, half, late, crashed>>
  BY DEF Begin
<1>2. lane \in Lanes /\ RequestsOf(lane) \in Nat /\ begun \in 0..RequestsOf(lane)
  BY LaneIs DEF StoreInv
<1>3. Formed(lane, c)
  <2>1. CASE begun < Len(lane.start)
    <3>1. c = lane.start[begun + 1] /\ begun + 1 \in 1..Len(lane.start)
      BY <1>2, <2>1, LaneIs DEF Offered
    <3>. QED  BY <1>2, <3>1, LanesAreFormed
  <2>2. CASE ~(begun < Len(lane.start))
    <3>1. c \in lane.calls
      BY <2>2 DEF Offered
    <3>. QED  BY <1>2, <3>1, LanesAreFormed
  <2>. QED  BY <2>1, <2>2
<1>4. Formed(lane, call) /\ call.n = begun + 1 /\ call.op = c.op /\ call.key = c.key
  BY <1>3, FormedNumber
<1>5. Planned(c.op, c.key, todo) /\ (c.op \in Seeing => Reads(c.op, todo))
  BY <1>3, SectionsArePlanned
<1>. HIDE DEF call, todo
<1>6. r = [pc |-> "load", call |-> call, todo |-> todo, seen |-> <<>>, doc |-> _blank_store]
  <2>1. WorkerRow(Idle) /\ Idle.seen = <<>> /\ Idle.doc = _blank_store
    BY DEF Idle, WorkerRow
  <2>2. r = [pc |-> "load", call |-> call, todo |-> todo, seen |-> Idle.seen, doc |-> Idle.doc]
    BY <2>1, RowBegins
  <2>. HIDE DEF r
  <2>. QED  BY <2>1, <2>2
<1>. HIDE DEF r
<1>7. r.pc = "load" /\ r.call = call /\ r.todo = todo /\ r.seen = <<>> /\ r.doc = _blank_store
  BY <1>6
<1>8. StoreRow(lane, begun', r)
  <2>1. r.call.n \in 1..begun'
    BY <1>1, <1>2, <1>4, <1>7
  <2>. QED  BY <1>4, <1>5, <1>7, <2>1 DEF StoreRow, Busy
<1>9. Known(r, Unspent(lane, begun', workers'))
  BY <1>7, IdleIs DEF Known, Idle
<1>10. Sound(file', Unspent(lane, begun', workers'))
  <2>1. PICK vs : vs = workers'
    OBVIOUS
  <2>2. PICK e : e = begun + 1
    OBVIOUS
  <2>3. \A o \in Workers \ {w} : vs[o] = workers[o]
    BY <1>1, <2>1 DEF LockInv
  <2>4. vs[w] = r
    BY <1>1, <2>1 DEF LockInv
  <2>5. vs[w].call.n = begun + 1
    BY <1>4, <1>7, <2>4
  <2>6. begun \in Nat /\ e \in Nat /\ begun <= e
    BY <1>2, <2>2
  <2>7. Unspent(lane, e, vs) \subseteq Unspent(lane, begun, workers)
    BY <2>3, <2>5, <2>6, UnspentShrinks
  <2>8. Sound(file, Unspent(lane, begun, workers))
    BY DEF StoreInv
  <2>9. Sound(file, Unspent(lane, e, vs))
    BY <2>7, <2>8, FewerSound
  <2>. QED  BY <1>1, <2>1, <2>2, <2>9
<1>11. /\ begun' \in 0..RequestsOf(lane) /\ begun' = begun + 1 /\ r.call.n = begun + 1
       /\ half' \in BOOLEAN /\ crashed' = crashed /\ lane' = lane
  BY <1>1, <1>2, <1>4, <1>7 DEF StoreInv
<1>. QED  BY <1>1, <1>8, <1>9, <1>10, <1>11, StoreMoves

\* A worker that goes on with its call, or ends it, and leaves the file as it is or puts a
\* good document in it.
LEMMA GoesOn ==
  ASSUME StoreInv, LockInv, NEW w \in Workers, NEW r, workers' = [workers EXCEPT ![w] = r],
         lane' = lane, begun' = begun, half' \in BOOLEAN, crashed' = crashed,
         workers[w].pc /= "idle", StoreRow(lane, begun, r),
         r.pc /= "idle" => r.call.n = workers[w].call.n, Awaited(r) => Awaited(workers[w]),
         Known(r, Unspent(lane, begun', workers')), Sound(file', Unspent(lane, begun', workers'))
  PROVE  StoreInv'
<1>1. StoreRow(lane, begun', r) /\ begun' \in 0..RequestsOf(lane)
  BY DEF StoreInv
<1>2. begun' = begun /\ (r.pc /= "idle" => workers[w].pc /= "idle" /\ r.call.n = workers[w].call.n)
  OBVIOUS
<1>. QED  BY <1>1, <1>2, StoreMoves

\* A load keeps the invariant.
LEMMA LoadStores ==
  ASSUME StoreInv, LockInv, NEW w \in Workers, _load(w) PROVE StoreInv'
<1>. DEFINE normal == _normalize_store(file, late)
            before == IF workers[w].seen = <<>> /\ Head(workers[w].todo) = Sections(workers[w].call)[1]
                      THEN late ELSE workers[w].call.before
            q == [workers[w] EXCEPT !.doc = normal, !.call.before = before]
            r == IF normal = file THEN Loaded(q) ELSE [q EXCEPT !.pc = "tidy"]
            call == [workers[w].call EXCEPT !.before = before]
            U == Unspent(lane, begun, workers)
<1>1. /\ workers[w].pc = "load" /\ workers' = [workers EXCEPT ![w] = r]
      /\ UNCHANGED <<lane, file, half, late, begun, crashed>>
  BY DEF _load, MayLoad
<1>2. WorkerRow(workers[w]) /\ Busy(lane, begun, workers[w]) /\ Known(workers[w], U)
  BY <1>1 DEF LockInv, StoreInv, StoreRow
<1>3. Sound(normal, U)
  BY SweepSound DEF StoreInv
<1>. HIDE DEF normal, before, U
<1>a. q = [pc |-> workers[w].pc, call |-> [workers[w].call EXCEPT !.before = before],
            todo |-> workers[w].todo, seen |-> workers[w].seen, doc |-> normal]
  BY <1>2, RowReads
<1>. HIDE DEF q
<1>4. q = [pc |-> "load", call |-> call, todo |-> workers[w].todo, seen |-> workers[w].seen, doc |-> normal]
  BY <1>1, <1>a
<1>5. Formed(lane, call) /\ call.n = workers[w].call.n /\ call.op = workers[w].call.op
      /\ call.key = workers[w].call.key
  BY <1>2, FormedBefore DEF Busy
<1>. HIDE DEF call, q
<1>6. /\ q.pc = "load" /\ q.call = call /\ q.todo = workers[w].todo /\ q.seen = workers[w].seen
      /\ q.doc = normal /\ WorkerRow(q)
  BY <1>4 DEF WorkerRow
<1>7. Busy(lane, begun, q)
  BY <1>2, <1>5, <1>6 DEF Busy
<1>8. Known(q, U)
  BY <1>2, <1>3, <1>6 DEF Known
<1>9. Awaited(q) => Awaited(workers[w])
  BY <1>1, <1>5, <1>6 DEF Awaited
<1>10. /\ Known(r, U) /\ StoreRow(lane, begun, r)
       /\ r.pc /= "idle" => r.call = call
       /\ Awaited(r) => Awaited(q)
  <2>1. CASE normal = file
    BY <1>6, <1>7, <1>8, <2>1, LoadedIs
  <2>2. CASE normal /= file
    <3>1. r = [pc |-> "tidy", call |-> q.call, todo |-> q.todo, seen |-> q.seen, doc |-> q.doc]
      BY <1>6, <2>2 DEF WorkerRow
    <3>. HIDE DEF r
    <3>2. r.pc = "tidy" /\ r.call = q.call /\ r.todo = q.todo /\ r.seen = q.seen /\ r.doc = q.doc
      BY <3>1
    <3>. QED  BY <1>6, <1>7, <1>8, <3>2 DEF StoreRow, Busy, Known, Awaited
  <2>. QED  BY <2>1, <2>2
<1>. HIDE DEF r
<1>11. r.pc /= "idle" => r.call.n = workers[w].call.n
  BY <1>5, <1>10
<1>12. Awaited(r) => Awaited(workers[w])
  BY <1>9, <1>10
<1>13. Unspent(lane, begun', workers') \subseteq U /\ Sound(file, Unspent(lane, begun', workers'))
  BY <1>1, <1>11, <1>12, MoveShrinks DEF U
<1>14. Known(r, Unspent(lane, begun', workers'))
  BY <1>10, <1>13, KnownFewer
<1>15. half' \in BOOLEAN /\ Sound(file', Unspent(lane, begun', workers'))
  BY <1>1, <1>13 DEF StoreInv
<1>. QED  BY <1>1, <1>10, <1>11, <1>12, <1>14, <1>15, GoesOn

\* A load that fails keeps the invariant.
LEMMA LoadFailsStores ==
  ASSUME StoreInv, LockInv, NEW w \in Workers, LoadFails(w) PROVE StoreInv'
<1>1. /\ workers[w].pc = "load" /\ workers' = [workers EXCEPT ![w] = Idle]
      /\ UNCHANGED <<lane, file, half, late, begun, crashed>>
  BY DEF LoadFails, MayLoad
<1>2. PICK r : r = Idle
  OBVIOUS
<1>3. StoreRow(lane, begun, r) /\ r.pc = "idle" /\ ~Awaited(r) /\ \A V : Known(r, V)
  BY <1>2, IdleIs DEF StoreRow
<1>4. workers' = [workers EXCEPT ![w] = r]
  BY <1>1, <1>2
<1>5. Sound(file, Unspent(lane, begun', workers'))
  BY <1>1, <1>3, <1>4, MoveShrinks
<1>6. half' \in BOOLEAN /\ Sound(file', Unspent(lane, begun', workers'))
  BY <1>1, <1>5 DEF StoreInv
<1>. QED  BY <1>1, <1>3, <1>4, <1>6, GoesOn

\* Beginning to put a sweep in place keeps the invariant.
LEMMA SweepStores ==
  ASSUME StoreInv, LockInv, NEW w \in Workers, SweepInPlace(w) PROVE StoreInv'
<1>1. PICK r : r = [workers[w] EXCEPT !.pc = "sweep"]
  OBVIOUS
<1>2. /\ workers[w].pc = "tidy" /\ workers' = [workers EXCEPT ![w] = r] /\ half'
      /\ UNCHANGED <<lane, file, late, begun, crashed>>
  BY <1>1 DEF SweepInPlace
<1>3. PICK q, U : q = workers[w] /\ U = Unspent(lane, begun, workers)
  OBVIOUS
<1>4. WorkerRow(q) /\ Busy(lane, begun, q) /\ q.pc = "tidy"
  BY <1>2, <1>3 DEF LockInv, StoreInv, StoreRow
<1>5. /\ r.pc = "sweep" /\ r.call = q.call /\ r.todo = q.todo /\ r.seen = q.seen /\ r.doc = q.doc
  BY <1>1, <1>3, <1>4, RowSweeps
<1>6. StoreRow(lane, begun, r) /\ (Awaited(r) => Awaited(q))
  BY <1>4, <1>5 DEF StoreRow, Busy, Awaited
<1>7. PICK V : V = Unspent(lane, begun', workers')
  OBVIOUS
<1>8. Known(q, V) /\ Sound(file, V)
  BY <1>2, <1>3, <1>5, <1>6, <1>7, MoveShrinks
<1>9. Known(r, V) /\ Sound(file', V) /\ half' \in BOOLEAN
  BY <1>2, <1>5, <1>8 DEF Known
<1>. QED  BY <1>2, <1>3, <1>4, <1>5, <1>6, <1>7, <1>9, GoesOn

\* Saving what a load swept keeps the invariant.
LEMMA TidyStores ==
  ASSUME StoreInv, LockInv, NEW w \in Workers, Tidy(w) PROVE StoreInv'
<1>1. PICK r : r = Loaded(workers[w])
  OBVIOUS
<1>2. /\ workers[w].pc \in {"tidy", "sweep"} /\ workers' = [workers EXCEPT ![w] = r]
      /\ file' = workers[w].doc /\ half' = FALSE /\ UNCHANGED <<lane, late, begun, crashed>>
  BY <1>1 DEF Tidy
<1>3. PICK q, U : q = workers[w] /\ U = Unspent(lane, begun, workers)
  OBVIOUS
<1>4. WorkerRow(q) /\ Busy(lane, begun, q) /\ Known(q, U) /\ q.pc \in {"tidy", "sweep"}
  BY <1>2, <1>3 DEF LockInv, StoreInv, StoreRow
<1>5. /\ StoreRow(lane, begun, r) /\ (r.pc /= "idle" => r.call = q.call)
      /\ (Awaited(r) => Awaited(q))
  BY <1>1, <1>3, <1>4, LoadedIs
<1>6. PICK V : V = Unspent(lane, begun', workers')
  OBVIOUS
<1>7. Known(q, V)
  BY <1>2, <1>3, <1>5, <1>6, MoveShrinks
<1>8. Known(r, V)
  BY <1>1, <1>3, <1>4, <1>7, LoadedIs
<1>9. Sound(file', V)
  BY <1>2, <1>3, <1>7 DEF Known
<1>10. half' \in BOOLEAN
  BY <1>2
<1>. QED  BY <1>2, <1>3, <1>4, <1>5, <1>6, <1>8, <1>9, <1>10, GoesOn

\* A section that returns without saving keeps the invariant.
LEMMA ReturnsStores ==
  ASSUME StoreInv, LockInv, NEW w \in Workers, Returns(w) PROVE StoreInv'
<1>1. PICK r : r = Back(workers[w])
  OBVIOUS
<1>2. /\ workers[w].pc = "store" /\ workers' = [workers EXCEPT ![w] = r]
      /\ UNCHANGED <<lane, file, half, late, begun, crashed>>
  BY <1>1 DEF Returns, MaySave
<1>3. PICK q, U : q = workers[w] /\ U = Unspent(lane, begun, workers)
  OBVIOUS
<1>4. WorkerRow(q) /\ Busy(lane, begun, q) /\ Known(q, U) /\ q.pc = "store"
  BY <1>2, <1>3 DEF LockInv, StoreInv, StoreRow
<1>5. /\ StoreRow(lane, begun, r) /\ (r.pc /= "idle" => r.call = q.call)
      /\ (Awaited(r) => Awaited(q))
  BY <1>1, <1>3, <1>4, BackIs
<1>6. PICK V : V = Unspent(lane, begun', workers')
  OBVIOUS
<1>7. Known(q, V) /\ Sound(file, V)
  BY <1>2, <1>3, <1>5, <1>6, MoveShrinks
<1>8. Known(r, V)
  BY <1>1, <1>3, <1>4, <1>7, BackIs
<1>9. Sound(file', V) /\ half' \in BOOLEAN
  BY <1>2, <1>7 DEF StoreInv
<1>. QED  BY <1>2, <1>3, <1>4, <1>5, <1>6, <1>8, <1>9, GoesOn

\* A save keeps the invariant, whatever was saved since its document was read.
LEMMA SaveStores ==
  ASSUME StoreInv, LockInv, NEW w \in Workers, _save(w) PROVE StoreInv'
<1>1. PICK r : r = Onward(workers[w], workers[w].doc)
  OBVIOUS
<1>2. /\ workers[w].pc = "store" /\ workers' = [workers EXCEPT ![w] = r] /\ Saves(w) /= Refused
      /\ file' = Saves(w) /\ half' = FALSE /\ UNCHANGED <<lane, begun, crashed>>
  BY <1>1 DEF _save, MaySave
<1>3. PICK q, U : q = workers[w] /\ U = Unspent(lane, begun, workers)
  OBVIOUS
<1>4. WorkerRow(q) /\ Busy(lane, begun, q) /\ Known(q, U) /\ q.pc = "store" /\ Sound(q.doc, U)
  BY <1>2, <1>3 DEF LockInv, StoreInv, StoreRow, Known
<1>5. /\ StoreRow(lane, begun, r) /\ (r.pc /= "idle" => r.call = q.call)
      /\ (Awaited(r) => Awaited(q) /\ ~(Head(q.todo) = q.call.op /\ q.call.op \notin Aux))
  BY <1>1, <1>3, <1>4, OnwardIs
<1>6. PICK V : V = Unspent(lane, begun', workers')
  OBVIOUS
<1>7. Known(q, V) /\ V \subseteq U /\ (~Awaited(r) => q.call.n \notin V)
  BY <1>2, <1>3, <1>5, <1>6, MoveShrinks
<1>8. Known(r, V)
  <2>1. Sound(q.doc, V)
    BY <1>7 DEF Known
  <2>. QED  BY <1>1, <1>3, <1>4, <1>7, <2>1, OnwardIs
<1>9. Head(q.todo) \notin Aux => Head(q.todo) = q.call.op
  BY <1>4, FirstIs DEF Busy
<1>10. Head(q.todo) \notin Aux => q.call.n \notin V
  BY <1>5, <1>7, <1>9
<1>11. Sound(Saves(w), V)
  BY <1>2, <1>3, <1>7, <1>10, SavesSound
<1>12. Sound(file', V) /\ half' \in BOOLEAN
  BY <1>2, <1>11
<1>. QED  BY <1>2, <1>3, <1>4, <1>5, <1>6, <1>8, <1>12, GoesOn

\* Beginning to write in place keeps the invariant.
LEMMA WriteStores ==
  ASSUME StoreInv, LockInv, NEW w \in Workers, WriteInPlace(w) PROVE StoreInv'
<1>1. /\ workers[w].pc = "store" /\ Saves(w) /= Refused /\ half'
      /\ workers' = [workers EXCEPT ![w].pc = "write", ![w].doc = Saves(w)]
      /\ UNCHANGED <<lane, file, late, begun, crashed>>
  BY DEF WriteInPlace, MaySave
<1>2. PICK d : d = Saves(w)
  OBVIOUS
<1>3. PICK q, U : q = workers[w] /\ U = Unspent(lane, begun, workers)
  OBVIOUS
<1>4. WorkerRow(q) /\ Busy(lane, begun, q) /\ Known(q, U) /\ q.pc = "store"
  BY <1>1, <1>3 DEF LockInv, StoreInv, StoreRow
<1>5. PICK r : r = [pc |-> "write", call |-> q.call, todo |-> q.todo, seen |-> q.seen, doc |-> d]
  OBVIOUS
<1>6. workers' = [workers EXCEPT ![w] = r]
  <2>1. [[q EXCEPT !.pc = "write"] EXCEPT !.doc = d] = r
    BY <1>4, <1>5, RowWrites
  <2>2. workers' = [[workers EXCEPT ![w].pc = "write"] EXCEPT ![w].doc = d]
    BY <1>1, <1>2
  <2>3. workers = [o \in Workers |-> workers[o]]
    BY DEF LockInv
  <2>4. workers' = [workers EXCEPT ![w] = [[workers[w] EXCEPT !.pc = "write"] EXCEPT !.doc = d]]
    BY <2>2, <2>3
  <2>. QED  BY <1>3, <2>1, <2>4
<1>7. r.pc = "write" /\ r.call = q.call /\ r.todo = q.todo /\ r.seen = q.seen /\ r.doc = d
  BY <1>5
<1>8. StoreRow(lane, begun, r)
  BY <1>4, <1>7 DEF StoreRow, Busy
<1>9. Awaited(r) => Awaited(q)
  BY <1>4, <1>7 DEF Awaited
<1>10. PICK V : V = Unspent(lane, begun', workers')
  OBVIOUS
<1>11. Known(q, V) /\ V \subseteq U /\ Sound(file, V) /\ (~Awaited(r) => q.call.n \notin V)
  BY <1>1, <1>3, <1>4, <1>6, <1>7, <1>9, <1>10, MoveShrinks
<1>12. Planned(q.call.op, q.call.key, q.todo)
  BY <1>4 DEF Busy
<1>13. Head(q.todo) \notin Aux => ~Awaited(r)
  <2>. SUFFICES ASSUME Head(q.todo) \notin Aux, Awaited(r) PROVE FALSE
    OBVIOUS
  <2>1. Head(q.todo) = q.todo[1] /\ 1 \in 1..Len(q.todo) /\ Head(q.todo) = q.call.op
    BY <1>12, FirstIs
  <2>2. PICK i \in 1..Len(q.todo) : q.todo[i] = q.call.op /\ i /= 1
    BY <1>7 DEF Awaited
  <2>. QED  BY <1>12, <2>1, <2>2 DEF Planned
<1>14. Sound(d, V)
  BY <1>1, <1>2, <1>3, <1>11, <1>13, SavesSound
<1>15. Known(r, V)
  BY <1>7, <1>11, <1>14 DEF Known
<1>16. Sound(file', V) /\ half' \in BOOLEAN
  BY <1>1, <1>11
<1>. QED  BY <1>1, <1>3, <1>4, <1>6, <1>7, <1>8, <1>9, <1>10, <1>15, <1>16, GoesOn

\* The end of a write in place keeps the invariant.
LEMMA WriteEndsStores ==
  ASSUME StoreInv, LockInv, NEW w \in Workers, WriteEnds(w) PROVE StoreInv'
<1>1. PICK r : r = Onward(workers[w], workers[w].doc)
  OBVIOUS
<1>2. /\ workers[w].pc = "write" /\ workers' = [workers EXCEPT ![w] = r]
      /\ file' = workers[w].doc /\ half' = FALSE /\ UNCHANGED <<lane, late, begun, crashed>>
  BY <1>1 DEF WriteEnds
<1>3. PICK q, U : q = workers[w] /\ U = Unspent(lane, begun, workers)
  OBVIOUS
<1>4. WorkerRow(q) /\ Busy(lane, begun, q) /\ Known(q, U) /\ q.pc = "write" /\ Sound(q.doc, U)
  BY <1>2, <1>3 DEF LockInv, StoreInv, StoreRow, Known
<1>5. /\ StoreRow(lane, begun, r) /\ (r.pc /= "idle" => r.call = q.call)
      /\ (Awaited(r) => Awaited(q))
  BY <1>1, <1>3, <1>4, OnwardIs
<1>6. PICK V : V = Unspent(lane, begun', workers')
  OBVIOUS
<1>7. Known(q, V)
  BY <1>2, <1>3, <1>5, <1>6, MoveShrinks
<1>8. Sound(q.doc, V)
  BY <1>7 DEF Known
<1>9. Known(r, V)
  BY <1>1, <1>3, <1>4, <1>7, <1>8, OnwardIs
<1>10. Sound(file', V) /\ half' \in BOOLEAN
  BY <1>2, <1>3, <1>8
<1>. QED  BY <1>2, <1>3, <1>4, <1>5, <1>6, <1>9, <1>10, GoesOn

\* A deadline that passes keeps the invariant.
LEMMA LapseStores ==
  ASSUME StoreInv, NEW k, Lapse(k) PROVE StoreInv'
<1>1. UNCHANGED <<lane, file, half, workers, begun, crashed>>
  BY DEF Lapse
<1>. QED  BY <1>1 DEF StoreInv

\* A crash keeps the invariant.
LEMMA CrashStores ==
  ASSUME StoreInv, NEW w \in Workers, Crash(w) PROVE StoreInv'
<1>1. /\ crashed' = TRUE /\ UNCHANGED <<lane, file, half, late, begun>>
      /\ workers' = [o \in Workers |-> IF Process(o) = Process(w) THEN Idle ELSE workers[o]]
  BY DEF Crash
<1>2. PICK vs : vs = workers'
  OBVIOUS
<1>3. PICK U, V : U = Unspent(lane, begun, workers) /\ V = Unspent(lane, begun, vs)
  OBVIOUS
<1>4. \A o \in Workers : vs[o] = Idle \/ vs[o] = workers[o]
  BY <1>1, <1>2
<1>5. ~Awaited(Idle) /\ Idle.pc = "idle"
  BY IdleIs
<1>6. V \subseteq U
  BY <1>3, <1>4, <1>5 DEF Unspent
<1>7. Sound(file, V)
  BY <1>3, <1>6, FewerSound DEF StoreInv
<1>8. ASSUME NEW o \in Workers PROVE Known(vs[o], V) /\ StoreRow(lane, begun, vs[o])
  <2>1. CASE vs[o] = Idle
    BY <2>1, IdleIs DEF StoreRow
  <2>2. CASE vs[o] = workers[o]
    BY <1>3, <1>6, <2>2, KnownFewer DEF StoreInv
  <2>. QED  BY <1>4, <2>1, <2>2
<1>9. \A v, o \in Workers : SameCall(vs[v], vs[o]) => v = o
  BY <1>4, <1>5 DEF StoreInv, SameCall
<1>10. lane' = lane /\ begun' = begun /\ half' = half /\ crashed' = TRUE /\ file' = file
  BY <1>1
<1>. QED  BY <1>2, <1>3, <1>7, <1>8, <1>9, <1>10 DEF StoreInv

\* The invariant holds at the start.
LEMMA StoreStarts == FileInit => StoreInv
<1>. SUFFICES ASSUME FileInit PROVE StoreInv
  OBVIOUS
<1>1. /\ lane \in Lanes /\ file = _blank_store /\ half = FALSE /\ begun = 0 /\ crashed = FALSE
      /\ \A w \in Workers : workers[w] = Idle
  BY DEF FileInit
<1>2. begun \in 0..RequestsOf(lane)
  BY <1>1, LaneIs
<1>3. PICK U : U = Unspent(lane, begun, workers)
  OBVIOUS
<1>4. Sound(file, U)
  BY <1>1, BlankIsSound
<1>5. Known(Idle, U) /\ StoreRow(lane, begun, Idle) /\ ~SameCall(Idle, Idle)
  BY IdleIs DEF StoreRow, SameCall
<1>. QED  BY <1>1, <1>2, <1>3, <1>4, <1>5 DEF StoreInv

\* Every step keeps the invariant.
LEMMA StoreStep == StoreInv /\ LockInv /\ [FileNext]_fileVars => StoreInv'
<1>. SUFFICES ASSUME StoreInv, LockInv, [FileNext]_fileVars PROVE StoreInv'
  OBVIOUS
<1>1. CASE UNCHANGED fileVars
  BY <1>1 DEF fileVars, StoreInv
<1>2. ASSUME NEW w \in Workers, NEW c \in Offered, Begin(w, c) PROVE StoreInv'
  BY <1>2, BeginStores
<1>3. ASSUME NEW w \in Workers, _load(w) PROVE StoreInv'
  BY <1>3, LoadStores
<1>4. ASSUME NEW w \in Workers, LoadFails(w) PROVE StoreInv'
  BY <1>4, LoadFailsStores
<1>5. ASSUME NEW w \in Workers, Tidy(w) PROVE StoreInv'
  BY <1>5, TidyStores
<1>6. ASSUME NEW w \in Workers, Returns(w) PROVE StoreInv'
  BY <1>6, ReturnsStores
<1>7. ASSUME NEW w \in Workers, _save(w) PROVE StoreInv'
  BY <1>7, SaveStores
<1>8. ASSUME NEW w \in Workers, WriteInPlace(w) PROVE StoreInv'
  BY <1>8, WriteStores
<1>9. ASSUME NEW w \in Workers, WriteEnds(w) PROVE StoreInv'
  BY <1>9, WriteEndsStores
<1>10. ASSUME NEW w \in Workers, Crash(w) PROVE StoreInv'
  BY <1>10, CrashStores
<1>11. ASSUME NEW k \in lane.over, Lapse(k) PROVE StoreInv'
  BY <1>11, LapseStores
<1>12. ASSUME NEW w \in Workers, SweepInPlace(w) PROVE StoreInv'
  BY <1>12, SweepStores
<1>. QED
  BY <1>1, <1>2, <1>3, <1>4, <1>5, <1>6, <1>7, <1>8, <1>9, <1>10, <1>11, <1>12 DEF FileNext

\* The invariant always holds.
LEMMA StoreInvAlways == FileSpec => []StoreInv
BY StoreStarts, StoreStep, LockInvAlways, PTL DEF FileSpec

---------------------------------------------------------------------------
(* FileStore: what its documents promise. *)

\* In a good document a head names the claim that is active.
LEMMA GoodClaims ==
  ASSUME NEW d, NEW U, Good(d, U) PROVE ClaimsHeld(d)
<1>1. ClaimsInv(d)
  BY DEF Good, Records
<1>2. ASSUME NEW k \in Section(d, "claim"), Live(d, k)
      PROVE  d[k].in \in DOMAIN d /\ d[d[k].in].to = k
  BY <1>1, <1>2 DEF ClaimsInv, Section, Live, Status
<1>3. ASSUME NEW h \in Section(d, "uaihead"), d[h].to /= Nobody PROVE Live(d, d[h].to)
  BY <1>1, <1>3 DEF ClaimsInv, Section, Live, Status
<1>. QED  BY <1>2, <1>3 DEF ClaimsHeld

\* A memory's head is its newest applied revision.
LEMMA GoodHeads ==
  ASSUME NEW d, NEW U, Good(d, U) PROVE HeadsNewest(d)
<1>1. SyncInv(d)
  BY DEF Good, Records
<1>. QED  BY <1>1 DEF SyncInv, HeadsNewest, Section, Under

\* A package is ready exactly when its records are there.
LEMMA GoodPackages ==
  ASSUME NEW d, NEW U, Good(d, U) PROVE PackagesTold(d)
<1>1. PackInv(d)
  BY DEF Good, Records
<1>. QED  BY <1>1 DEF PackInv, PackagesTold, Section

\* A review and its memory tell the same.
LEMMA GoodReviews ==
  ASSUME NEW d, NEW U, Good(d, U) PROVE ReviewsTold(d)
<1>1. ReviewInv(d)
  BY DEF Good, Records
<1>. QED  BY <1>1 DEF ReviewInv, ReviewsTold, Section, Status

\* A notification is read exactly when there is a receipt for it.
LEMMA GoodNotifications ==
  ASSUME NEW d, NEW U, Good(d, U) PROVE ReadMeansReceipt(d)
<1>1. MessageInv(d)
  BY DEF Good, Records
<1>. SUFFICES ASSUME NEW n \in Section(d, "notification")
              PROVE  d[n].status = "read" <=> \E r \in Section(d, "receipt") : d[r].in = n
  BY DEF ReadMeansReceipt
<1>2. d[n].status = "read" <=> \E r \in DOMAIN d : r[1] = "receipt" /\ d[r].in = n
  BY <1>1 DEF MessageInv, Section
<1>. QED  BY <1>2 DEF Section

\* Decisions keep their messages, approvals fit their servers.
LEMMA GoodDecisions ==
  ASSUME NEW d, NEW U, Good(d, U) PROVE DecisionsKeepTheirMessage(d) /\ ApprovalsFit(d)
<1>1. RoutingInv(d) /\ ApprovalInv(d)
  BY DEF Good, Records
<1>. QED  BY <1>1 DEF RoutingInv, ApprovalInv, DecisionsKeepTheirMessage, ApprovalsFit, Section

\* The windows stay within their limits.
LEMMA GoodWindows ==
  ASSUME NEW d, NEW U, Good(d, U) PROVE WindowsCounted(d)
<1>1. RateInv(d)
  BY DEF Good, Records
<1>. DEFINE counted == {k \in Section(d, "rate") \ late : k[2][1] = "source"}
<1>2. counted \subseteq Sources(d)
  BY DEF Sources
<1>. HIDE DEF counted
<1>3. /\ IsFiniteSet(Sources(d)) /\ IsFiniteSet(counted)
      /\ Cardinality(counted) <= Cardinality(Sources(d))
  BY <1>1, <1>2, FS_Subset DEF RateInv
<1>4. Cardinality(counted) \in Nat /\ Cardinality(Sources(d)) \in Nat
  BY <1>3, FS_CardinalityType
<1>5. Cardinality(counted) <= SourceCapacity
  BY <1>1, <1>3, <1>4, LimitsAreNumbers DEF RateInv
<1>6. \A k \in Section(d, "rate") : d[k].rev <= RateLimit
  BY <1>1 DEF RateInv, Section
<1>. QED  BY <1>5, <1>6 DEF WindowsCounted, counted

\* The state has its type.
LEMMA StoreTyped ==
  ASSUME StoreInv, LockInv PROVE FileTypeOK
<1>1. lane \in Lanes /\ half \in BOOLEAN /\ crashed \in BOOLEAN /\ begun \in 0..RequestsOf(lane)
  BY DEF StoreInv
<1>2. RequestsOf(lane) \in Nat
  BY <1>1, LaneIs
<1>3. begun \in Nat
  BY <1>1, <1>2
<1>4. ASSUME NEW k \in DOMAIN file PROVE file[k].rev \in Nat /\ file[k].status \in EntryStatuses
  <2>1. Shaped(file, Unspent(lane, begun, workers))
    BY DEF StoreInv, Sound, Good
  <2>2. IsEntry(file[k])
    BY <2>1 DEF Shaped, Sits
  <2>. QED  BY <2>2 DEF IsEntry
<1>5. ASSUME NEW w \in Workers
      PROVE  /\ workers[w].pc \in {"idle", "load", "tidy", "sweep", "store", "write"}
             /\ workers[w].pc = "idle" => workers[w] = Idle
  BY DEF StoreInv, StoreRow
<1>6. half => crashed \/ \E w \in Workers : workers[w].pc \in {"sweep", "write"}
  BY DEF LockInv, HalfIsWritten
<1>. QED  BY <1>1, <1>3, <1>4, <1>5, <1>6 DEF FileTypeOK

(***************************************************************************)
(* What one call of the file store writes in several places fits together   *)
(* in every document the file holds, though unlocked calls save documents   *)
(* that others have saved over: DocumentsAgree.                             *)
(***************************************************************************)
THEOREM RecordsFitTogether == FileSpec => []DocumentsAgree
<1>1. StoreInv /\ LockInv => DocumentsAgree
  <2>. SUFFICES ASSUME StoreInv, LockInv PROVE DocumentsAgree
    OBVIOUS
  <2>1. Good(file, Unspent(lane, begun, workers))
    BY DEF StoreInv, Sound
  <2>2. RecordsAgree
    BY <2>1, GoodClaims, GoodHeads, GoodPackages, GoodReviews, GoodNotifications, GoodDecisions,
       GoodWindows DEF RecordsAgree
  <2>. QED  BY <2>2, StoreTyped DEF DocumentsAgree
<1>. QED  BY <1>1, StoreInvAlways, LockInvAlways, PTL

(***************************************************************************)
(* The credentials that several calls write agree in every document the     *)
(* file holds: CredentialsAgree.                                            *)
(***************************************************************************)
THEOREM CredentialsFitTogether == FileSpec => []CredentialsAgree
<1>1. StoreInv => CredentialsAgree
  <2>. SUFFICES ASSUME StoreInv PROVE CredentialsAgree
    OBVIOUS
  <2>1. Sound(file, Unspent(lane, begun, workers))
    BY DEF StoreInv
  <2>2. Shaped(file, Unspent(lane, begun, workers)) /\ Credentials(file)
    BY <2>1 DEF Sound, Good
  <2>. QED  BY <2>2, CredentialsTell DEF CredentialsAgree
<1>. QED  BY <1>1, StoreInvAlways, PTL

===============================================================================
