---------------------- MODULE WritesAndPairingsProofs ----------------------
(* Safety of a write from its reservation to what it stores: the protocol   *)
(* of Idempotency-Key for any requests, keys and bodies, and the records of *)
(* a workspace for any workers, tables and quota.  Safety of a connector's  *)
(* pairing, for any requests, credentials and calls: PairingIInv adds to    *)
(* the checked invariants what a row says of the rows it names, that the    *)
(* credential a pairing names has the pairing's status, and that its        *)
(* request has gone as far as the pairing.                                  *)
EXTENDS Idempotency, Records, ConnectorPairing, FiniteSetTheorems, TLAPS

----------------------------------------------------------------------------
(* Part one: reservations                                                  *)

Handling == {"working", "mutated", "started"}

\* While its worker is in the handler, the pending row of the key is its own.
HandlersOwn == \A r \in Requests : stage[r] \in Handling => Owns(r)

\* A mutation is neither early nor forgotten: it happens in the handler, and
\* a claim that can still be released has had none.
EffectsAreMarked ==
    \A r \in Requests :
        /\ stage[r] \in {"sent", "working"} => r \notin applied
        /\ stage[r] \in {"mutated", "started"} => r \in applied
        /\ stage[r] = "started" => claim[r] # {}
        /\ stage[r] = "closing" /\ claim[r] = {} => r \notin applied

\* A row is the claim or the response of a request with its key, and a
\* response is that of a mutation that happened.
RowsAreGenuine ==
    \A k \in Keys :
        table[k] # Free =>
            \E r \in Requests :
                /\ Key(r) = k
                /\ table[k] = Pending(r) \/ (table[k] = Response(r) /\ r \in applied)

\* No worker answers before it has left the handler.
Untold ==
    \A r \in Requests : stage[r] \in Handling \cup {"sent"} => answer[r].by = NoOne

IInv ==
    /\ TypeOK
    /\ Untold
    /\ HandlersOwn
    /\ EffectsAreMarked
    /\ RowsAreGenuine
    /\ EffectStaysReserved
    /\ AnswersNameTheEffect

----------------------------------------------------------------------------
(* Rows                                                                    *)

\* The rows of two requests differ, and differ from an empty key.
LEMMA RowFacts ==
    ASSUME TypeOK, NEW r \in Requests
    PROVE  /\ Key(r) \in Keys /\ Body(r) \in Bodies
           /\ Pending(r) \in Reservation /\ Response(r) \in Reservation
           /\ Pending(r) # Free /\ Response(r) # Free
           /\ Pending(r).by = r /\ Response(r).by = r
           /\ Pending(r).body = Body(r) /\ Response(r).body = Body(r)
           /\ ~Pending(r).final /\ Response(r).final
<1>1. Key(r) \in Keys /\ Body(r) \in Bodies
  BY DEF TypeOK, Key, Body
<1>2. Pending(r) \in Reservation /\ Response(r) \in Reservation
  BY <1>1 DEF Pending, Response, Reservation
<1>. QED  BY <1>1, <1>2, ConstantsAssumption DEF Pending, Response

\* Two owners of one key are one request.
LEMMA OwnerUnique ==
    ASSUME TypeOK, NEW r \in Requests, NEW s \in Requests,
           Owns(r), Owns(s), Key(r) = Key(s)
    PROVE  r = s
BY RowFacts DEF Owns

\* Two requests with the same key and body carry the same call.
LEMMA SameCall ==
    ASSUME TypeOK, NEW r \in Requests, NEW s \in Requests,
           Key(r) = Key(s), Body(r) = Body(s)
    PROVE  call[r] = call[s]
BY DEF TypeOK, Key, Body

\* What a request carries never changes.
LEMMA CallFixed ==
    ASSUME call' = call, NEW r
    PROVE  /\ Key(r)' = Key(r) /\ Body(r)' = Body(r)
           /\ Pending(r)' = Pending(r) /\ Response(r)' = Response(r)
BY DEF Key, Body, Pending, Response

\* Init establishes the inductive invariant.
LEMMA InitIInv == Init => IInv
<1> SUFFICES ASSUME Init PROVE IInv
  OBVIOUS
<1> USE DEF Init
<1>1. TypeOK
  BY DEF TypeOK, Stages, Answer, Kinds
<1>2. HandlersOwn /\ EffectsAreMarked /\ RowsAreGenuine
  BY DEF HandlersOwn, Handling, EffectsAreMarked, RowsAreGenuine
<1>3. EffectStaysReserved /\ AnswersNameTheEffect
  BY DEF EffectStaysReserved, AnswersNameTheEffect
<1>4. Untold
  BY DEF Untold
<1>. QED  BY <1>1, <1>2, <1>3, <1>4 DEF IInv

\* Every step of a request keeps the types.
LEMMA TypeStep ==
    ASSUME TypeOK, NEW r \in Requests, Serve(r) \/ Fail(r)
    PROVE  TypeOK'
<1>. USE RowFacts DEF TypeOK, Stages, Flags, Kinds, Answer, Goto, Say, Flag, Insert, Finalize
<1>1. CASE ClaimAcquire(r)  BY <1>1 DEF ClaimAcquire
<1>2. CASE ClaimConflict(r)  BY <1>2 DEF ClaimConflict
<1>3. CASE ClaimReplay(r)  BY <1>3 DEF ClaimReplay, Reservation
<1>4. CASE ClaimTimeout(r)  BY <1>4 DEF ClaimTimeout
<1>5. CASE Refuse(r)  BY <1>5 DEF Refuse
<1>6. CASE Mutate(r)  BY <1>6 DEF Mutate
<1>7. CASE MarkStarted(r)  BY <1>7 DEF MarkStarted
<1>8. CASE ReadbackFails(r)  BY <1>8 DEF ReadbackFails
<1>9. CASE Record(r)  BY <1>9 DEF Record
<1>10. CASE Release(r)  BY <1>10 DEF Release
<1>11. CASE ClaimRaises(r)  BY <1>11 DEF ClaimRaises
<1>12. CASE MutationRaises(r)  BY <1>12 DEF MutationRaises, Raised
<1>13. CASE RecordRaises(r)  BY <1>13 DEF RecordRaises, Raised
<1>14. CASE ReleaseFails(r)  BY <1>14 DEF ReleaseFails
<1>15. CASE Crash(r)  BY <1>15 DEF Crash
<1>. QED
  BY <1>1, <1>2, <1>3, <1>4, <1>5, <1>6, <1>7, <1>8, <1>9, <1>10, <1>11, <1>12,
     <1>13, <1>14, <1>15 DEF Serve, Fail

----------------------------------------------------------------------------
(* The inductive step                                                      *)

\* Every step of a request keeps the inductive invariant.
LEMMA StepIInv ==
    ASSUME IInv, NEW r \in Requests, Serve(r) \/ Fail(r)
    PROVE  IInv'
<1>1. TypeOK /\ TypeOK'
  BY TypeStep DEF IInv
<1>. USE <1>1, RowFacts DEF IInv, TypeOK, Goto, Say, Flag, Insert, Finalize, Raised
<1>2. CASE ClaimAcquire(r)
  <2>1. call' = call
    BY <1>2 DEF ClaimAcquire
  <2>2. HandlersOwn'
    BY <1>2, <2>1, CallFixed DEF ClaimAcquire, HandlersOwn, Handling, Owns
  <2>3. EffectsAreMarked'
    BY <1>2, <2>1, CallFixed DEF ClaimAcquire, EffectsAreMarked
  <2>4. RowsAreGenuine'
    BY <1>2, <2>1, CallFixed DEF ClaimAcquire, RowsAreGenuine, Owns
  <2>5. EffectStaysReserved'
    BY <1>2, <2>1, CallFixed DEF ClaimAcquire, EffectStaysReserved, HandlersOwn, Handling, EffectsAreMarked, Owns
  <2>6. AnswersNameTheEffect'
    BY <1>2, <2>1, CallFixed DEF ClaimAcquire, AnswersNameTheEffect, RowsAreGenuine, EffectsAreMarked, Key, Body
  <2>7. Untold'
    BY <1>2 DEF ClaimAcquire, Untold, Handling
  <2>. QED  BY <2>2, <2>3, <2>4, <2>5, <2>6, <2>7
<1>3. CASE ClaimConflict(r)
  <2>1. call' = call
    BY <1>3 DEF ClaimConflict
  <2>2. HandlersOwn'
    BY <1>3, <2>1, CallFixed DEF ClaimConflict, HandlersOwn, Handling, Owns
  <2>3. EffectsAreMarked'
    BY <1>3, <2>1, CallFixed DEF ClaimConflict, EffectsAreMarked
  <2>4. RowsAreGenuine'
    BY <1>3, <2>1, CallFixed DEF ClaimConflict, RowsAreGenuine, Owns
  <2>5. EffectStaysReserved'
    BY <1>3, <2>1, CallFixed DEF ClaimConflict, EffectStaysReserved, HandlersOwn, Handling, EffectsAreMarked, Owns
  <2>6. AnswersNameTheEffect'
    BY <1>3, <2>1, CallFixed DEF ClaimConflict, AnswersNameTheEffect, RowsAreGenuine, EffectsAreMarked, Key, Body
  <2>7. Untold'
    BY <1>3 DEF ClaimConflict, Untold, Handling
  <2>. QED  BY <2>2, <2>3, <2>4, <2>5, <2>6, <2>7
<1>4. CASE ClaimReplay(r)
  <2>1. call' = call
    BY <1>4 DEF ClaimReplay
  <2>2. HandlersOwn'
    BY <1>4, <2>1, CallFixed DEF ClaimReplay, HandlersOwn, Handling, Owns
  <2>3. EffectsAreMarked'
    BY <1>4, <2>1, CallFixed DEF ClaimReplay, EffectsAreMarked
  <2>4. RowsAreGenuine'
    BY <1>4, <2>1, CallFixed DEF ClaimReplay, RowsAreGenuine, Owns
  <2>5. EffectStaysReserved'
    BY <1>4, <2>1, CallFixed DEF ClaimReplay, EffectStaysReserved, HandlersOwn, Handling, EffectsAreMarked, Owns
  <2>6. AnswersNameTheEffect'
    <3>1. PICK s \in Requests : Key(s) = Key(r) /\ table[Key(r)] = Response(s) /\ s \in applied
      BY <1>4 DEF ClaimReplay, RowsAreGenuine
    <3>2. call[s] = call[r]
      BY <1>4, <3>1, SameCall DEF ClaimReplay
    <3>3. answer' = [answer EXCEPT ![r] = [kind |-> "replay", by |-> s]]
      BY <1>4, <3>1 DEF ClaimReplay
    <3>. QED  BY <1>4, <2>1, <3>1, <3>2, <3>3 DEF ClaimReplay, AnswersNameTheEffect
  <2>7. Untold'
    BY <1>4 DEF ClaimReplay, Untold, Handling
  <2>. QED  BY <2>2, <2>3, <2>4, <2>5, <2>6, <2>7
<1>5. CASE ClaimTimeout(r)
  <2>1. call' = call
    BY <1>5 DEF ClaimTimeout
  <2>2. HandlersOwn'
    BY <1>5, <2>1, CallFixed DEF ClaimTimeout, HandlersOwn, Handling, Owns
  <2>3. EffectsAreMarked'
    BY <1>5, <2>1, CallFixed DEF ClaimTimeout, EffectsAreMarked
  <2>4. RowsAreGenuine'
    BY <1>5, <2>1, CallFixed DEF ClaimTimeout, RowsAreGenuine, Owns
  <2>5. EffectStaysReserved'
    BY <1>5, <2>1, CallFixed DEF ClaimTimeout, EffectStaysReserved, HandlersOwn, Handling, EffectsAreMarked, Owns
  <2>6. AnswersNameTheEffect'
    BY <1>5, <2>1, CallFixed DEF ClaimTimeout, AnswersNameTheEffect, RowsAreGenuine, EffectsAreMarked, Key, Body
  <2>7. Untold'
    BY <1>5 DEF ClaimTimeout, Untold, Handling
  <2>. QED  BY <2>2, <2>3, <2>4, <2>5, <2>6, <2>7
<1>6. CASE Refuse(r)
  <2>1. call' = call
    BY <1>6 DEF Refuse
  <2>2. HandlersOwn'
    BY <1>6, <2>1, CallFixed DEF Refuse, HandlersOwn, Handling, Owns
  <2>3. EffectsAreMarked'
    BY <1>6, <2>1, CallFixed DEF Refuse, EffectsAreMarked
  <2>4. RowsAreGenuine'
    BY <1>6, <2>1, CallFixed DEF Refuse, RowsAreGenuine, Owns
  <2>5. EffectStaysReserved'
    BY <1>6, <2>1, CallFixed DEF Refuse, EffectStaysReserved, HandlersOwn, Handling, EffectsAreMarked, Owns
  <2>6. AnswersNameTheEffect'
    BY <1>6, <2>1, CallFixed DEF Refuse, AnswersNameTheEffect, RowsAreGenuine, EffectsAreMarked, Key, Body
  <2>7. Untold'
    BY <1>6 DEF Refuse, Untold, Handling
  <2>. QED  BY <2>2, <2>3, <2>4, <2>5, <2>6, <2>7
<1>7. CASE Mutate(r)
  <2>1. call' = call
    BY <1>7 DEF Mutate
  <2>2. HandlersOwn'
    BY <1>7, <2>1, CallFixed DEF Mutate, HandlersOwn, Handling, Owns
  <2>3. EffectsAreMarked'
    BY <1>7, <2>1, CallFixed DEF Mutate, EffectsAreMarked
  <2>4. RowsAreGenuine'
    BY <1>7, <2>1, CallFixed DEF Mutate, RowsAreGenuine, Owns
  <2>5. EffectStaysReserved'
    BY <1>7, <2>1, CallFixed DEF Mutate, EffectStaysReserved, HandlersOwn, Handling, EffectsAreMarked, Owns
  <2>6. AnswersNameTheEffect'
    BY <1>7, <2>1, CallFixed DEF Mutate, AnswersNameTheEffect, RowsAreGenuine, EffectsAreMarked, Key, Body
  <2>7. Untold'
    BY <1>7 DEF Mutate, Untold, Handling
  <2>. QED  BY <2>2, <2>3, <2>4, <2>5, <2>6, <2>7
<1>8. CASE MarkStarted(r)
  <2>1. call' = call
    BY <1>8 DEF MarkStarted
  <2>2. HandlersOwn'
    BY <1>8, <2>1, CallFixed DEF MarkStarted, HandlersOwn, Handling, Owns
  <2>3. EffectsAreMarked'
    BY <1>8, <2>1, CallFixed DEF MarkStarted, EffectsAreMarked
  <2>4. RowsAreGenuine'
    BY <1>8, <2>1, CallFixed DEF MarkStarted, RowsAreGenuine, Owns
  <2>5. EffectStaysReserved'
    BY <1>8, <2>1, CallFixed DEF MarkStarted, EffectStaysReserved, HandlersOwn, Handling, EffectsAreMarked, Owns
  <2>6. AnswersNameTheEffect'
    BY <1>8, <2>1, CallFixed DEF MarkStarted, AnswersNameTheEffect, RowsAreGenuine, EffectsAreMarked, Key, Body
  <2>7. Untold'
    BY <1>8 DEF MarkStarted, Untold, Handling
  <2>. QED  BY <2>2, <2>3, <2>4, <2>5, <2>6, <2>7
<1>9. CASE ReadbackFails(r)
  <2>1. call' = call
    BY <1>9 DEF ReadbackFails
  <2>2. HandlersOwn'
    BY <1>9, <2>1, CallFixed DEF ReadbackFails, HandlersOwn, Handling, Owns
  <2>3. EffectsAreMarked'
    BY <1>9, <2>1, CallFixed DEF ReadbackFails, EffectsAreMarked
  <2>4. RowsAreGenuine'
    BY <1>9, <2>1, CallFixed DEF ReadbackFails, RowsAreGenuine, Owns
  <2>5. EffectStaysReserved'
    BY <1>9, <2>1, CallFixed DEF ReadbackFails, EffectStaysReserved, HandlersOwn, Handling, EffectsAreMarked, Owns
  <2>6. AnswersNameTheEffect'
    BY <1>9, <2>1, CallFixed DEF ReadbackFails, AnswersNameTheEffect, RowsAreGenuine, EffectsAreMarked, Key, Body
  <2>7. Untold'
    BY <1>9 DEF ReadbackFails, Untold, Handling
  <2>. QED  BY <2>2, <2>3, <2>4, <2>5, <2>6, <2>7
<1>10. CASE Record(r)
  <2>1. call' = call
    BY <1>10 DEF Record
  <2>2. HandlersOwn'
    <3> SUFFICES ASSUME NEW s \in Requests, stage'[s] \in Handling PROVE Owns(s)'
      BY DEF HandlersOwn
    <3>1. s # r /\ Owns(s) /\ Owns(r)
      BY <1>10 DEF Record, HandlersOwn, Handling
    <3>2. Key(s) # Key(r)
      BY <3>1, OwnerUnique
    <3>. QED  BY <1>10, <2>1, <3>1, <3>2, CallFixed DEF Record, Owns
  <2>3. EffectsAreMarked'
    BY <1>10, <2>1, CallFixed DEF Record, EffectsAreMarked
  <2>4. RowsAreGenuine'
    <3>1. r \in applied /\ table' = [table EXCEPT ![Key(r)] = Response(r)]
      BY <1>10 DEF Record, EffectsAreMarked
    <3>2. applied' = applied
      BY <1>10 DEF Record
    <3>. QED  BY <2>1, <3>1, <3>2, CallFixed DEF RowsAreGenuine
  <2>5. EffectStaysReserved'
    BY <1>10, <2>1, CallFixed DEF Record, EffectStaysReserved, HandlersOwn, Handling, EffectsAreMarked, Owns
  <2>6. AnswersNameTheEffect'
    BY <1>10, <2>1, CallFixed DEF Record, AnswersNameTheEffect, RowsAreGenuine, EffectsAreMarked, Key, Body
  <2>7. Untold'
    BY <1>10 DEF Record, Untold, Handling
  <2>. QED  BY <2>2, <2>3, <2>4, <2>5, <2>6, <2>7
<1>11. CASE Release(r)
  <2>1. call' = call
    BY <1>11 DEF Release
  <2>2. HandlersOwn'
    BY <1>11, <2>1, CallFixed DEF Release, HandlersOwn, Handling, Owns
  <2>3. EffectsAreMarked'
    BY <1>11, <2>1, CallFixed DEF Release, EffectsAreMarked
  <2>4. RowsAreGenuine'
    BY <1>11, <2>1, CallFixed DEF Release, RowsAreGenuine, Owns
  <2>5. EffectStaysReserved'
    BY <1>11, <2>1, CallFixed DEF Release, EffectStaysReserved, HandlersOwn, Handling, EffectsAreMarked, Owns
  <2>6. AnswersNameTheEffect'
    BY <1>11, <2>1, CallFixed DEF Release, AnswersNameTheEffect, RowsAreGenuine, EffectsAreMarked, Key, Body
  <2>7. Untold'
    BY <1>11 DEF Release, Untold, Handling
  <2>. QED  BY <2>2, <2>3, <2>4, <2>5, <2>6, <2>7
<1>12. CASE ClaimRaises(r)
  <2>1. call' = call
    BY <1>12 DEF ClaimRaises
  <2>2. HandlersOwn'
    BY <1>12, <2>1, CallFixed DEF ClaimRaises, HandlersOwn, Handling, Owns
  <2>3. EffectsAreMarked'
    BY <1>12, <2>1, CallFixed DEF ClaimRaises, EffectsAreMarked
  <2>4. RowsAreGenuine'
    BY <1>12, <2>1, CallFixed DEF ClaimRaises, RowsAreGenuine, Owns
  <2>5. EffectStaysReserved'
    BY <1>12, <2>1, CallFixed DEF ClaimRaises, EffectStaysReserved, HandlersOwn, Handling, EffectsAreMarked, Owns
  <2>6. AnswersNameTheEffect'
    BY <1>12, <2>1, CallFixed DEF ClaimRaises, AnswersNameTheEffect, RowsAreGenuine, EffectsAreMarked, Key, Body
  <2>7. Untold'
    BY <1>12 DEF ClaimRaises, Untold, Handling
  <2>. QED  BY <2>2, <2>3, <2>4, <2>5, <2>6, <2>7
<1>13. CASE MutationRaises(r)
  <2>1. call' = call
    BY <1>13 DEF MutationRaises
  <2>2. HandlersOwn'
    BY <1>13, <2>1, CallFixed DEF MutationRaises, HandlersOwn, Handling, Owns
  <2>3. EffectsAreMarked'
    BY <1>13, <2>1, CallFixed DEF MutationRaises, EffectsAreMarked
  <2>4. RowsAreGenuine'
    BY <1>13, <2>1, CallFixed DEF MutationRaises, RowsAreGenuine, Owns
  <2>5. EffectStaysReserved'
    BY <1>13, <2>1, CallFixed DEF MutationRaises, EffectStaysReserved, HandlersOwn, Handling, EffectsAreMarked, Owns
  <2>6. AnswersNameTheEffect'
    BY <1>13, <2>1, CallFixed DEF MutationRaises, AnswersNameTheEffect, RowsAreGenuine, EffectsAreMarked, Key, Body
  <2>7. Untold'
    BY <1>13 DEF MutationRaises, Untold, Handling
  <2>. QED  BY <2>2, <2>3, <2>4, <2>5, <2>6, <2>7
<1>14. CASE RecordRaises(r)
  <2>1. call' = call
    BY <1>14 DEF RecordRaises
  <2>2. HandlersOwn'
    BY <1>14, <2>1, CallFixed DEF RecordRaises, HandlersOwn, Handling, Owns
  <2>3. EffectsAreMarked'
    BY <1>14, <2>1, CallFixed DEF RecordRaises, EffectsAreMarked
  <2>4. RowsAreGenuine'
    <3>1. r \in applied /\ table' \in {table, [table EXCEPT ![Key(r)] = Response(r)]}
      BY <1>14 DEF RecordRaises, EffectsAreMarked
    <3>2. applied' = applied
      BY <1>14 DEF RecordRaises
    <3>. QED  BY <2>1, <3>1, <3>2, CallFixed DEF RowsAreGenuine
  <2>5. EffectStaysReserved'
    BY <1>14, <2>1, CallFixed DEF RecordRaises, EffectStaysReserved, HandlersOwn, Handling, EffectsAreMarked, Owns
  <2>6. AnswersNameTheEffect'
    BY <1>14, <2>1, CallFixed DEF RecordRaises, AnswersNameTheEffect, RowsAreGenuine, EffectsAreMarked, Key, Body
  <2>7. Untold'
    BY <1>14 DEF RecordRaises, Untold, Handling
  <2>. QED  BY <2>2, <2>3, <2>4, <2>5, <2>6, <2>7
<1>15. CASE ReleaseFails(r)
  <2>1. call' = call
    BY <1>15 DEF ReleaseFails
  <2>2. HandlersOwn'
    BY <1>15, <2>1, CallFixed DEF ReleaseFails, HandlersOwn, Handling, Owns
  <2>3. EffectsAreMarked'
    BY <1>15, <2>1, CallFixed DEF ReleaseFails, EffectsAreMarked
  <2>4. RowsAreGenuine'
    BY <1>15, <2>1, CallFixed DEF ReleaseFails, RowsAreGenuine, Owns
  <2>5. EffectStaysReserved'
    BY <1>15, <2>1, CallFixed DEF ReleaseFails, EffectStaysReserved, HandlersOwn, Handling, EffectsAreMarked, Owns
  <2>6. AnswersNameTheEffect'
    BY <1>15, <2>1, CallFixed DEF ReleaseFails, AnswersNameTheEffect, RowsAreGenuine, EffectsAreMarked, Key, Body
  <2>7. Untold'
    BY <1>15 DEF ReleaseFails, Untold, Handling
  <2>. QED  BY <2>2, <2>3, <2>4, <2>5, <2>6, <2>7
<1>16. CASE Crash(r)
  <2>1. call' = call
    BY <1>16 DEF Crash
  <2>2. HandlersOwn'
    BY <1>16, <2>1, CallFixed DEF Crash, HandlersOwn, Handling, Owns
  <2>3. EffectsAreMarked'
    BY <1>16, <2>1, CallFixed DEF Crash, EffectsAreMarked
  <2>4. RowsAreGenuine'
    BY <1>16, <2>1, CallFixed DEF Crash, RowsAreGenuine, Owns
  <2>5. EffectStaysReserved'
    BY <1>16, <2>1, CallFixed DEF Crash, EffectStaysReserved, HandlersOwn, Handling, EffectsAreMarked, Owns
  <2>6. AnswersNameTheEffect'
    BY <1>16, <2>1, CallFixed DEF Crash, AnswersNameTheEffect, RowsAreGenuine, EffectsAreMarked, Key, Body
  <2>7. Untold'
    BY <1>16 DEF Crash, Untold, Handling
  <2>. QED  BY <2>2, <2>3, <2>4, <2>5, <2>6, <2>7
<1>. QED
  BY <1>2, <1>3, <1>4, <1>5, <1>6, <1>7, <1>8, <1>9, <1>10, <1>11, <1>12, <1>13, <1>14, <1>15, <1>16 DEF Serve, Fail

\* The invariant holds of every reachable state.
THEOREM Inductive == Spec => []IInv
<1>1. IInv /\ [Next]_vars => IInv'
  <2> SUFFICES ASSUME IInv, [Next]_vars PROVE IInv'
    OBVIOUS
  <2>1. CASE Next
    BY <2>1, StepIInv DEF Next
  <2>2. CASE UNCHANGED vars
    BY <2>2 DEF vars, IInv, TypeOK, Untold, HandlersOwn, EffectsAreMarked,
       RowsAreGenuine, EffectStaysReserved, AnswersNameTheEffect, Owns, Pending,
       Response, Key, Body
  <2>. QED  BY <2>1, <2>2
<1>. QED  BY InitIInv, <1>1, PTL DEF Spec

----------------------------------------------------------------------------
(* What the store and application() promise                                *)

\* Every variable keeps its type, for any number of requests, keys and bodies.
THEOREM TypeCorrect == Spec => []TypeOK
<1>1. IInv => TypeOK
  BY DEF IInv
<1>. QED  BY <1>1, Inductive, PTL

\* A key never has two effects: claim_idempotency admits one request at a
\* time, and application() releases only claims whose mutation did not happen.
THEOREM EffectOnce == Spec => []AtMostOneEffect
<1>1. IInv => AtMostOneEffect
  BY RowFacts DEF IInv, AtMostOneEffect, EffectStaysReserved, TypeOK
<1>. QED  BY <1>1, Inductive, PTL

\* The key of a committed mutation stays reserved by the request that made it.
THEOREM EffectReserved == Spec => []EffectStaysReserved
<1>1. IInv => EffectStaysReserved
  BY DEF IInv
<1>. QED  BY <1>1, Inductive, PTL

\* A stored response is told only to exact copies of the request it answers.
THEOREM AnswersGenuine == Spec => []AnswersNameTheEffect
<1>1. IInv => AnswersNameTheEffect
  BY DEF IInv
<1>. QED  BY <1>1, Inductive, PTL

\* Two workers are never in the handlers of one key at once.
THEOREM Exclusion == Spec => []ExclusiveHandler
<1>1. IInv => ExclusiveHandler
  BY OwnerUnique DEF IInv, ExclusiveHandler, HandlersOwn, Handling
<1>. QED  BY <1>1, Inductive, PTL

\* What a step may do to the rows: insert a claim under a free key, store the
\* response of a mutation that happened, or drop the claim of one that did not.
RowStep(r) ==
    \/ UNCHANGED table
    \/ table[Key(r)] = Free /\ Insert(r)
    \/ Owns(r) /\ Finalize(r) /\ r \in applied /\ applied' = applied
    \/ /\ Owns(r) /\ r \notin applied /\ applied' = applied
       /\ table' = [table EXCEPT ![Key(r)] = Free]

\* Every step does one of the four.
LEMMA RowSteps ==
    ASSUME IInv, NEW r \in Requests, Serve(r) \/ Fail(r)
    PROVE  RowStep(r)
<1>. USE DEF IInv, EffectsAreMarked, RowStep, Raised
<1>1. CASE ClaimAcquire(r)  BY <1>1 DEF ClaimAcquire
<1>2. CASE ClaimConflict(r)  BY <1>2 DEF ClaimConflict
<1>3. CASE ClaimReplay(r)  BY <1>3 DEF ClaimReplay
<1>4. CASE ClaimTimeout(r)  BY <1>4 DEF ClaimTimeout
<1>5. CASE Refuse(r)  BY <1>5 DEF Refuse
<1>6. CASE Mutate(r)  BY <1>6 DEF Mutate
<1>7. CASE MarkStarted(r)  BY <1>7 DEF MarkStarted
<1>8. CASE ReadbackFails(r)  BY <1>8 DEF ReadbackFails
<1>9. CASE Record(r)  BY <1>9 DEF Record
<1>10. CASE Release(r)  BY <1>10 DEF Release
<1>11. CASE ClaimRaises(r)  BY <1>11 DEF ClaimRaises
<1>12. CASE MutationRaises(r)  BY <1>12 DEF MutationRaises
<1>13. CASE RecordRaises(r)  BY <1>13 DEF RecordRaises
<1>14. CASE ReleaseFails(r)  BY <1>14 DEF ReleaseFails
<1>15. CASE Crash(r)  BY <1>15 DEF Crash
<1>. QED
  BY <1>1, <1>2, <1>3, <1>4, <1>5, <1>6, <1>7, <1>8, <1>9, <1>10, <1>11, <1>12,
     <1>13, <1>14, <1>15 DEF Serve, Fail

\* A stored response is final, and a claim is dropped only without effect.
THEOREM FinalRows == Spec => RowsAreFinal
<1>1. ASSUME IInv, Next, NEW k \in Keys, table[k] # Free, table'[k] # table[k]
      PROVE  \E r \in Requests :
                 /\ table[k] = Pending(r)
                 /\ table'[k] = Response(r) \/ (table'[k] = Free /\ r \notin applied)
  <2>1. PICK r \in Requests : Serve(r) \/ Fail(r)
    BY <1>1 DEF Next
  <2>2. RowStep(r)
    BY <1>1, <2>1, RowSteps
  <2>3. Key(r) \in Keys
    BY <1>1, RowFacts DEF IInv
  <2>4. k = Key(r) /\ Owns(r)
    BY <1>1, <2>2, <2>3 DEF RowStep, Insert, Finalize, IInv, TypeOK
  <2>. QED  BY <1>1, <2>2, <2>3, <2>4
            DEF RowStep, Insert, Finalize, Owns, IInv, TypeOK
<1>2. IInv /\ [Next]_vars =>
        [\A k \in Keys :
            /\ table[k] # Free
            /\ table'[k] # table[k]
            => \E r \in Requests :
                  /\ table[k] = Pending(r)
                  /\ table'[k] = Response(r) \/ (table'[k] = Free /\ r \notin applied)]_vars
  BY <1>1 DEF vars
<1>. QED  BY <1>2, Inductive, PTL DEF Spec, RowsAreFinal

----------------------------------------------------------------------------
(* The protocol implements MutationContract                                *)

\* The state functions the refinement mapping substitutes.
effectOf == [k \in Keys |-> EffectOf(k)]
toldOf == [r \in Requests |-> answer[r].by]

\* A claim that comes or goes stores no response.
LEMMA ClaimsStoreNothing ==
    ASSUME TypeOK, NEW r \in Requests,
           \/ UNCHANGED table
           \/ table[Key(r)] = Free /\ Insert(r)
           \/ Owns(r) /\ table' = [table EXCEPT ![Key(r)] = Free]
    PROVE  StoredKeys' = StoredKeys
<1>1. Key(r) \in Keys /\ table \in [Keys -> Reservation \cup {Free}]
  BY RowFacts DEF TypeOK
<1>. QED  BY <1>1, RowFacts DEF StoredKeys, Insert, Owns

\* Finalizing a claim stores the response of its key.
LEMMA FinalizeStores ==
    ASSUME TypeOK, NEW r \in Requests, Owns(r), Finalize(r)
    PROVE  Key(r) \notin StoredKeys /\ StoredKeys' = StoredKeys \cup {Key(r)}
<1>1. Key(r) \in Keys /\ table \in [Keys -> Reservation \cup {Free}]
  BY RowFacts DEF TypeOK
<1>. QED  BY <1>1, RowFacts DEF StoredKeys, Finalize, Owns

\* An owner without effect is at a key without effect; with one, it is its only.
LEMMA MappedEffect ==
    ASSUME IInv, NEW r \in Requests, Owns(r)
    PROVE  EffectOf(Key(r)) = IF r \in applied THEN {r} ELSE {}
<1>1. ASSUME NEW s \in applied, Key(s) = Key(r)
      PROVE  s = r
  BY <1>1, RowFacts DEF IInv, EffectStaysReserved, Owns, TypeOK
<1>. QED  BY <1>1 DEF EffectOf

\* A step that commits the mutation of an owner takes effect in the contract.
LEMMA CommitTakesEffect ==
    ASSUME IInv, NEW r \in Requests, Owns(r), r \notin applied,
           applied' = applied \cup {r}, UNCHANGED <<call, table>>,
           toldOf' = toldOf
    PROVE  C!TakeEffect(r)
<1>1. EffectOf(Key(r)) = {}
  BY MappedEffect
<1>2. Key(r) \in Keys /\ r \in Requests
  BY RowFacts DEF IInv
<1>3. effectOf' = [effectOf EXCEPT ![Key(r)] = {r}]
  BY <1>1, <1>2 DEF effectOf, EffectOf, Key
<1>4. StoredKeys' = StoredKeys
  BY DEF StoredKeys
<1>. QED  BY <1>1, <1>2, <1>3, <1>4 DEF C!TakeEffect, effectOf, toldOf, Key

\* A step that changes no effect, no stored response and no answer stutters.
LEMMA QuietStep ==
    ASSUME UNCHANGED <<call, applied>>, StoredKeys' = StoredKeys, toldOf' = toldOf
    PROVE  UNCHANGED C!cvars
<1>1. effectOf' = effectOf
  BY DEF effectOf, EffectOf, Key
<1>. QED  BY <1>1 DEF C!cvars, effectOf, toldOf

\* A step that stores the response of its effect, heard or not.
LEMMA StoreStep ==
    ASSUME IInv, NEW r \in Requests, Owns(r), Finalize(r), r \in applied,
           UNCHANGED <<call, applied>>,
           toldOf' \in {toldOf, [toldOf EXCEPT ![r] = r]}
    PROVE  C!Store(r)
<1>1. effectOf' = effectOf /\ effectOf[Key(r)] = {r}
  BY MappedEffect, RowFacts DEF effectOf, EffectOf, Key, IInv
<1>2. Key(r) \notin StoredKeys /\ StoredKeys' = StoredKeys \cup {Key(r)}
  BY FinalizeStores DEF IInv
<1>. QED  BY <1>1, <1>2 DEF C!Store, effectOf, toldOf, Key

\* Every step of a request is one of the contract, or a stutter.
LEMMA MappedStep ==
    ASSUME IInv, NEW r \in Requests, Serve(r) \/ Fail(r)
    PROVE  C!ContractNext \/ UNCHANGED C!cvars
<1>. USE DEF Say
<1>1. answer \in [Requests -> Answer] /\ TypeOK
  BY DEF IInv, TypeOK
<1>2. ASSUME stage[r] \in Handling \cup {"sent"}, NEW kind, Say(r, kind, NoOne)
      PROVE  toldOf' = toldOf
  BY <1>1, <1>2 DEF toldOf, Untold, IInv
<1>3. CASE ClaimAcquire(r)
  <2>1. toldOf' = toldOf /\ UNCHANGED <<call, applied>>
    BY <1>3 DEF ClaimAcquire, toldOf, Handling
  <2>2. StoredKeys' = StoredKeys
    BY <1>1, <1>3, ClaimsStoreNothing DEF ClaimAcquire
  <2>. QED  BY <2>1, <2>2, QuietStep
<1>4. CASE ClaimConflict(r)
  <2>1. toldOf' = toldOf /\ UNCHANGED <<call, applied>>
    BY <1>2, <1>4 DEF ClaimConflict, toldOf, Handling
  <2>2. StoredKeys' = StoredKeys
    BY <1>1, <1>4, ClaimsStoreNothing DEF ClaimConflict
  <2>. QED  BY <2>1, <2>2, QuietStep
<1>5. CASE ClaimTimeout(r)
  <2>1. toldOf' = toldOf /\ UNCHANGED <<call, applied>>
    BY <1>2, <1>5 DEF ClaimTimeout, toldOf, Handling
  <2>2. StoredKeys' = StoredKeys
    BY <1>1, <1>5, ClaimsStoreNothing DEF ClaimTimeout
  <2>. QED  BY <2>1, <2>2, QuietStep
<1>6. CASE ClaimRaises(r)
  <2>1. toldOf' = toldOf /\ UNCHANGED <<call, applied>>
    BY <1>2, <1>6 DEF ClaimRaises, toldOf, Handling
  <2>2. StoredKeys' = StoredKeys
    BY <1>1, <1>6, ClaimsStoreNothing DEF ClaimRaises
  <2>. QED  BY <2>1, <2>2, QuietStep
<1>7. CASE Refuse(r)
  <2>1. toldOf' = toldOf /\ UNCHANGED <<call, applied>>
    BY <1>2, <1>7 DEF Refuse, toldOf, Handling
  <2>2. StoredKeys' = StoredKeys
    BY <1>1, <1>7, ClaimsStoreNothing DEF Refuse
  <2>. QED  BY <2>1, <2>2, QuietStep
<1>8. CASE MarkStarted(r)
  <2>1. toldOf' = toldOf /\ UNCHANGED <<call, applied>>
    BY <1>8 DEF MarkStarted, toldOf, Handling
  <2>2. StoredKeys' = StoredKeys
    BY <1>1, <1>8, ClaimsStoreNothing DEF MarkStarted
  <2>. QED  BY <2>1, <2>2, QuietStep
<1>9. CASE ReadbackFails(r)
  <2>1. toldOf' = toldOf /\ UNCHANGED <<call, applied>>
    BY <1>2, <1>9 DEF ReadbackFails, toldOf, Handling
  <2>2. StoredKeys' = StoredKeys
    BY <1>1, <1>9, ClaimsStoreNothing DEF ReadbackFails
  <2>. QED  BY <2>1, <2>2, QuietStep
<1>10. CASE Release(r)
  <2>1. toldOf' = toldOf /\ UNCHANGED <<call, applied>>
    BY <1>10 DEF Release, toldOf, Handling
  <2>2. StoredKeys' = StoredKeys
    BY <1>1, <1>10, ClaimsStoreNothing DEF Release
  <2>. QED  BY <2>1, <2>2, QuietStep
<1>11. CASE ReleaseFails(r)
  <2>1. toldOf' = toldOf /\ UNCHANGED <<call, applied>>
    BY <1>11 DEF ReleaseFails, toldOf, Handling
  <2>2. StoredKeys' = StoredKeys
    BY <1>1, <1>11, ClaimsStoreNothing DEF ReleaseFails
  <2>. QED  BY <2>1, <2>2, QuietStep
<1>12. CASE ClaimReplay(r)
  <2>1. PICK s \in applied : table[Key(r)] = Response(s) /\ call[s] = call[r] /\ Key(s) = Key(r)
    BY <1>1, <1>12, RowFacts, SameCall DEF ClaimReplay, RowsAreGenuine, IInv, TypeOK
  <2>2. toldOf' = [toldOf EXCEPT ![r] = s]
    <3>1. Response(s).by = s
      BY <1>1, RowFacts DEF TypeOK
    <3>2. answer' = [answer EXCEPT ![r] = [kind |-> "replay", by |-> s]]
      BY <1>12, <2>1, <3>1 DEF ClaimReplay
    <3>. QED  BY <1>1, <3>2 DEF toldOf
  <2>3. effectOf' = effectOf /\ StoredKeys' = StoredKeys
    BY <1>12 DEF ClaimReplay, effectOf, EffectOf, StoredKeys, Key
  <2>4. Key(r) \in StoredKeys /\ s \in effectOf[Key(r)]
    BY <1>1, <1>12, <2>1, RowFacts DEF ClaimReplay, StoredKeys, effectOf, EffectOf
  <2>5. C!Tell(r)
    BY <1>12, <2>1, <2>2, <2>3, <2>4 DEF ClaimReplay, C!Tell, effectOf, toldOf, Key
  <2>. QED  BY <2>5 DEF C!ContractNext
<1>13. CASE Mutate(r)
  <2>1. C!TakeEffect(r)
    BY <1>13, CommitTakesEffect DEF Mutate, IInv, HandlersOwn, EffectsAreMarked, Handling, toldOf
  <2>. QED  BY <2>1 DEF C!ContractNext
<1>14. CASE Record(r)
  <2>1. toldOf' = [toldOf EXCEPT ![r] = r]
    BY <1>1, <1>14 DEF Record, toldOf
  <2>2. C!Store(r)
    BY <1>14, <2>1, StoreStep DEF Record, IInv, EffectsAreMarked
  <2>. QED  BY <2>2 DEF C!ContractNext
<1>15. CASE MutationRaises(r)
  <2>1. toldOf' = toldOf /\ UNCHANGED <<call, table>> /\ stage[r] = "working"
    BY <1>2, <1>15 DEF MutationRaises, Raised, Handling
  <2>2. CASE applied' = applied
    BY <2>1, <2>2, QuietStep DEF StoredKeys
  <2>3. CASE applied' = applied \cup {r}
    <3>1. C!TakeEffect(r)
      BY <2>1, <2>3, CommitTakesEffect DEF IInv, HandlersOwn, EffectsAreMarked, Handling
    <3>. QED  BY <3>1 DEF C!ContractNext
  <2>. QED  BY <1>15, <2>2, <2>3 DEF MutationRaises
<1>16. CASE RecordRaises(r)
  <2>1. toldOf' = toldOf /\ UNCHANGED <<call, applied>> /\ r \in applied
    BY <1>2, <1>16 DEF RecordRaises, Raised, Handling, IInv, EffectsAreMarked
  <2>2. CASE UNCHANGED table
    BY <2>1, <2>2, QuietStep DEF StoredKeys
  <2>3. CASE Owns(r) /\ Finalize(r)
    <3>1. C!Store(r)
      BY <2>1, <2>3, StoreStep
    <3>. QED  BY <3>1 DEF C!ContractNext
  <2>. QED  BY <1>16, <2>2, <2>3 DEF RecordRaises
<1>17. CASE Crash(r)
  <2>1. toldOf' = [toldOf EXCEPT ![r] = NoOne]
    BY <1>1, <1>17 DEF Crash, toldOf
  <2>2. effectOf' = effectOf /\ StoredKeys' = StoredKeys /\ call' = call
    BY <1>17 DEF Crash, effectOf, EffectOf, StoredKeys, Key
  <2>3. C!LoseAnswer(r)
    BY <2>1, <2>2 DEF C!LoseAnswer, effectOf, toldOf
  <2>. QED  BY <2>3 DEF C!ContractNext
<1>. QED
  BY <1>3, <1>4, <1>5, <1>6, <1>7, <1>8, <1>9, <1>10, <1>11, <1>12, <1>13, <1>14, <1>15, <1>16, <1>17
  DEF Serve, Fail

\* The protocol is an implementation of the contract of MutationContract: at
\* most one effect per key, and every told response is that of the effect of
\* an exact copy.
THEOREM Refinement == Spec => ImplementsContract
<1>1. Init => C!ContractInit
  BY DEF Init, C!ContractInit, EffectOf, StoredKeys
<1>2. IInv /\ [Next]_vars => [C!ContractNext]_(C!cvars)
  <2> SUFFICES ASSUME IInv, [Next]_vars PROVE C!ContractNext \/ UNCHANGED C!cvars
    OBVIOUS
  <2>1. CASE Next
    BY <2>1, MappedStep DEF Next
  <2>2. CASE UNCHANGED vars
    BY <2>2, QuietStep DEF vars, StoredKeys, toldOf
  <2>. QED  BY <2>1, <2>2
<1>. QED  BY <1>1, <1>2, Inductive, PTL DEF Spec, ImplementsContract, C!Contract

\* What a client may rely on at any moment: one effect for a key, by one handler at
\* a time, and answers that name the effect that happened.
THEOREM ClientsAreToldTrue == Spec => []OneEffectTrulyTold
<1>1. TypeOK /\ AtMostOneEffect /\ AnswersNameTheEffect /\ ExclusiveHandler
          => OneEffectTrulyTold
  BY DEF OneEffectTrulyTold
<1>. QED  BY <1>1, TypeCorrect, EffectOnce, AnswersGenuine, Exclusion, PTL

----------------------------------------------------------------------------
(* Part two: records                                                       *)

Call == MemoryCall \cup UaiCall \cup DocumentCall \cup LinkCall \cup ProjectCall

\* What a call has read of rows that are never removed, or replaced in its call
\* only, is so: documents, packages, the revision that the client expected.
CallIsTrue(job) ==
    /\ job.op = "document" /\ job.step = "write" => job.by \in Maybe(DOMAIN documents)
    /\ job.op = "link" => job.document \in Maybe(DOMAIN documents)
    /\ job.op = "upsert" => packages[job.package] # None
    /\ job.op = "upsert" /\ job.step = "write" => job.seen = job.expected

CallsAreTrue == \A w \in Workers : calls[w] # Idle => CallIsTrue(calls[w])

\* The link that a call has read is as it was read.
MergeIsPresent(job) ==
    job.op = "link" /\ job.step = "write" =>
        /\ job.fresh <=> job.link \notin DOMAIN links
        /\ job.link \in DOMAIN links =>
              /\ links[job.link].keywords \subseteq job.keywords
              /\ job.status = "unreviewed" => links[job.link].status = "unreviewed"

\* The one process is inside one store call, and what that has read is so.
InsideIsAlone ==
    oneProcess =>
        /\ \A w \in Workers : calls[w] # Idle => MergeIsPresent(calls[w])
        /\ \A v, w \in Workers : Inside(v) /\ Inside(w) => v = w

\* Each call begun stores one unit at most.
Busy == {w \in Workers : calls[w] # Idle}

\* Records are numbered without gaps by what was stored of them.
NumbersAreCounted ==
    /\ usage + Cardinality(Busy) <= begun
    /\ \E n \in 0..usage : DOMAIN memories = 1..n
    /\ \A p \in Packages, path \in Paths : RevisionOf(files[p][path]) <= usage

\* The calls that have passed the comparison with the quota.
PastQuota ==
    {w \in Workers :
        calls[w] # Idle /\ (\/ calls[w].step = "write"
                            \/ calls[w].step = "read" /\ calls[w].op \in {"document", "link", "project"})}

\* They fit beside what was stored, one worker each.
QuotaIsShared ==
    usage - unchecked + Cardinality(PastQuota) <= lane.limit - 1 + Cardinality(Workers)

History(p, path) == {r \in revisions : r.package = p /\ r.path = path}

\* The revisions in a history are without a gap, and the record is the last.
HistoryIsTrue(history, current) ==
    /\ {r.revision : r \in history} = 1..RevisionOf(current)
    /\ IsFiniteSet(history) /\ Cardinality(history) = RevisionOf(current)
    /\ current # None => \E r \in history : r.revision = current.revision /\ r.text = current.text

\* A package has no records before it is created, and every record its history.
PackagesAreSound ==
    \A p \in Packages :
        /\ packages[p] = None => \A path \in Paths : files[p][path] = None
        /\ packages[p] # None => packages[p] = StatusOf(p, files)
        /\ \A path \in Paths : HistoryIsTrue(History(p, path), files[p][path])

RecordsInv ==
    /\ RecordsTypeOK
    /\ CallsAreTrue
    /\ InsideIsAlone
    /\ NumbersAreCounted
    /\ QuotaIsShared
    /\ PackagesAreSound
    /\ ReviewsGovernSearch

----------------------------------------------------------------------------
(* Operators                                                               *)

\* A partial function is a function on a part of its domain.
LEMMA PartialIs ==
    ASSUME NEW D, NEW R, NEW f
    PROVE  f \in Partial(D, R) <=> DOMAIN f \subseteq D /\ f \in [DOMAIN f -> R]
BY DEF Partial

\* One more row, and the others as they were.
LEMMA WithIs ==
    ASSUME NEW f, NEW x, NEW y
    PROVE  /\ DOMAIN With(f, x, y) = DOMAIN f \cup {x}
           /\ With(f, x, y)[x] = y
           /\ \A z \in DOMAIN f : z # x => With(f, x, y)[z] = f[z]
BY DEF With

LEMMA WithPartial ==
    ASSUME NEW D, NEW R, NEW f \in Partial(D, R), NEW x \in D, NEW y \in R
    PROVE  With(f, x, y) \in Partial(D, R)
<1>1. DOMAIN f \subseteq D /\ f \in [DOMAIN f -> R]
  BY PartialIs
<1>2. With(f, x, y) \in [DOMAIN f \cup {x} -> R]
  BY <1>1 DEF With
<1>. QED  BY <1>1, <1>2 DEF Partial

\* The bounds of a behaviour.
LEMMA LaneIs ==
    ASSUME RecordsTypeOK
    PROVE  lane.calls \in Nat /\ lane.limit \in Nat
BY RecordsAssumption DEF RecordsTypeOK

\* A call is of the kind that its operation says.
LEMMA CallIs ==
    ASSUME RecordsTypeOK, NEW w \in Workers, calls[w] # Idle
    PROVE  /\ calls[w] \in Call /\ calls[w].step \in Steps
           /\ calls[w].op \in {"submit", "promote"} => calls[w] \in MemoryCall
           /\ calls[w].op \in {"package", "upsert"} => calls[w] \in UaiCall
           /\ calls[w].op = "document" => calls[w] \in DocumentCall
           /\ calls[w].op = "link" => calls[w] \in LinkCall
           /\ calls[w].op = "project" => calls[w] \in ProjectCall
<1>1. calls[w] \in Call
  BY DEF RecordsTypeOK, Call
<1>. QED  BY <1>1 DEF Call, MemoryCall, UaiCall, DocumentCall, LinkCall, ProjectCall

LEMMA IdleIsNoCall == Idle \notin Call
BY DEF Idle, Call, MemoryCall, UaiCall, DocumentCall, LinkCall, ProjectCall

\* A table of rows keeps its type when a call changes one row.
LEMMA CallsTyped ==
    ASSUME RecordsTypeOK, NEW w \in Workers, NEW job \in Call \cup {Idle},
           calls' = [calls EXCEPT ![w] = job]
    PROVE  calls' \in [Workers -> {Idle} \cup Call] /\ calls'[w] = job
           /\ \A v \in Workers \ {w} : calls'[v] = calls[v]
BY DEF RecordsTypeOK, Call

----------------------------------------------------------------------------
(* Kinds of steps                                                          *)

Stays == UNCHANGED <<setting, quota, memory, uai, knowledge, citations, projects>>

\* A call begins, ...
Begins(w) ==
    \E job \in Call :
        /\ calls[w] = Idle /\ begun < lane.calls /\ begun' = begun + 1
        /\ calls' = [calls EXCEPT ![w] = job]
        /\ job.step = IF job.op \in {"package", "upsert"} THEN "read" ELSE "quota"
        /\ CallIsTrue(job)
        /\ Stays

\* ... goes on with what it has read, ...
Proceeds(w) ==
    \E job \in Call :
        /\ calls[w] # Idle /\ May(w) /\ begun' = begun
        /\ calls' = [calls EXCEPT ![w] = job]
        /\ w \notin PastQuota => HasQuotaFor
        /\ CallIsTrue(job) /\ MergeIsPresent(job)
        /\ Stays

\* ... is refused, ...
Leaves(w) == calls[w] # Idle /\ End(w) /\ begun' = begun /\ Stays

\* ... or writes its tables; or a review is decided.
Writes(w) ==
    \/ SubmitMemory(w) \/ PackageWrite(w) \/ UpsertWrite(w)
    \/ DocumentWrite(w) \/ LinkWrite(w) \/ ProjectWrite(w)

Decides(w) ==
    \E m \in DOMAIN reviews, target \in ReviewStatuses \ {"pending"} : DecideReview(w, m, target)

\* What arrives begins.
LEMMA Arrives ==
    ASSUME RecordsInv, NEW w \in Workers, Arrive(w)
    PROVE  Begins(w)
<1>. USE DEF RecordsInv
<1>1. lane.calls \in Nat /\ 0 \in 0..lane.calls
  BY LaneIs
<1>2. ASSUME NEW job \in Call, Begin(w, job), CallIsTrue(job),
             job.step = IF job.op \in {"package", "upsert"} THEN "read" ELSE "quota"
      PROVE  Begins(w)
  BY <1>2 DEF Begin, Begins, Stays
<1>3. ASSUME NEW quarantine \in BOOLEAN, BeginSubmit(w, quarantine) \/ BeginPromote(w, quarantine)
      PROVE  Begins(w)
  <2>1. PICK op \in {"submit", "promote"} :
           Begin(w, [op |-> op, step |-> "quota", quarantine |-> quarantine])
    BY <1>3 DEF BeginSubmit, BeginPromote
  <2>2. [op |-> op, step |-> "quota", quarantine |-> quarantine] \in Call
    BY DEF Call, MemoryCall, Steps
  <2>3. CallIsTrue([op |-> op, step |-> "quota", quarantine |-> quarantine])
    BY DEF CallIsTrue
  <2>. QED  BY <1>2, <2>1, <2>2, <2>3
<1>4. ASSUME NEW p \in Packages, BeginPackage(w, p)
      PROVE  Begins(w)
  <2>1. PICK path \in Paths, text \in Texts :
           Begin(w, [op |-> "package", step |-> "read", package |-> p, path |-> path, expected |-> 0,
                     seen |-> 0, text |-> text, ready |-> FALSE])
    BY <1>4 DEF BeginPackage
  <2>. DEFINE job == [op |-> "package", step |-> "read", package |-> p, path |-> path,
                       expected |-> 0, seen |-> 0, text |-> text, ready |-> FALSE]
  <2>2. job \in Call
    BY <1>1 DEF Call, UaiCall, Steps
  <2>3. CallIsTrue(job)
    BY DEF CallIsTrue
  <2>. QED  BY <1>2, <2>1, <2>2, <2>3
<1>5. ASSUME NEW p \in Packages, NEW path \in Paths, NEW text \in Texts,
             NEW expected \in 0..lane.calls, BeginUpsert(w, p, path, text, expected)
      PROVE  Begins(w)
  <2>. DEFINE job == [op |-> "upsert", step |-> "read", package |-> p, path |-> path,
                       expected |-> expected, seen |-> 0, text |-> text, ready |-> FALSE]
  <2>1. packages[p] # None /\ Begin(w, job)
    BY <1>5 DEF BeginUpsert
  <2>2. job \in Call
    BY <1>1 DEF Call, UaiCall, Steps
  <2>3. CallIsTrue(job)
    BY <2>1 DEF CallIsTrue
  <2>. QED  BY <1>2, <2>1, <2>2, <2>3
<1>6. ASSUME NEW d \in Documents, NEW s \in Sources, NEW by \in Maybe(Documents),
             BeginDocument(w, d, s, by)
      PROVE  Begins(w)
  <2>. DEFINE job == [op |-> "document", step |-> "quota", document |-> d, source |-> s, by |-> by,
                       fresh |-> FALSE]
  <2>1. Begin(w, job)
    BY <1>6 DEF BeginDocument
  <2>2. job \in Call
    BY DEF Call, DocumentCall, Steps
  <2>3. CallIsTrue(job)
    BY DEF CallIsTrue
  <2>. QED  BY <1>2, <2>1, <2>2, <2>3
<1>7. ASSUME NEW x \in Links, NEW d \in Maybe(DOMAIN documents), NEW status \in LinkStatuses,
             NEW keywords \in SUBSET Keywords, NEW valid \in BOOLEAN,
             BeginLink(w, x, d, status, keywords, valid)
      PROVE  Begins(w)
  <2>. DEFINE job == [op |-> "link", step |-> "quota", link |-> x, document |-> d,
                       status |-> status, keywords |-> keywords, valid |-> valid, fresh |-> FALSE]
  <2>1. Begin(w, job)
    BY <1>7 DEF BeginLink
  <2>2. d \in Maybe(Documents)
    BY PartialIs DEF RecordsTypeOK, Maybe
  <2>3. job \in Call
    BY <2>2 DEF Call, LinkCall, Steps
  <2>4. CallIsTrue(job)
    BY DEF CallIsTrue
  <2>. QED  BY <1>2, <2>1, <2>3, <2>4
<1>8. ASSUME NEW p \in Projects, BeginProject(w, p)
      PROVE  Begins(w)
  <2>. DEFINE job == [op |-> "project", step |-> "quota", project |-> p, fresh |-> FALSE]
  <2>1. job \in Call
    BY DEF Call, ProjectCall, Steps
  <2>2. CallIsTrue(job)
    BY DEF CallIsTrue
  <2>. QED  BY <1>2, <1>8, <2>1, <2>2 DEF BeginProject
<1>9. \A x, d, status, keywords, valid :
         BeginLink(w, x, d, status, keywords, valid) => d \in Maybe(DOMAIN documents)
  BY DEF BeginLink
<1>. QED  BY <1>3, <1>4, <1>5, <1>6, <1>7, <1>8, <1>9 DEF Arrive

\* What the server does is of one of the other kinds.
LEMMA Serves ==
    ASSUME RecordsInv, NEW w \in Workers, Server(w)
    PROVE  Proceeds(w) \/ Leaves(w) \/ Writes(w) \/ Decides(w)
<1>. USE DEF RecordsInv
<1>1. ASSUME NEW job \in Call, calls' = [calls EXCEPT ![w] = job], calls[w] # Idle, May(w),
             begun' = begun, w \notin PastQuota => HasQuotaFor,
             CallIsTrue(job), MergeIsPresent(job), Stays
      PROVE  Proceeds(w)
  BY <1>1 DEF Proceeds
<1>2. ASSUME CheckQuota(w)
      PROVE  Proceeds(w) \/ Leaves(w)
  <2>1. /\ calls[w] # Idle /\ calls[w].step = "quota" /\ May(w) /\ Stays /\ begun' = begun
        /\ calls[w].op \in {"submit", "promote", "document", "link", "project"}
    BY <1>2 DEF CheckQuota, At, Stays
  <2>2. CASE ~HasQuotaFor
    BY <1>2, <2>1, <2>2 DEF CheckQuota, Leaves
  <2>3. CASE HasQuotaFor
    <3>. DEFINE job == [calls[w] EXCEPT !.step =
                            IF calls[w].op \in {"submit", "promote"} THEN "write" ELSE "read"]
    <3>1. calls' = [calls EXCEPT ![w] = job]
      BY <1>2, <2>3 DEF CheckQuota
    <3>2. CASE calls[w].op \in {"submit", "promote"}
      <4>1. calls[w] \in MemoryCall
        BY <2>1, <3>2, CallIs
      <4>2. job \in Call /\ job.op = calls[w].op
        BY <3>2, <4>1 DEF Call, MemoryCall, Steps
      <4>3. CallIsTrue(job) /\ MergeIsPresent(job)
        BY <3>2, <4>2 DEF CallIsTrue, MergeIsPresent
      <4>. QED  BY <1>1, <2>1, <2>3, <3>1, <4>2, <4>3
    <3>3. CASE calls[w].op = "document"
      <4>1. calls[w] \in DocumentCall
        BY <2>1, <3>3, CallIs
      <4>2. job \in Call /\ job.op = "document" /\ job.step = "read"
        BY <3>3, <4>1 DEF Call, DocumentCall, Steps
      <4>3. CallIsTrue(job) /\ MergeIsPresent(job)
        BY <4>2 DEF CallIsTrue, MergeIsPresent
      <4>. QED  BY <1>1, <2>1, <2>3, <3>1, <4>2, <4>3
    <3>4. CASE calls[w].op = "link"
      <4>1. calls[w] \in LinkCall /\ calls[w].document \in Maybe(DOMAIN documents)
        BY <2>1, <3>4, CallIs DEF CallsAreTrue, CallIsTrue
      <4>2. /\ job \in Call /\ job.op = "link" /\ job.step = "read"
            /\ job.document = calls[w].document
        BY <3>4, <4>1 DEF Call, LinkCall, Steps
      <4>3. CallIsTrue(job) /\ MergeIsPresent(job)
        BY <4>1, <4>2 DEF CallIsTrue, MergeIsPresent
      <4>. QED  BY <1>1, <2>1, <2>3, <3>1, <4>2, <4>3
    <3>5. CASE calls[w].op = "project"
      <4>1. calls[w] \in ProjectCall
        BY <2>1, <3>5, CallIs
      <4>2. job \in Call /\ job.op = "project" /\ job.step = "read"
        BY <3>5, <4>1 DEF Call, ProjectCall, Steps
      <4>3. CallIsTrue(job) /\ MergeIsPresent(job)
        BY <4>2 DEF CallIsTrue, MergeIsPresent
      <4>. QED  BY <1>1, <2>1, <2>3, <3>1, <4>2, <4>3
    <3>. QED  BY <2>1, <3>2, <3>3, <3>4, <3>5
  <2>. QED  BY <2>2, <2>3
<1>3. ASSUME PackageRead(w)
      PROVE  Proceeds(w) \/ Leaves(w)
  <2>1. /\ calls[w] # Idle /\ calls[w].op = "package" /\ May(w) /\ Stays /\ begun' = begun
        /\ calls[w] \in UaiCall
    BY <1>3, CallIs DEF PackageRead, At, Stays
  <2>2. CASE End(w)
    BY <2>1, <2>2 DEF Leaves
  <2>3. CASE HasQuotaFor /\ calls' = [calls EXCEPT ![w].step = "write"]
    <3>. DEFINE job == [calls[w] EXCEPT !.step = "write"]
    <3>1. job \in Call /\ job.op = "package"
      BY <2>1 DEF Call, UaiCall, Steps
    <3>2. CallIsTrue(job) /\ MergeIsPresent(job)
      BY <3>1 DEF CallIsTrue, MergeIsPresent
    <3>. QED  BY <1>1, <2>1, <2>3, <3>1, <3>2
  <2>. QED  BY <1>3, <2>2, <2>3 DEF PackageRead
<1>4. ASSUME UpsertRead(w)
      PROVE  Proceeds(w) \/ Leaves(w)
  <2>. DEFINE c == calls[w]
              current == files[c.package][c.path]
  <2>1. /\ c # Idle /\ c.op = "upsert" /\ May(w) /\ Stays /\ begun' = begun
        /\ c \in UaiCall /\ packages[c.package] # None
    BY <1>4, CallIs DEF UpsertRead, At, Stays, CallsAreTrue, CallIsTrue
  <2>2. CASE End(w)
    BY <2>1, <2>2 DEF Leaves
  <2>3. CASE /\ HasQuotaFor /\ c.expected = RevisionOf(current)
             /\ calls' = [calls EXCEPT ![w].step = "write", ![w].seen = RevisionOf(current),
                                       ![w].ready = Required \subseteq Present(c.package, files)]
    <3>. DEFINE job == [c EXCEPT !.step = "write", !.seen = RevisionOf(current),
                                  !.ready = Required \subseteq Present(c.package, files)]
    <3>1. calls' = [calls EXCEPT ![w] = job]
      BY <2>3 DEF RecordsTypeOK
    <3>2. RevisionOf(current) \in 0..lane.calls
      BY <2>1, <2>3 DEF UaiCall
    <3>3. /\ job \in Call /\ job.op = "upsert" /\ job.package = c.package
          /\ job.seen = job.expected
      BY <2>1, <2>3, <3>2 DEF Call, UaiCall, Steps
    <3>4. CallIsTrue(job) /\ MergeIsPresent(job)
      BY <2>1, <3>3 DEF CallIsTrue, MergeIsPresent
    <3>. QED  BY <1>1, <2>1, <2>3, <3>1, <3>3, <3>4
  <2>. QED  BY <1>4, <2>2, <2>3 DEF UpsertRead
<1>5. ASSUME DocumentRead(w)
      PROVE  Proceeds(w) \/ Leaves(w)
  <2>. DEFINE c == calls[w]
  <2>1. /\ c # Idle /\ c.op = "document" /\ c.step = "read" /\ May(w) /\ Stays /\ begun' = begun
        /\ c \in DocumentCall
    BY <1>5, CallIs DEF DocumentRead, At, Stays
  <2>2. CASE End(w)
    BY <2>1, <2>2 DEF Leaves
  <2>3. CASE /\ c.by \in Maybe(DOMAIN documents)
             /\ calls' = [calls EXCEPT ![w].step = "write", ![w].fresh = c.source \notin sources]
    <3>. DEFINE job == [c EXCEPT !.step = "write", !.fresh = c.source \notin sources]
    <3>1. calls' = [calls EXCEPT ![w] = job]
      BY <2>3 DEF RecordsTypeOK
    <3>2. job \in Call /\ job.op = "document" /\ job.by = c.by
      BY <2>1 DEF Call, DocumentCall, Steps
    <3>3. CallIsTrue(job) /\ MergeIsPresent(job)
      BY <2>3, <3>2 DEF CallIsTrue, MergeIsPresent
    <3>4. w \in PastQuota
      BY <2>1 DEF PastQuota
    <3>. QED  BY <1>1, <2>1, <3>1, <3>2, <3>3, <3>4
  <2>. QED  BY <1>5, <2>2, <2>3 DEF DocumentRead, Maybe
<1>6. ASSUME LinkRead(w)
      PROVE  Proceeds(w)
  <2>. DEFINE c == calls[w]
              job == [c EXCEPT !.step = "write", !.fresh = c.link \notin DOMAIN links,
                                !.status = Merged(c).status, !.keywords = Merged(c).keywords]
  <2>1. /\ c # Idle /\ c.op = "link" /\ c.step = "read" /\ May(w) /\ Stays /\ begun' = begun
        /\ c \in LinkCall /\ c.document \in Maybe(DOMAIN documents)
        /\ w \in PastQuota
    BY <1>6, CallIs DEF LinkRead, At, Stays, CallsAreTrue, CallIsTrue, PastQuota
  <2>2. calls' = [calls EXCEPT ![w] = job]
    BY <1>6 DEF LinkRead, RecordsTypeOK
  <2>3. c.link \in DOMAIN links => links[c.link] \in Link
    BY PartialIs DEF RecordsTypeOK
  <2>4. Merged(c).status \in LinkStatuses /\ Merged(c).keywords \in SUBSET Keywords
    BY <2>1, <2>3 DEF Merged, MergeStatus, LinkCall, Link
  <2>5. /\ job \in Call /\ job.op = "link" /\ job.link = c.link /\ job.document = c.document
        /\ job.fresh = (c.link \notin DOMAIN links)
        /\ job.status = Merged(c).status /\ job.keywords = Merged(c).keywords
    BY <2>1, <2>4 DEF Call, LinkCall, Steps
  <2>6. c.link \in DOMAIN links =>
           /\ links[c.link].keywords \subseteq Merged(c).keywords
           /\ Merged(c).status = "unreviewed" => links[c.link].status = "unreviewed"
    BY DEF Merged, MergeStatus
  <2>7. CallIsTrue(job) /\ MergeIsPresent(job)
    BY <2>1, <2>5, <2>6 DEF CallIsTrue, MergeIsPresent
  <2>. QED  BY <1>1, <2>1, <2>2, <2>5, <2>7
<1>7. ASSUME ProjectRead(w)
      PROVE  Proceeds(w)
  <2>. DEFINE c == calls[w]
              job == [c EXCEPT !.step = "write", !.fresh = c.project \notin projects]
  <2>1. /\ c # Idle /\ c.op = "project" /\ c.step = "read" /\ May(w) /\ Stays /\ begun' = begun
        /\ c \in ProjectCall /\ w \in PastQuota
    BY <1>7, CallIs DEF ProjectRead, At, Stays, PastQuota
  <2>2. calls' = [calls EXCEPT ![w] = job]
    BY <1>7 DEF ProjectRead, RecordsTypeOK
  <2>3. job \in Call /\ job.op = "project"
    BY <2>1 DEF Call, ProjectCall, Steps
  <2>4. CallIsTrue(job) /\ MergeIsPresent(job)
    BY <2>3 DEF CallIsTrue, MergeIsPresent
  <2>. QED  BY <1>1, <2>1, <2>2, <2>3, <2>4
<1>. QED  BY <1>2, <1>3, <1>4, <1>5, <1>6, <1>7 DEF Server, Writes, Decides


\* Every step is of one of these kinds.
LEMMA KindsOfSteps ==
    ASSUME RecordsInv, RecordsNext
    PROVE  \E w \in Workers : Begins(w) \/ Proceeds(w) \/ Leaves(w) \/ Writes(w) \/ Decides(w)
BY Arrives, Serves DEF RecordsNext

\* What the writing steps have in common.
LEMMA WritesAre ==
    ASSUME RecordsInv, NEW w \in Workers, Writes(w)
    PROVE  /\ calls[w] # Idle /\ calls[w].step = "write" /\ May(w) /\ w \in PastQuota
           /\ End(w) /\ begun' = begun /\ UNCHANGED setting
           /\ UNCHANGED quota \/ (usage' = usage + 1 /\ unchecked' = unchecked)
<1>. QED
  BY DEF Writes, SubmitMemory, PackageWrite, UpsertWrite, DocumentWrite, LinkWrite, ProjectWrite,
     At, PastQuota, Checked, quota

\* The setting of a behaviour stays.
LEMMA SettingStep ==
    ASSUME RecordsInv, [RecordsNext]_recordsVars
    PROVE  lane' = lane /\ oneProcess' = oneProcess
<1>1. ASSUME NEW w \in Workers, Begins(w) \/ Proceeds(w) \/ Leaves(w) \/ Writes(w) \/ Decides(w)
      PROVE  UNCHANGED setting
  BY <1>1, WritesAre DEF Begins, Proceeds, Leaves, Stays, Decides, DecideReview
<1>2. UNCHANGED setting
  BY <1>1, KindsOfSteps DEF recordsVars
<1>. QED  BY <1>2 DEF setting

----------------------------------------------------------------------------
(* Counting                                                                *)

\* How many calls are at work, and how many beside the quota, when one changes.
LEMMA WorkersAreCounted ==
    ASSUME RecordsTypeOK
    PROVE  /\ IsFiniteSet(Busy) /\ Cardinality(Busy) \in Nat
           /\ IsFiniteSet(PastQuota) /\ Cardinality(PastQuota) \in Nat
           /\ Cardinality(PastQuota) <= Cardinality(Workers)
           /\ Cardinality(Workers) \in Nat /\ Cardinality(Workers) > 0
<1>1. IsFiniteSet(Workers) /\ Workers # {}
  BY RecordsAssumption
<1>2. Busy \in SUBSET Workers /\ PastQuota \in SUBSET Workers
  BY DEF Busy, PastQuota
<1>. QED  BY <1>1, <1>2, FS_Subset, FS_CardinalityType, FS_EmptySet

LEMMA BusyStep ==
    ASSUME RecordsTypeOK, NEW w \in Workers, NEW job \in Call \cup {Idle},
           calls' = [calls EXCEPT ![w] = job]
    PROVE  /\ calls[w] = Idle /\ job # Idle => Cardinality(Busy)' = Cardinality(Busy) + 1
           /\ calls[w] # Idle /\ job # Idle => Busy' = Busy
           /\ calls[w] # Idle /\ job = Idle => Cardinality(Busy)' = Cardinality(Busy) - 1
<1>1. calls'[w] = job /\ \A v \in Workers \ {w} : calls'[v] = calls[v]
  BY CallsTyped
<1>2. IsFiniteSet(Busy) /\ Cardinality(Busy) \in Nat
  BY WorkersAreCounted
<1>3. ASSUME calls[w] = Idle, job # Idle
      PROVE  Cardinality(Busy)' = Cardinality(Busy) + 1
  <2>1. Busy' = Busy \cup {w} /\ w \notin Busy
    BY <1>1, <1>3 DEF Busy
  <2>. QED  BY <1>2, <2>1, FS_AddElement
<1>4. ASSUME calls[w] # Idle, job # Idle
      PROVE  Busy' = Busy
  BY <1>1, <1>4 DEF Busy
<1>5. ASSUME calls[w] # Idle, job = Idle
      PROVE  Cardinality(Busy)' = Cardinality(Busy) - 1
  <2>1. Busy' = Busy \ {w} /\ w \in Busy
    BY <1>1, <1>5 DEF Busy
  <2>. QED  BY <1>2, <2>1, FS_RemoveElement
<1>. QED  BY <1>3, <1>4, <1>5

\* There is room for what a call at work stores.
LEMMA RoomForOne ==
    ASSUME RecordsInv, NEW w \in Workers, calls[w] # Idle
    PROVE  usage \in Nat /\ usage + 1 <= begun /\ usage + 1 <= lane.calls
<1>1. w \in Busy /\ IsFiniteSet(Busy) /\ Cardinality(Busy) \in Nat
  BY WorkersAreCounted DEF Busy, RecordsInv
<1>2. Cardinality(Busy) # 0
  BY <1>1, FS_EmptySet
<1>3. usage \in Nat /\ begun \in 0..lane.calls /\ lane.calls \in Nat
  BY LaneIs DEF RecordsInv, RecordsTypeOK
<1>. QED  BY <1>1, <1>2, <1>3 DEF RecordsInv, NumbersAreCounted

\* Numbers stay below what was stored.
LEMMA NumbersStep ==
    ASSUME RecordsInv, RecordsNext
    PROVE  NumbersAreCounted'
<1>. USE DEF RecordsInv
<1>1. PICK w \in Workers : Begins(w) \/ Proceeds(w) \/ Leaves(w) \/ Writes(w) \/ Decides(w)
  BY KindsOfSteps
<1>2. usage \in Nat /\ unchecked \in Nat /\ begun \in Nat /\ Cardinality(Busy) \in Nat
  BY LaneIs, WorkersAreCounted DEF RecordsTypeOK
<1>3. usage + Cardinality(Busy) <= begun
  BY DEF NumbersAreCounted
<1>4. /\ usage' \in {usage, usage + 1}
      /\ usage' + Cardinality(Busy)' <= begun'
  <2>1. CASE Begins(w)
    <3>1. PICK job \in Call : /\ calls[w] = Idle /\ begun' = begun + 1 /\ Stays
                               /\ calls' = [calls EXCEPT ![w] = job]
      BY <2>1 DEF Begins
    <3>2. Cardinality(Busy)' = Cardinality(Busy) + 1 /\ usage' = usage
      BY <3>1, BusyStep, IdleIsNoCall DEF Stays, quota
    <3>. QED  BY <1>2, <1>3, <3>1, <3>2
  <2>2. CASE Proceeds(w)
    <3>1. PICK job \in Call : /\ calls[w] # Idle /\ begun' = begun /\ Stays
                               /\ calls' = [calls EXCEPT ![w] = job]
      BY <2>2 DEF Proceeds
    <3>2. Cardinality(Busy)' = Cardinality(Busy) /\ usage' = usage
      BY <3>1, BusyStep, IdleIsNoCall DEF Stays, quota
    <3>. QED  BY <1>2, <1>3, <3>1, <3>2
  <2>3. CASE Leaves(w) \/ Writes(w)
    <3>1. /\ calls[w] # Idle /\ begun' = begun /\ calls' = [calls EXCEPT ![w] = Idle]
          /\ usage' \in {usage, usage + 1}
      BY <2>3, WritesAre DEF Leaves, End, Stays, quota
    <3>2. Cardinality(Busy)' = Cardinality(Busy) - 1
      BY <3>1, BusyStep
    <3>. QED  BY <1>2, <1>3, <3>1, <3>2
  <2>4. CASE Decides(w)
    <3>1. usage' = usage + 1 /\ begun' = begun + 1 /\ calls' = calls
      BY <2>4 DEF Decides, DecideReview
    <3>. QED  BY <1>2, <1>3, <3>1 DEF Busy
  <2>. QED  BY <1>1, <2>1, <2>2, <2>3, <2>4
<1>5. \E n \in 0..usage' : DOMAIN memories' = 1..n
  <2>1. PICK n \in 0..usage : DOMAIN memories = 1..n
    BY DEF NumbersAreCounted
  <2>2. CASE DOMAIN memories' = DOMAIN memories
    BY <1>2, <1>4, <2>1, <2>2
  <2>3. CASE SubmitMemory(w)
    <3>1. Cardinality(DOMAIN memories) = n
      BY <1>2, <2>1, FS_Interval
    <3>2. usage' = usage + 1 /\ DOMAIN memories' = 1..n \cup {n + 1}
      <4>1. usage' = usage + 1 /\ \E row : memories' = With(memories, n + 1, row)
        BY <2>3, <3>1 DEF SubmitMemory, Checked
      <4>2. \A row : DOMAIN With(memories, n + 1, row) = DOMAIN memories \cup {n + 1}
        BY WithIs
      <4>. QED  BY <2>1, <4>1, <4>2
    <3>3. 1..n \cup {n + 1} = 1..(n + 1)
      BY <1>2, <2>1
    <3>. QED  BY <1>2, <2>1, <3>2, <3>3
  <2>4. CASE Decides(w)
    <3>1. DOMAIN memories' = DOMAIN memories
      BY <2>4 DEF Decides, DecideReview
    <3>. QED  BY <2>2, <3>1
  <2>5. CASE Begins(w) \/ Proceeds(w) \/ Leaves(w) \/ PackageWrite(w) \/ UpsertWrite(w)
             \/ DocumentWrite(w) \/ LinkWrite(w) \/ ProjectWrite(w)
    <3>1. memories' = memories
      BY <2>5 DEF Begins, Proceeds, Leaves, Stays, PackageWrite, UpsertWrite, DocumentWrite,
         LinkWrite, ProjectWrite, memory
    <3>. QED  BY <2>2, <3>1
  <2>. QED  BY <1>1, <2>3, <2>4, <2>5 DEF Writes
<1>6. ASSUME NEW p \in Packages, NEW path \in Paths
      PROVE  RevisionOf(files'[p][path]) <= usage'
  <2>1. RevisionOf(files[p][path]) <= usage /\ RevisionOf(files[p][path]) \in Nat
    BY LaneIs DEF NumbersAreCounted, RecordsTypeOK, RevisionOf, File, Maybe
  <2>2. CASE files'[p][path] = files[p][path]
    BY <1>2, <1>4, <2>1, <2>2
  <2>3. CASE UpsertWrite(w) /\ files' # files
    <3>. DEFINE c == calls[w]
                file == [revision |-> c.seen + 1, text |-> c.text]
    <3>1. /\ RevisionOf(files[c.package][c.path]) = c.seen /\ usage' = usage + 1
          /\ files' = [files EXCEPT ![c.package][c.path] = file]
      BY <2>3 DEF UpsertWrite, Checked, uai
    <3>2. files'[p][path] = IF p = c.package /\ path = c.path THEN file ELSE files[p][path]
      BY <3>1 DEF RecordsTypeOK
    <3>3. RevisionOf(file) \in {0, c.seen + 1}
      BY DEF RevisionOf
    <3>. QED  BY <1>2, <2>1, <2>2, <3>1, <3>2, <3>3
  <2>4. CASE Begins(w) \/ Proceeds(w) \/ Leaves(w) \/ Decides(w) \/ PackageWrite(w) \/ SubmitMemory(w)
             \/ DocumentWrite(w) \/ LinkWrite(w) \/ ProjectWrite(w)
    <3>1. files' = files
      BY <2>4 DEF Begins, Proceeds, Leaves, Stays, Decides, DecideReview, PackageWrite, SubmitMemory,
         DocumentWrite, LinkWrite, ProjectWrite, uai
    <3>. QED  BY <2>2, <3>1
  <2>. QED  BY <1>1, <2>2, <2>3, <2>4 DEF Writes
<1>. QED  BY <1>4, <1>5, <1>6 DEF NumbersAreCounted

\* Calls beside the quota stay within the number of workers.
LEMMA QuotaStep ==
    ASSUME RecordsInv, RecordsNext, RecordsTypeOK'
    PROVE  QuotaIsShared'
<1>. USE DEF RecordsInv
<1>1. PICK w \in Workers : Begins(w) \/ Proceeds(w) \/ Leaves(w) \/ Writes(w) \/ Decides(w)
  BY KindsOfSteps
<1>2. /\ usage \in Nat /\ unchecked \in 0..usage /\ lane.limit \in Nat /\ lane' = lane
      /\ Cardinality(PastQuota) \in Nat /\ IsFiniteSet(PastQuota)
      /\ Cardinality(PastQuota)' \in Nat /\ Cardinality(PastQuota)' <= Cardinality(Workers)
      /\ Cardinality(Workers) \in Nat
  <2>1. IsFiniteSet(Workers) /\ PastQuota' \in SUBSET Workers
    BY RecordsAssumption DEF PastQuota
  <2>. QED  BY <2>1, LaneIs, WorkersAreCounted, SettingStep, FS_Subset, FS_CardinalityType
            DEF RecordsTypeOK
<1>3. usage - unchecked + Cardinality(PastQuota) <= lane.limit - 1 + Cardinality(Workers)
  BY DEF QuotaIsShared
<1>4. CASE PastQuota' \subseteq PastQuota /\ usage' - unchecked' = usage - unchecked
  <2>1. Cardinality(PastQuota)' <= Cardinality(PastQuota)
    BY <1>2, <1>4, FS_Subset
  <2>. QED  BY <1>2, <1>3, <1>4, <2>1 DEF QuotaIsShared
<1>5. CASE Begins(w)
  <2>1. PICK job \in Call :
           /\ job.step = IF job.op \in {"package", "upsert"} THEN "read" ELSE "quota"
           /\ calls' = [calls EXCEPT ![w] = job] /\ Stays
    BY <1>5 DEF Begins
  <2>2. PastQuota' \subseteq PastQuota
    BY <2>1, CallsTyped DEF PastQuota
  <2>. QED  BY <1>4, <2>1, <2>2 DEF Stays, quota
<1>6. CASE Proceeds(w)
  <2>1. PICK job \in Call :
           /\ calls' = [calls EXCEPT ![w] = job] /\ Stays
           /\ w \notin PastQuota => HasQuotaFor
    BY <1>6 DEF Proceeds
  <2>2. CASE w \in PastQuota
    <3>1. PastQuota' \subseteq PastQuota
      BY <2>1, <2>2, CallsTyped DEF PastQuota
    <3>. QED  BY <1>4, <2>1, <3>1 DEF Stays, quota
  <2>3. CASE w \notin PastQuota
    <3>1. usage' = usage /\ unchecked' = unchecked /\ usage + 1 <= lane.limit
      BY <2>1, <2>3 DEF Stays, quota, HasQuotaFor
    <3>. QED  BY <1>2, <3>1 DEF QuotaIsShared
  <2>. QED  BY <2>2, <2>3
<1>7. CASE Leaves(w)
  <2>1. calls' = [calls EXCEPT ![w] = Idle] /\ Stays
    BY <1>7 DEF Leaves, End
  <2>2. PastQuota' \subseteq PastQuota
    BY <2>1, CallsTyped DEF PastQuota
  <2>. QED  BY <1>4, <2>1, <2>2 DEF Stays, quota
<1>8. CASE Writes(w)
  <2>1. /\ calls' = [calls EXCEPT ![w] = Idle] /\ w \in PastQuota
        /\ usage' - unchecked' \in {usage - unchecked, usage - unchecked + 1}
    BY <1>2, <1>8, WritesAre DEF End, quota
  <2>2. PastQuota' = PastQuota \ {w}
    BY <2>1, CallsTyped DEF PastQuota
  <2>3. Cardinality(PastQuota)' = Cardinality(PastQuota) - 1
    BY <1>2, <2>1, <2>2, FS_RemoveElement
  <2>. QED  BY <1>2, <1>3, <2>1, <2>3 DEF QuotaIsShared
<1>9. CASE Decides(w)
  <2>1. usage' = usage + 1 /\ unchecked' = unchecked + 1 /\ calls' = calls
    BY <1>9 DEF Decides, DecideReview
  <2>2. PastQuota' = PastQuota
    BY <2>1 DEF PastQuota
  <2>. QED  BY <1>2, <1>4, <2>1, <2>2
<1>. QED  BY <1>1, <1>5, <1>6, <1>7, <1>8, <1>9


----------------------------------------------------------------------------
(* Types                                                                   *)

\* The call of a worker keeps its type whatever it does.
LEMMA CallsStay ==
    ASSUME RecordsInv, RecordsNext
    PROVE  calls' \in [Workers -> {Idle} \cup Call'] /\ begun' \in 0..lane.calls
<1>. USE DEF RecordsInv
<1>1. PICK w \in Workers : Begins(w) \/ Proceeds(w) \/ Leaves(w) \/ Writes(w) \/ Decides(w)
  BY KindsOfSteps
<1>2. Call' = Call
  BY SettingStep DEF Call, UaiCall
<1>3. begun \in 0..lane.calls /\ lane.calls \in Nat
  BY LaneIs DEF RecordsTypeOK
<1>4. CASE Begins(w)
  <2>1. PICK job \in Call : /\ calls' = [calls EXCEPT ![w] = job]
                             /\ begun < lane.calls /\ begun' = begun + 1
    BY <1>4 DEF Begins
  <2>2. calls' \in [Workers -> {Idle} \cup Call]
    BY <2>1, CallsTyped
  <2>3. begun' \in 0..lane.calls
    BY <1>3, <2>1
  <2>. QED  BY <1>2, <2>2, <2>3
<1>5. CASE Proceeds(w)
  <2>1. PICK job \in Call : calls' = [calls EXCEPT ![w] = job] /\ begun' = begun
    BY <1>5 DEF Proceeds
  <2>. QED  BY <1>2, <1>3, <2>1, CallsTyped
<1>6. CASE Leaves(w) \/ Writes(w)
  <2>1. calls' = [calls EXCEPT ![w] = Idle] /\ begun' = begun
    BY <1>6, WritesAre DEF Leaves, End
  <2>2. Idle \in Call \cup {Idle}
    OBVIOUS
  <2>3. calls' \in [Workers -> {Idle} \cup Call]
    BY <2>1, <2>2, CallsTyped
  <2>. QED  BY <1>2, <1>3, <2>1, <2>3
<1>7. CASE Decides(w)
  <2>1. calls' = calls /\ begun < lane.calls /\ begun' = begun + 1
    BY <1>7 DEF Decides, DecideReview
  <2>. QED  BY <1>2, <1>3, <2>1 DEF RecordsTypeOK, Call
<1>. QED  BY <1>1, <1>4, <1>5, <1>6, <1>7

\* The memories and their reviews.
LEMMA MemoryStep ==
    ASSUME RecordsInv, RecordsNext
    PROVE  /\ DOMAIN memories' \subseteq 1..lane.calls /\ DOMAIN reviews' = DOMAIN memories'
           /\ \A m \in DOMAIN memories' : memories'[m] \in Memory /\ reviews'[m] \in ReviewStatuses
           /\ ReviewsGovernSearch'
<1>. USE DEF RecordsInv
<1>1. PICK w \in Workers : Begins(w) \/ Proceeds(w) \/ Leaves(w) \/ Writes(w) \/ Decides(w)
  BY KindsOfSteps
<1>2. PICK n \in 0..usage' : DOMAIN memories' = 1..n
  BY NumbersStep DEF NumbersAreCounted
<1>3. usage' <= lane.calls /\ usage' \in Nat /\ lane.calls \in Nat
  <2>1. usage \in Nat /\ lane.calls \in Nat /\ usage <= lane.calls /\ begun \in Nat
        /\ Cardinality(Busy) \in Nat /\ usage + Cardinality(Busy) <= begun /\ begun <= lane.calls
    BY LaneIs, WorkersAreCounted DEF RecordsTypeOK, NumbersAreCounted
  <2>2. CASE Begins(w) \/ Proceeds(w) \/ Leaves(w)
    BY <2>1, <2>2 DEF Begins, Proceeds, Leaves, Stays, quota
  <2>3. CASE Writes(w)
    <3>1. usage' \in {usage, usage + 1} /\ usage + 1 <= lane.calls
      BY <2>3, WritesAre, RoomForOne DEF quota
    <3>. QED  BY <2>1, <3>1
  <2>4. CASE Decides(w)
    BY <2>1, <2>4 DEF Decides, DecideReview
  <2>. QED  BY <1>1, <2>2, <2>3, <2>4
<1>4. DOMAIN memories' \subseteq 1..lane.calls
  BY <1>2, <1>3
<1>5. ASSUME NEW m \in DOMAIN memories
      PROVE  /\ memories[m] \in Memory /\ reviews[m] \in ReviewStatuses /\ m \in DOMAIN reviews
             /\ memories[m].status \notin {"rejected", "quarantined"}
                  <=> reviews[m] \in {"pending", "promoted"}
             /\ memories[m].review = reviews[m]
  BY <1>5 DEF RecordsTypeOK, ReviewsGovernSearch, Found
<1>6. CASE UNCHANGED memory
  BY <1>4, <1>5, <1>6 DEF memory, RecordsTypeOK, ReviewsGovernSearch, Found
<1>7. CASE SubmitMemory(w)
  <2>. DEFINE quarantined == calls[w].quarantine
              row == [review |-> IF quarantined THEN "quarantined" ELSE "pending",
                      promotion |-> IF quarantined THEN "quarantined" ELSE "review_pending",
                      status |-> IF quarantined THEN "quarantined" ELSE "active"]
              review == IF quarantined THEN "quarantined" ELSE "pending"
              m == Cardinality(DOMAIN memories) + 1
  <2>1. memories' = With(memories, m, row) /\ reviews' = With(reviews, m, review)
    BY <1>7 DEF SubmitMemory
  <2>2. /\ row \in Memory /\ review \in ReviewStatuses /\ row.review = review
        /\ row.status \notin {"rejected", "quarantined"} <=> review \in {"pending", "promoted"}
    BY DEF Memory, ReviewStatuses
  <2>3. DOMAIN reviews = DOMAIN memories
    BY DEF RecordsTypeOK
  <2>4. /\ DOMAIN memories' = DOMAIN memories \cup {m} /\ memories'[m] = row
        /\ \A k \in DOMAIN memories : k # m => memories'[k] = memories[k]
    <3>1. /\ DOMAIN With(memories, m, row) = DOMAIN memories \cup {m}
          /\ With(memories, m, row)[m] = row
          /\ \A k \in DOMAIN memories : k # m => With(memories, m, row)[k] = memories[k]
      BY DEF With
    <3>. QED  BY <2>1, <3>1
  <2>5. /\ DOMAIN reviews' = DOMAIN memories \cup {m} /\ reviews'[m] = review
        /\ \A k \in DOMAIN memories : k # m => reviews'[k] = reviews[k]
    <3>1. /\ DOMAIN With(reviews, m, review) = DOMAIN reviews \cup {m}
          /\ With(reviews, m, review)[m] = review
          /\ \A k \in DOMAIN reviews : k # m => With(reviews, m, review)[k] = reviews[k]
      BY DEF With
    <3>. QED  BY <2>1, <2>3, <3>1
  <2>. HIDE DEF row, review, m
  <2>. QED  BY <1>4, <1>5, <2>2, <2>4, <2>5 DEF ReviewsGovernSearch, Found
<1>8. CASE Decides(w)
  <2>1. PICK m \in DOMAIN reviews, target \in ReviewStatuses \ {"pending"} :
           /\ reviews' = [reviews EXCEPT ![m] = target]
           /\ memories' = [memories EXCEPT ![m] =
                 [review |-> target, promotion |-> target,
                  status |-> IF target = "promoted" THEN "active" ELSE target]]
    BY <1>8 DEF Decides, DecideReview
  <2>. DEFINE row == [review |-> target, promotion |-> target,
                      status |-> IF target = "promoted" THEN "active" ELSE target]
  <2>2. /\ row \in Memory /\ target \in ReviewStatuses /\ row.review = target
        /\ row.status \notin {"rejected", "quarantined"} <=> target \in {"pending", "promoted"}
    BY DEF Memory, ReviewStatuses
  <2>3. DOMAIN reviews = DOMAIN memories
    BY DEF RecordsTypeOK
  <2>4. /\ DOMAIN memories' = DOMAIN memories /\ memories'[m] = row
        /\ \A k \in DOMAIN memories : k # m => memories'[k] = memories[k]
    BY <2>1, <2>3
  <2>5. /\ DOMAIN reviews' = DOMAIN memories /\ reviews'[m] = target
        /\ \A k \in DOMAIN memories : k # m => reviews'[k] = reviews[k]
    BY <2>1, <2>3
  <2>. HIDE DEF row
  <2>. QED  BY <1>4, <1>5, <2>2, <2>4, <2>5 DEF ReviewsGovernSearch, Found
<1>. QED
  BY <1>1, <1>6, <1>7, <1>8 DEF Writes, Begins, Proceeds, Leaves, Stays, PackageWrite, UpsertWrite,
     DocumentWrite, LinkWrite, ProjectWrite

\* The quota that is used.
LEMMA UsageStep ==
    ASSUME RecordsInv, RecordsNext
    PROVE  usage' \in 0..lane.calls /\ unchecked' \in 0..usage'
<1>. USE DEF RecordsInv
<1>1. PICK w \in Workers : Begins(w) \/ Proceeds(w) \/ Leaves(w) \/ Writes(w) \/ Decides(w)
  BY KindsOfSteps
<1>2. /\ usage \in 0..lane.calls /\ unchecked \in 0..usage /\ lane.calls \in Nat
      /\ begun \in 0..lane.calls /\ Cardinality(Busy) \in Nat /\ usage + Cardinality(Busy) <= begun
  BY LaneIs, WorkersAreCounted DEF RecordsTypeOK, NumbersAreCounted
<1>3. CASE Begins(w) \/ Proceeds(w) \/ Leaves(w)
  BY <1>2, <1>3 DEF Begins, Proceeds, Leaves, Stays, quota
<1>4. CASE Writes(w)
  <2>1. usage + 1 <= lane.calls
    BY <1>4, WritesAre, RoomForOne
  <2>. QED  BY <1>2, <1>4, <2>1, WritesAre DEF quota
<1>5. CASE Decides(w)
  BY <1>2, <1>5 DEF Decides, DecideReview
<1>. QED  BY <1>1, <1>3, <1>4, <1>5

\* The packages, their records and the revisions of these.
LEMMA UaiStep ==
    ASSUME RecordsInv, RecordsNext
    PROVE  /\ packages' \in [Packages -> {"setup_required", "active", None}]
           /\ files' \in [Packages -> [Paths -> Maybe(File)]]
           /\ revisions' \in SUBSET Revision
<1>. USE DEF RecordsInv
<1>1. PICK w \in Workers : Begins(w) \/ Proceeds(w) \/ Leaves(w) \/ Writes(w) \/ Decides(w)
  BY KindsOfSteps
<1>2. /\ packages \in [Packages -> {"setup_required", "active", None}]
      /\ files \in [Packages -> [Paths -> Maybe(File)]]
      /\ revisions \in SUBSET Revision
  BY DEF RecordsTypeOK
<1>3. CASE UNCHANGED uai
  BY <1>2, <1>3 DEF uai
<1>4. CASE PackageWrite(w)
  BY <1>2, <1>4 DEF PackageWrite
<1>5. CASE UpsertWrite(w) /\ ~UNCHANGED uai
  <2>. DEFINE c == calls[w]
              file == [revision |-> c.seen + 1, text |-> c.text]
              current == [files EXCEPT ![c.package][c.path] = file]
  <2>1. /\ c # Idle /\ c \in UaiCall
        /\ RevisionOf(files[c.package][c.path]) = c.seen
        /\ files' = current
        /\ revisions' = revisions \cup {[package |-> c.package, path |-> c.path,
                                         revision |-> c.seen + 1, text |-> c.text]}
        /\ packages' = [packages EXCEPT ![c.package] = StatusOf(c.package, current)]
    BY <1>5, CallIs DEF UpsertWrite, At, Readiness
  <2>2. c.package \in Packages /\ c.path \in Paths /\ c.text \in Texts /\ c.seen \in 0..lane.calls
    BY <2>1 DEF UaiCall
  <2>3. c.seen + 1 \in 1..lane.calls
    <3>1. c.seen <= usage
      BY <2>1, <2>2 DEF NumbersAreCounted
    <3>2. usage \in Nat /\ usage + 1 <= lane.calls /\ lane.calls \in Nat
      BY <2>1, RoomForOne, LaneIs
    <3>. QED  BY <2>2, <3>1, <3>2
  <2>4. file \in File
    BY <2>2, <2>3 DEF File
  <2>5. current \in [Packages -> [Paths -> Maybe(File)]]
    BY <1>2, <2>2, <2>4 DEF Maybe
  <2>6. [package |-> c.package, path |-> c.path, revision |-> c.seen + 1, text |-> c.text] \in Revision
    BY <2>2, <2>3 DEF Revision
  <2>7. StatusOf(c.package, current) \in {"setup_required", "active"}
    BY DEF StatusOf
  <2>. HIDE DEF current, c
  <2>. QED  BY <1>2, <2>1, <2>5, <2>6, <2>7
<1>6. CASE Begins(w) \/ Proceeds(w) \/ Leaves(w) \/ Decides(w) \/ SubmitMemory(w)
           \/ DocumentWrite(w) \/ LinkWrite(w) \/ ProjectWrite(w)
  <2>1. UNCHANGED uai
    BY <1>6 DEF Begins, Proceeds, Leaves, Stays, Decides, DecideReview, SubmitMemory,
       DocumentWrite, LinkWrite, ProjectWrite
  <2>. QED  BY <1>3, <2>1
<1>. QED  BY <1>1, <1>3, <1>4, <1>5, <1>6 DEF Writes

\* The documents, links and projects.
LEMMA TablesStep ==
    ASSUME RecordsInv, RecordsNext
    PROVE  /\ documents' \in Partial(Documents, Document) /\ sources' \in SUBSET Sources
           /\ \A d \in DOMAIN documents' : documents'[d].by \in Maybe(DOMAIN documents')
           /\ DOMAIN documents \subseteq DOMAIN documents'
           /\ links' \in Partial(Links, Link)
           /\ mentions' \in SUBSET ((DOMAIN links') \X (DOMAIN documents'))
           /\ projects' \in SUBSET Projects
<1>. USE DEF RecordsInv
<1>1. PICK w \in Workers : Begins(w) \/ Proceeds(w) \/ Leaves(w) \/ Writes(w) \/ Decides(w)
  BY KindsOfSteps
<1>2. /\ documents \in Partial(Documents, Document) /\ sources \in SUBSET Sources
      /\ \A d \in DOMAIN documents : documents[d].by \in Maybe(DOMAIN documents)
      /\ links \in Partial(Links, Link)
      /\ mentions \in SUBSET ((DOMAIN links) \X (DOMAIN documents))
      /\ projects \in SUBSET Projects
  BY DEF RecordsTypeOK
<1>. DEFINE c == calls[w]
<1>3. CASE UNCHANGED <<knowledge, citations, projects>>
  BY <1>2, <1>3 DEF knowledge, citations
<1>4. CASE DocumentWrite(w) /\ ~UNCHANGED knowledge
  <2>. DEFINE row == [status |-> IF c.by = None THEN "current" ELSE "superseded", by |-> c.by,
                      source |-> c.source]
  <2>1. /\ c # Idle /\ c \in DocumentCall /\ c.by \in Maybe(DOMAIN documents)
        /\ sources' = sources \cup {c.source} /\ documents' = With(documents, c.document, row)
        /\ UNCHANGED <<citations, projects>>
    BY <1>4, CallIs DEF DocumentWrite, At, CallsAreTrue, CallIsTrue
  <2>2. c.document \in Documents /\ c.source \in Sources /\ c.by \in Maybe(Documents)
    BY <2>1 DEF DocumentCall
  <2>3. row \in Document /\ row.by = c.by
    BY <2>2 DEF Document
  <2>4. documents' \in Partial(Documents, Document)
    BY <1>2, <2>1, <2>2, <2>3, WithPartial
  <2>5. /\ DOMAIN documents' = DOMAIN documents \cup {c.document} /\ documents'[c.document] = row
        /\ \A d \in DOMAIN documents : d # c.document => documents'[d] = documents[d]
    <3>1. /\ DOMAIN With(documents, c.document, row) = DOMAIN documents \cup {c.document}
          /\ With(documents, c.document, row)[c.document] = row
          /\ \A d \in DOMAIN documents :
                d # c.document => With(documents, c.document, row)[d] = documents[d]
      BY DEF With
    <3>. QED  BY <2>1, <3>1
  <2>. HIDE DEF row, c
  <2>. QED  BY <1>2, <2>1, <2>2, <2>3, <2>4, <2>5 DEF citations, Maybe
<1>5. CASE LinkWrite(w) /\ ~UNCHANGED citations
  <2>. DEFINE row == [status |-> c.status, keywords |-> c.keywords]
  <2>1. /\ c # Idle /\ c \in LinkCall /\ c.document \in Maybe(DOMAIN documents)
        /\ links' = With(links, c.link, row)
        /\ mentions' \in {mentions, mentions \cup {<<c.link, c.document>>}}
        /\ c.document = None => mentions' = mentions
        /\ UNCHANGED <<knowledge, projects>>
    BY <1>5, CallIs DEF LinkWrite, At, CallsAreTrue, CallIsTrue
  <2>2. c.link \in Links /\ row \in Link
    BY <2>1 DEF LinkCall, Link
  <2>3. links' \in Partial(Links, Link) /\ DOMAIN links' = DOMAIN links \cup {c.link}
    <3>1. DOMAIN With(links, c.link, row) = DOMAIN links \cup {c.link}
      BY DEF With
    <3>2. With(links, c.link, row) \in Partial(Links, Link)
      BY <1>2, <2>2, WithPartial
    <3>. QED  BY <2>1, <3>1, <3>2
  <2>. HIDE DEF row, c
  <2>. QED  BY <1>2, <2>1, <2>3 DEF knowledge, Maybe
<1>6. CASE ProjectWrite(w) /\ projects' # projects
  <2>1. /\ c # Idle /\ c \in ProjectCall /\ projects' = projects \cup {c.project}
        /\ UNCHANGED <<knowledge, citations>>
    BY <1>6, CallIs DEF ProjectWrite, At
  <2>2. c.project \in Projects
    BY <2>1 DEF ProjectCall
  <2>. QED  BY <1>2, <2>1, <2>2 DEF knowledge, citations
<1>7. CASE Begins(w) \/ Proceeds(w) \/ Leaves(w) \/ Decides(w) \/ SubmitMemory(w)
           \/ PackageWrite(w) \/ UpsertWrite(w)
  <2>1. UNCHANGED <<knowledge, citations, projects>>
    BY <1>7 DEF Begins, Proceeds, Leaves, Stays, Decides, DecideReview, SubmitMemory,
       PackageWrite, UpsertWrite
  <2>. QED  BY <1>3, <2>1
<1>8. /\ DocumentWrite(w) => UNCHANGED <<citations, projects>>
      /\ LinkWrite(w) => UNCHANGED <<knowledge, projects>>
      /\ ProjectWrite(w) => UNCHANGED <<knowledge, citations>>
  BY DEF DocumentWrite, LinkWrite, ProjectWrite
<1>. QED  BY <1>1, <1>3, <1>4, <1>5, <1>6, <1>7, <1>8 DEF Writes

\* Types are kept.
LEMMA RecordsTypeStep ==
    ASSUME RecordsInv, RecordsNext
    PROVE  RecordsTypeOK'
<1>1. lane' = lane /\ oneProcess' = oneProcess /\ oneProcess \in BOOLEAN /\ lane \in Lanes
  BY SettingStep DEF RecordsInv, RecordsTypeOK
<1>2. File' = File /\ Revision' = Revision
  BY <1>1 DEF File, Revision
<1>. QED
  BY <1>1, <1>2, CallsStay, MemoryStep, UsageStep, UaiStep, TablesStep DEF RecordsTypeOK, Call


----------------------------------------------------------------------------
(* What calls have read                                                    *)

\* What a call has read of lasting rows stays so.
LEMMA ReadingsStay ==
    ASSUME RecordsInv, RecordsNext, NEW job, CallIsTrue(job)
    PROVE  CallIsTrue(job)'
<1>. USE DEF RecordsInv
<1>1. DOMAIN documents \subseteq DOMAIN documents'
  BY TablesStep
<1>2. ASSUME NEW p, packages[p] # None, job.op = "upsert", job.package = p
      PROVE  packages'[p] # None
  <2>1. PICK w \in Workers : Begins(w) \/ Proceeds(w) \/ Leaves(w) \/ Writes(w) \/ Decides(w)
    BY KindsOfSteps
  <2>2. CASE packages' = packages
    BY <1>2, <2>2
  <2>3. CASE \E q \in Packages : \E status \in {"setup_required", "active"} :
                packages' = [packages EXCEPT ![q] = status]
    BY <1>2, <2>3, RecordsAssumption DEF RecordsTypeOK
  <2>4. CASE PackageWrite(w) \/ UpsertWrite(w)
    <3>1. calls[w] # Idle /\ calls[w].package \in Packages
      BY <2>4, CallIs DEF PackageWrite, UpsertWrite, At, UaiCall
    <3>. QED  BY <2>2, <2>3, <2>4, <3>1 DEF PackageWrite, UpsertWrite, Readiness, StatusOf, uai
  <2>5. CASE Begins(w) \/ Proceeds(w) \/ Leaves(w) \/ Decides(w) \/ SubmitMemory(w)
             \/ DocumentWrite(w) \/ LinkWrite(w) \/ ProjectWrite(w)
    <3>1. packages' = packages
      BY <2>5 DEF Begins, Proceeds, Leaves, Stays, Decides, DecideReview, SubmitMemory,
         DocumentWrite, LinkWrite, ProjectWrite, uai
    <3>. QED  BY <2>2, <3>1
  <2>. QED  BY <2>1, <2>4, <2>5 DEF Writes
<1>. QED  BY <1>1, <1>2 DEF CallIsTrue, Maybe

\* A worker has the call that it had, or one whose reading is true now.
LEMMA CallsGoOn ==
    ASSUME RecordsInv, RecordsNext, NEW w \in Workers, calls'[w] # Idle
    PROVE  \/ calls'[w] = calls[w]
           \/ /\ CallIsTrue(calls'[w]) /\ MergeIsPresent(calls'[w]) /\ UNCHANGED citations
              /\ Inside(w)' => May(w)
<1>. USE DEF RecordsInv
<1>1. PICK v \in Workers : Begins(v) \/ Proceeds(v) \/ Leaves(v) \/ Writes(v) \/ Decides(v)
  BY KindsOfSteps
<1>2. CASE \/ Begins(v) \/ Proceeds(v)
  <2>1. PICK job \in Call :
           /\ calls' = [calls EXCEPT ![v] = job] /\ CallIsTrue(job) /\ UNCHANGED citations
           /\ MergeIsPresent(job) /\ (job.step = "write" => May(v))
    BY <1>2 DEF Begins, Proceeds, Stays, MergeIsPresent
  <2>2. calls'[v] = job /\ (w # v => calls'[w] = calls[w])
    BY <2>1, CallsTyped
  <2>. QED  BY <2>1, <2>2 DEF Inside
<1>3. CASE Leaves(v) \/ Writes(v)
  <2>1. calls' = [calls EXCEPT ![v] = Idle]
    BY <1>3, WritesAre DEF Leaves, End
  <2>2. Idle \in Call \cup {Idle}
    OBVIOUS
  <2>. QED  BY <2>1, <2>2, CallsTyped
<1>4. CASE Decides(v)
  BY <1>4 DEF Decides, DecideReview
<1>. QED  BY <1>1, <1>2, <1>3, <1>4

LEMMA CallsAreTrueStep ==
    ASSUME RecordsInv, RecordsNext
    PROVE  CallsAreTrue'
<1>1. ASSUME NEW job, CallIsTrue(job)
      PROVE  /\ job.op = "document" /\ job.step = "write" => job.by \in Maybe(DOMAIN documents')
             /\ job.op = "link" => job.document \in Maybe(DOMAIN documents')
             /\ job.op = "upsert" => packages'[job.package] # None
             /\ job.op = "upsert" /\ job.step = "write" => job.seen = job.expected
  BY <1>1, ReadingsStay DEF CallIsTrue
<1>2. ASSUME NEW w \in Workers, calls'[w] # Idle
      PROVE  CallIsTrue(calls'[w])
  <2>1. calls'[w] = calls[w] => CallIsTrue(calls'[w])
    BY <1>2 DEF RecordsInv, CallsAreTrue
  <2>. QED  BY <1>2, <2>1, CallsGoOn
<1>3. ASSUME NEW w \in Workers, calls'[w] # Idle
      PROVE  CallIsTrue(calls[w])'
  <2>1. CallIsTrue(calls'[w])
    BY <1>2, <1>3
  <2>. QED  BY <1>1, <2>1 DEF CallIsTrue
<1>. QED  BY <1>3 DEF CallsAreTrue

\* The one process reads and writes a link in one store call.
LEMMA InsideStep ==
    ASSUME RecordsInv, RecordsNext
    PROVE  InsideIsAlone'
<1>. USE DEF RecordsInv
<1>1. SUFFICES ASSUME oneProcess
      PROVE  /\ \A w \in Workers : calls'[w] # Idle => MergeIsPresent(calls[w])'
             /\ \A v, w \in Workers : Inside(v)' /\ Inside(w)' => v = w
  BY SettingStep DEF InsideIsAlone
<1>2. /\ \A w \in Workers : calls[w] # Idle => MergeIsPresent(calls[w])
      /\ \A v, w \in Workers : Inside(v) /\ Inside(w) => v = w
  BY <1>1 DEF InsideIsAlone
<1>3. ASSUME NEW v \in Workers, NEW w \in Workers, Inside(v)', Inside(w)', v # w
      PROVE  FALSE
  <2>1. calls'[v] # Idle /\ calls'[w] # Idle
    BY <1>3 DEF Inside
  <2>2. CASE calls'[v] = calls[v] /\ calls'[w] = calls[w]
    BY <1>2, <1>3, <2>2 DEF Inside
  <2>3. ASSUME NEW x \in Workers, NEW y \in Workers, x # y, Inside(x)', Inside(y)', calls'[x] # calls[x]
        PROVE  FALSE
    <3>1. May(x)
      BY <2>3, CallsGoOn DEF Inside
    <3>2. ~Inside(y)
      BY <1>1, <2>3, <3>1 DEF May
    <3>3. calls'[y] # calls[y]
      BY <2>3, <3>2 DEF Inside
    <3>4. PICK z \in Workers : \A u \in Workers \ {z} : calls'[u] = calls[u]
      <4>1. PICK z \in Workers : Begins(z) \/ Proceeds(z) \/ Leaves(z) \/ Writes(z) \/ Decides(z)
        BY KindsOfSteps
      <4>2. (\E job : calls' = [calls EXCEPT ![z] = job]) \/ calls' = calls
        BY <4>1, WritesAre DEF Begins, Proceeds, Leaves, End, Decides, DecideReview
      <4>. QED  BY <4>2 DEF RecordsTypeOK
    <3>. QED  BY <2>3, <3>3, <3>4
  <2>. QED  BY <1>3, <2>2, <2>3
<1>4. ASSUME NEW w \in Workers, calls'[w] # Idle
      PROVE  MergeIsPresent(calls[w])'
  <2>1. CASE UNCHANGED citations
    <3>1. MergeIsPresent(calls'[w])
      BY <1>2, <1>4, CallsGoOn
    <3>. QED  BY <2>1, <3>1 DEF MergeIsPresent, citations
  <2>2. CASE ~UNCHANGED citations
    <3>1. PICK v \in Workers : LinkWrite(v)
      <4>1. PICK v \in Workers : Begins(v) \/ Proceeds(v) \/ Leaves(v) \/ Writes(v) \/ Decides(v)
        BY KindsOfSteps
      <4>. QED
        BY <2>2, <4>1 DEF Begins, Proceeds, Leaves, Stays, Decides, DecideReview, Writes, SubmitMemory,
           PackageWrite, UpsertWrite, DocumentWrite, ProjectWrite
    <3>2. Writes(v) /\ May(v) /\ calls'[w] = calls[w]
      BY <1>4, <2>2, <3>1, CallsGoOn, WritesAre DEF Writes
    <3>3. w # v
      BY <1>4, <3>2, WritesAre DEF End, RecordsTypeOK
    <3>4. ~Inside(w)
      BY <1>1, <3>2, <3>3 DEF May
    <3>. QED  BY <1>4, <3>2, <3>4 DEF Inside, MergeIsPresent
  <2>. QED  BY <2>1, <2>2
<1>. QED  BY <1>1, <1>3, <1>4

----------------------------------------------------------------------------
(* Packages                                                                *)

\* A history goes on with the next revision.
LEMMA HistoryGrows ==
    ASSUME NEW history, NEW current, NEW n \in Nat, NEW row, NEW file,
           HistoryIsTrue(history, current), RevisionOf(current) = n, row.revision = n + 1,
           file # None, file.revision = n + 1, file.text = row.text
    PROVE  HistoryIsTrue(history \cup {row}, file)
<1>1. {r.revision : r \in history} = 1..n /\ IsFiniteSet(history) /\ Cardinality(history) = n
  BY DEF HistoryIsTrue
<1>2. row \notin history
  BY <1>1
<1>3. {r.revision : r \in history \cup {row}} = 1..(n + 1)
  <2>1. {r.revision : r \in history \cup {row}} = {r.revision : r \in history} \cup {n + 1}
    OBVIOUS
  <2>2. 1..n \cup {n + 1} = 1..(n + 1)
    OBVIOUS
  <2>. QED  BY <1>1, <2>1, <2>2
<1>4. IsFiniteSet(history \cup {row}) /\ Cardinality(history \cup {row}) = n + 1
  BY <1>1, <1>2, FS_AddElement
<1>. QED  BY <1>3, <1>4 DEF HistoryIsTrue, RevisionOf

\* A record goes from one revision to the next, and its history with it.
LEMMA PackagesStep ==
    ASSUME RecordsInv, RecordsNext
    PROVE  PackagesAreSound'
<1>. USE DEF RecordsInv
<1>1. PICK w \in Workers : Begins(w) \/ Proceeds(w) \/ Leaves(w) \/ Writes(w) \/ Decides(w)
  BY KindsOfSteps
<1>2. CASE UNCHANGED uai
  <2>1. packages' = packages /\ files' = files /\ revisions' = revisions
    BY <1>2 DEF uai
  <2>2. \A p, path : History(p, path)' = History(p, path)
    BY <2>1 DEF History
  <2>. QED  BY <2>1, <2>2 DEF PackagesAreSound
<1>3. CASE PackageWrite(w) /\ ~UNCHANGED uai
  <2>. DEFINE q == calls[w].package
  <2>1. /\ packages[q] = None /\ packages' = [packages EXCEPT ![q] = "setup_required"]
        /\ UNCHANGED <<files, revisions>> /\ q \in Packages
    <3>1. calls[w] # Idle /\ q \in Packages
      BY <1>3, CallIs DEF PackageWrite, At, UaiCall
    <3>. QED  BY <1>3, <3>1 DEF PackageWrite, uai
  <2>2. StatusOf(q, files) = "setup_required"
    <3>1. Present(q, files) = {}
      BY <2>1 DEF PackagesAreSound, Present
    <3>. QED  BY <3>1, RecordsAssumption DEF StatusOf
  <2>3. ASSUME NEW p \in Packages
        PROVE  /\ packages'[p] = None => \A path \in Paths : files[p][path] = None
               /\ packages'[p] # None => packages'[p] = StatusOf(p, files)
    BY <2>1, <2>2, RecordsAssumption DEF PackagesAreSound, RecordsTypeOK
  <2>4. \A p, path : History(p, path)' = History(p, path)
    BY <2>1 DEF History
  <2>. QED  BY <2>1, <2>3, <2>4 DEF PackagesAreSound
<1>4. CASE UpsertWrite(w) /\ ~UNCHANGED uai
  <2>. DEFINE c == calls[w]
              q == c.package
              file == [revision |-> c.seen + 1, text |-> c.text]
              row == [package |-> q, path |-> c.path, revision |-> c.seen + 1, text |-> c.text]
  <2>1. /\ c # Idle /\ c \in UaiCall /\ packages[q] # None
        /\ RevisionOf(files[q][c.path]) = c.seen
        /\ files' = [files EXCEPT ![q][c.path] = file]
        /\ revisions' = revisions \cup {row}
        /\ packages' = [packages EXCEPT ![q] = StatusOf(q, files')]
    BY <1>4, CallIs DEF UpsertWrite, At, Readiness, CallsAreTrue, CallIsTrue
  <2>2. q \in Packages /\ c.path \in Paths /\ c.text \in Texts /\ c.seen \in Nat
    BY <2>1, LaneIs DEF UaiCall
  <2>3. file # None /\ RevisionOf(file) = c.seen + 1
    <3>1. file \in [revision : Nat, text : Texts]
      BY <2>2
    <3>. QED  BY <3>1, RecordsAssumption DEF RevisionOf
  <2>4. /\ files'[q][c.path] = file
        /\ \A p \in Packages, path \in Paths :
              p # q \/ path # c.path => files'[p][path] = files[p][path]
    BY <2>1, <2>2 DEF RecordsTypeOK
  <2>5. ASSUME NEW p \in Packages
        PROVE  /\ packages'[p] = None => \A path \in Paths : files'[p][path] = None
               /\ packages'[p] # None => packages'[p] = StatusOf(p, files')
    <3>1. CASE p = q
      <4>1. packages'[p] = StatusOf(p, files')
        BY <2>1, <3>1 DEF RecordsTypeOK
      <4>2. StatusOf(p, files') # None
        BY RecordsAssumption DEF StatusOf
      <4>. QED  BY <4>1, <4>2
    <3>2. CASE p # q
      <4>1. packages'[p] = packages[p] /\ \A path \in Paths : files'[p][path] = files[p][path]
        BY <2>1, <2>4, <3>2 DEF RecordsTypeOK
      <4>2. StatusOf(p, files') = StatusOf(p, files)
        BY <4>1 DEF StatusOf, Present
      <4>. QED  BY <4>1, <4>2 DEF PackagesAreSound
    <3>. QED  BY <3>1, <3>2
  <2>6. ASSUME NEW p \in Packages, NEW path \in Paths
        PROVE  HistoryIsTrue(History(p, path)', files'[p][path])
    <3>1. HistoryIsTrue(History(p, path), files[p][path])
      BY DEF PackagesAreSound
    <3>2. CASE p = q /\ path = c.path
      <4>1. History(p, path)' = History(p, path) \cup {row}
        BY <2>1, <3>2 DEF History
      <4>2. HistoryIsTrue(History(p, path) \cup {row}, file)
        <5>1. RevisionOf(files[p][path]) = c.seen /\ row.revision = c.seen + 1
          BY <2>1, <3>2
        <5>. HIDE DEF row, file, c
        <5>2. file.revision = c.seen + 1 /\ file.text = row.text
          BY DEF row, file
        <5>. QED  BY <2>2, <2>3, <3>1, <5>1, <5>2, HistoryGrows
      <4>. QED  BY <2>4, <3>2, <4>1, <4>2
    <3>3. CASE ~(p = q /\ path = c.path)
      <4>1. History(p, path)' = History(p, path)
        BY <2>1, <3>3 DEF History
      <4>2. files'[p][path] = files[p][path]
        BY <2>4, <3>3
      <4>. QED  BY <3>1, <4>1, <4>2
    <3>. QED  BY <3>2, <3>3
  <2>. QED  BY <2>5, <2>6 DEF PackagesAreSound, StatusOf, Present
<1>5. CASE Begins(w) \/ Proceeds(w) \/ Leaves(w) \/ Decides(w) \/ SubmitMemory(w)
           \/ DocumentWrite(w) \/ LinkWrite(w) \/ ProjectWrite(w)
  <2>1. UNCHANGED uai
    BY <1>5 DEF Begins, Proceeds, Leaves, Stays, Decides, DecideReview, SubmitMemory,
       DocumentWrite, LinkWrite, ProjectWrite
  <2>. QED  BY <1>2, <2>1
<1>. QED  BY <1>1, <1>2, <1>3, <1>4, <1>5 DEF Writes


----------------------------------------------------------------------------
(* Theorems                                                                *)

\* RecordsInit establishes the invariant.
LEMMA InitRecordsInv == RecordsInit => RecordsInv
<1> SUFFICES ASSUME RecordsInit PROVE RecordsInv
  OBVIOUS
<1>. USE DEF RecordsInit
<1>1. lane.calls \in Nat /\ lane.limit \in Nat
  BY RecordsAssumption
<1>2. DOMAIN memories = {} /\ DOMAIN reviews = {} /\ DOMAIN documents = {} /\ DOMAIN links = {}
  OBVIOUS
<1>3. documents \in Partial(Documents, Document) /\ links \in Partial(Links, Link)
  BY <1>2, PartialIs
<1>4. RecordsTypeOK
  BY <1>1, <1>2, <1>3 DEF RecordsTypeOK, Maybe, memory
<1>5. CallsAreTrue /\ InsideIsAlone /\ Busy = {} /\ PastQuota = {}
  BY DEF CallsAreTrue, InsideIsAlone, Inside, Busy, PastQuota
<1>6. NumbersAreCounted
  <2>1. Cardinality(Busy) = 0
    BY <1>5, FS_EmptySet
  <2>2. 0 \in 0..usage /\ DOMAIN memories = 1..0
    BY <1>2
  <2>3. \A p \in Packages, path \in Paths : RevisionOf(files[p][path]) = 0
    BY DEF RevisionOf
  <2>. QED  BY <2>1, <2>2, <2>3 DEF NumbersAreCounted
<1>7. QuotaIsShared
  <2>1. Cardinality(PastQuota) = 0
    BY <1>5, FS_EmptySet
  <2>2. Cardinality(Workers) \in Nat /\ Cardinality(Workers) > 0
    BY <1>4, WorkersAreCounted
  <2>. QED  BY <1>1, <2>1, <2>2 DEF QuotaIsShared
<1>8. PackagesAreSound
  <2>1. ASSUME NEW p \in Packages, NEW path \in Paths
        PROVE  HistoryIsTrue(History(p, path), files[p][path])
    <3>1. History(p, path) = {} /\ files[p][path] = None /\ RevisionOf(files[p][path]) = 0
      BY DEF History, RevisionOf
    <3>2. {r.revision : r \in {}} = 1..0
      OBVIOUS
    <3>. QED  BY <3>1, <3>2, FS_EmptySet DEF HistoryIsTrue
  <2>. QED  BY <2>1 DEF PackagesAreSound
<1>9. ReviewsGovernSearch
  BY <1>2 DEF ReviewsGovernSearch
<1>. QED  BY <1>4, <1>5, <1>6, <1>7, <1>8, <1>9 DEF RecordsInv

\* The invariant is inductive.
LEMMA NextRecordsInv == RecordsInv /\ [RecordsNext]_recordsVars => RecordsInv'
<1>1. CASE RecordsInv /\ RecordsNext
  BY <1>1, RecordsTypeStep, CallsAreTrueStep, InsideStep, NumbersStep, QuotaStep, PackagesStep,
     MemoryStep DEF RecordsInv
<1>2. CASE RecordsInv /\ UNCHANGED recordsVars
  <2>1. /\ RecordsTypeOK' /\ CallsAreTrue' /\ InsideIsAlone'
    BY <1>2 DEF recordsVars, setting, quota, memory, uai, knowledge, citations, RecordsInv,
       RecordsTypeOK, CallsAreTrue, CallIsTrue, InsideIsAlone, MergeIsPresent, Inside,
       File, Revision, UaiCall
  <2>2. Busy' = Busy /\ PastQuota' = PastQuota
    BY <1>2 DEF recordsVars, Busy, PastQuota
  <2>3. NumbersAreCounted' /\ QuotaIsShared'
    BY <1>2, <2>2 DEF recordsVars, setting, quota, memory, uai, RecordsInv, NumbersAreCounted,
       QuotaIsShared
  <2>4. \A p, path : History(p, path)' = History(p, path)
    BY <1>2 DEF recordsVars, uai, History
  <2>5. PackagesAreSound' /\ ReviewsGovernSearch'
    BY <1>2, <2>4 DEF recordsVars, memory, uai, RecordsInv, PackagesAreSound, ReviewsGovernSearch,
       Found
  <2>. QED  BY <2>1, <2>3, <2>5 DEF RecordsInv
<1>. QED  BY <1>1, <1>2

\* It holds in every behavior.
THEOREM RecordsInvariant == RecordsSpec => []RecordsInv
BY InitRecordsInv, NextRecordsInv, PTL DEF RecordsSpec

\* The tables keep their types, and references to documents and links their rows.
THEOREM RecordsTyped == RecordsSpec => []RecordsTypeOK
<1>1. RecordsInv => RecordsTypeOK
  BY DEF RecordsInv
<1>. QED  BY <1>1, RecordsInvariant, PTL

\* The revisions of a .uai record have no gap, the record is the last, and the
\* package is ready when its required records are there (upsert_uai_record),
\* with writers in any number of processes.
THEOREM PackagesTrue == RecordsSpec => []PackagesAreTrue
<1>1. ASSUME RecordsInv
      PROVE  PackagesAreTrue
  <2>1. ASSUME NEW p \in Packages
        PROVE  /\ packages[p] # None => packages[p] = StatusOf(p, files)
               /\ \A path \in Paths : HistoryIsTrue(History(p, path), files[p][path])
    BY <1>1 DEF RecordsInv, PackagesAreSound
  <2>2. ASSUME NEW p \in Packages, NEW path \in Paths
        PROVE  LET history == {r \in revisions : r.package = p /\ r.path = path}
                   current == files[p][path]
               IN /\ {r.revision : r \in history} = 1..RevisionOf(current)
                  /\ Cardinality(history) = RevisionOf(current)
                  /\ current # None => \E r \in history : /\ r.revision = current.revision
                                                          /\ r.text = current.text
    <3>1. HistoryIsTrue({r \in revisions : r.package = p /\ r.path = path}, files[p][path])
      BY <2>1 DEF History
    <3>. QED  BY <3>1 DEF HistoryIsTrue
  <2>. QED  BY <2>1, <2>2 DEF PackagesAreTrue
<1>. QED  BY <1>1, RecordsInvariant, PTL

\* Calls that pass has_quota_for together exceed the quota by at most one unit
\* for each worker beside the last one admitted.
THEOREM QuotaHolds == RecordsSpec => []AdmittedWithinLimit
<1>1. ASSUME RecordsInv
      PROVE  AdmittedWithinLimit
  <2>1. /\ usage \in Nat /\ unchecked \in Nat /\ lane.limit \in Nat
        /\ Cardinality(PastQuota) \in Nat /\ Cardinality(Workers) \in Nat
    BY <1>1, LaneIs, WorkersAreCounted DEF RecordsInv, RecordsTypeOK
  <2>. QED  BY <1>1, <2>1 DEF RecordsInv, QuotaIsShared, AdmittedWithinLimit
<1>. QED  BY <1>1, RecordsInvariant, PTL

\* Memories, packages and the quota are as their last writers left them.
THEOREM RecordsTrue == RecordsSpec => []RecordsAreTrue
<1>1. RecordsInv => ReviewsGovernSearch
  BY DEF RecordsInv
<1>. QED
  BY <1>1, RecordsInvariant, RecordsTyped, PackagesTrue, QuotaHolds, PTL DEF RecordsAreTrue

\* A .uai record changes only by a call that expected the revision it replaces
\* (the comparison of upsert_uai_record), although it was read before the write.
THEOREM UpsertsCompare == RecordsSpec => UpsertsCompareAndSwap
<1>1. ASSUME RecordsInv, [RecordsNext]_recordsVars, NEW p \in Packages, NEW path \in Paths,
             files'[p][path] # files[p][path]
      PROVE  \E w \in Workers : /\ calls[w] # Idle /\ calls[w].op = "upsert"
                                /\ calls[w].package = p /\ calls[w].path = path
                                /\ calls[w].expected = RevisionOf(files[p][path])
  <2>. USE DEF RecordsInv
  <2>1. RecordsNext
    BY <1>1 DEF recordsVars, uai
  <2>2. PICK w \in Workers : Begins(w) \/ Proceeds(w) \/ Leaves(w) \/ Writes(w) \/ Decides(w)
    BY <1>1, <2>1, KindsOfSteps
  <2>3. UpsertWrite(w)
    BY <1>1, <2>2 DEF Begins, Proceeds, Leaves, Stays, Decides, DecideReview, Writes, SubmitMemory,
       PackageWrite, DocumentWrite, LinkWrite, ProjectWrite, uai
  <2>. DEFINE c == calls[w]
              file == [revision |-> c.seen + 1, text |-> c.text]
  <2>4. /\ c # Idle /\ c.op = "upsert" /\ c \in UaiCall /\ c.seen = c.expected
        /\ RevisionOf(files[c.package][c.path]) = c.seen
        /\ files' = [files EXCEPT ![c.package][c.path] = file]
    BY <1>1, <2>3, CallIs DEF UpsertWrite, At, CallsAreTrue, CallIsTrue, uai
  <2>5. p = c.package /\ path = c.path
    <3>. HIDE DEF c, file
    <3>. QED  BY <1>1, <2>4 DEF RecordsTypeOK
  <2>. QED  BY <2>4, <2>5
<1>2. ASSUME RecordsInv, [RecordsNext]_recordsVars
      PROVE  \A p \in Packages, path \in Paths :
               files'[p][path] # files[p][path] =>
                 \E w \in Workers : /\ calls[w] # Idle /\ calls[w].op = "upsert"
                                    /\ calls[w].package = p /\ calls[w].path = path
                                    /\ calls[w].expected = RevisionOf(files[p][path])
  BY <1>1, <1>2
<1>. QED  BY <1>2, RecordsInvariant, PTL DEF RecordsSpec, UpsertsCompareAndSwap

\* In one process a link only gains keywords and its review is replaced by
\* another only: the row merged with is the present one (upsert_external_link).
THEOREM LinksOnlyGain == RecordsSpec => LinksAccumulate
<1>1. ASSUME RecordsInv, [RecordsNext]_recordsVars, oneProcess, NEW x \in DOMAIN links
      PROVE  /\ links[x].keywords \subseteq links'[x].keywords
             /\ links'[x].status = "unreviewed" => links[x].status = "unreviewed"
  <2>. USE DEF RecordsInv
  <2>1. CASE links' = links
    BY <2>1
  <2>2. CASE links' # links
    <3>1. RecordsNext
      BY <1>1, <2>2 DEF recordsVars, citations
    <3>2. PICK w \in Workers : Begins(w) \/ Proceeds(w) \/ Leaves(w) \/ Writes(w) \/ Decides(w)
      BY <1>1, <3>1, KindsOfSteps
    <3>3. LinkWrite(w)
      BY <2>2, <3>2 DEF Begins, Proceeds, Leaves, Stays, Decides, DecideReview, Writes, SubmitMemory,
         PackageWrite, UpsertWrite, DocumentWrite, ProjectWrite, citations
    <3>. DEFINE c == calls[w]
                row == [status |-> c.status, keywords |-> c.keywords]
    <3>4. /\ c # Idle /\ c.op = "link" /\ c.step = "write" /\ links' = With(links, c.link, row)
      BY <2>2, <3>3 DEF LinkWrite, At, citations
    <3>5. c.link \in DOMAIN links =>
             /\ links[c.link].keywords \subseteq c.keywords
             /\ c.status = "unreviewed" => links[c.link].status = "unreviewed"
      BY <1>1, <3>4 DEF InsideIsAlone, MergeIsPresent
    <3>6. links'[x] = IF x = c.link THEN row ELSE links[x]
      <4>1. With(links, c.link, row)[x] = IF x = c.link THEN row ELSE links[x]
        BY DEF With
      <4>. QED  BY <3>4, <4>1
    <3>. QED  BY <3>5, <3>6
  <2>. QED  BY <2>1, <2>2
<1>2. ASSUME RecordsInv, [RecordsNext]_recordsVars
      PROVE  oneProcess => \A x \in DOMAIN links :
               /\ links[x].keywords \subseteq links'[x].keywords
               /\ links'[x].status = "unreviewed" => links[x].status = "unreviewed"
  BY <1>1, <1>2
<1>. QED  BY <1>2, RecordsInvariant, PTL DEF RecordsSpec, LinksAccumulate

----------------------------------------------------------------------------
(* Part three: pairings                                                    *)

\* A credential that exists has a pairing and only then a rotation; so have
\* the credentials of the calls that were accepted.
CredentialsHaveOwners ==
    /\ \A c \in Creds : /\ cred[c].status = "none" <=> cred[c].pairing = NoOwner
                        /\ cred[c].status = "none" => rotation[c].status = "none"
    /\ \A k \in caller : cred[k.cred].pairing \in PairingRequests

\* The current credential of a pairing that has not ended.
CurrentFollowsPairing ==
    \A r \in PairingRequests :
        /\ pairing[r].status \in {"pending_activation", "active"} =>
              /\ pairing[r].current \in Creds
              /\ cred[pairing[r].current].pairing = r
              /\ cred[pairing[r].current].status = pairing[r].status
        /\ pairing[r].status = "pending_activation" =>
              rotation[pairing[r].current].status = "none"
        /\ pairing[r].status = "active" => pairing[r].current \in vault

\* How far the request of a pairing has gone.
RequestsFollowPairing ==
    \A r \in PairingRequests :
        /\ request[r].status \in {"none", "pending_human_approval", "approved",
                                  "authorization_code_issued"} =>
              pairing[r].status = "none"
        /\ pairing[r].status = "pending_activation" => request[r].status = "exchanged"

PairingIInv ==
           /\ PairingTypeOK
           /\ CredentialsHaveOwners
           /\ CurrentFollowsPairing
           /\ CredentialsFollowPairing
           /\ RequestsFollowPairing
           /\ NameHasOneHolder

-----------------------------------------------------------------------------
(* Types.                                                                  *)

Rows == <<request, pairing, cred, rotation>>

\* The empty tables.
LEMMA InitHolds == PairingInit => PairingIInv
  <1>1. PairingInit => PairingTypeOK
    BY PairingConstants DEF PairingInit, PairingTypeOK, Request, RequestStatus, Pairing, PairingStatus,
         Cred, CredStatus, Rotation, RotationStatus, CompanyStatus
  <1>2. PairingInit => /\ CredentialsHaveOwners
                       /\ CurrentFollowsPairing
                       /\ CredentialsFollowPairing
                       /\ RequestsFollowPairing
                       /\ NameHasOneHolder
    BY PairingConstants DEF PairingInit, CredentialsHaveOwners, CurrentFollowsPairing,
         CredentialsFollowPairing, Live, RequestsFollowPairing, NameHasOneHolder, Reserving
  <1> QED BY <1>1, <1>2 DEF PairingIInv

\* An exchange that finds its code expired.
CodeExpires(r) == request[r].status = "authorization_code_issued" /\ ExpireRequest(r)

\* The steps of the request.
RequestStep(r) == Create(r) \/ Approve(r) \/ CancelRequest(r) \/ Claim(r) \/ CodeExpires(r)

\* The request is moved to a status and a mode.
LEMMA RequestMoves ==
    ASSUME PairingTypeOK, NEW r \in PairingRequests, RequestStep(r)
    PROVE  /\ request' \in [PairingRequests -> Request]
           /\ \A q \in PairingRequests \ {r} : request'[q] = request[q]
           /\ request[r].status \in {"none", "pending_human_approval", "approved",
                                     "authorization_code_issued"}
           /\ request'[r].status \in Reserving =>
                 \/ request[r].status \in Reserving
                 \/ NameFree(r)
           /\ UNCHANGED <<pairing, cred, rotation, company, ends, vault, caller>>
  <1>1. CASE Create(r)
    BY <1>1 DEF Create, PairingTypeOK, Request, RequestStatus, Reserving
  <1>2. CASE Approve(r)
    <2>1. CASE ExpireRequest(r)
      BY <1>2, <2>1 DEF Approve, ExpireRequest, PairingTypeOK, Request, RequestStatus, Reserving
    <2>2. CASE ~ExpireRequest(r)
      <3>1. PICK mode \in {"existing", "new"} :
               request' = [request EXCEPT ![r] =
                              [status |-> "approved", mode |-> mode, late |-> FALSE]]
        BY <1>2, <2>2 DEF Approve
      <3>2. [status |-> "approved", mode |-> mode, late |-> FALSE] \in Request
        BY DEF Request, RequestStatus
      <3> QED BY <1>2, <2>2, <3>1, <3>2 DEF Approve, PairingTypeOK
    <2> QED BY <2>1, <2>2
  <1>3. CASE CancelRequest(r)
    BY <1>3 DEF CancelRequest, ExpireRequest, PairingTypeOK, Request, RequestStatus, Reserving
  <1>4. CASE Claim(r)
    BY <1>4 DEF Claim, ExpireRequest, PairingTypeOK, Request, RequestStatus, Reserving
  <1>5. CASE CodeExpires(r)
    BY <1>5 DEF CodeExpires, ExpireRequest, PairingTypeOK, Request, RequestStatus, Reserving
  <1> QED BY <1>1, <1>2, <1>3, <1>4, <1>5 DEF RequestStep

\* A step of a request leaves pairings alone, and the name to its holder.
LEMMA RequestKeeps ==
    ASSUME PairingIInv, NEW r \in PairingRequests, RequestStep(r)
    PROVE  PairingIInv'
  <1>1. PairingTypeOK /\ pairing[r].status = "none"
    BY RequestMoves DEF PairingIInv, RequestsFollowPairing
  <1>2. PairingTypeOK'
    BY <1>1, RequestMoves DEF PairingTypeOK, ends
  <1>3. CredentialsHaveOwners' /\ CurrentFollowsPairing' /\ CredentialsFollowPairing'
    BY <1>1, RequestMoves DEF PairingIInv, CredentialsHaveOwners, CurrentFollowsPairing,
         CredentialsFollowPairing, Live
  <1>4. RequestsFollowPairing'
    BY <1>1, RequestMoves DEF PairingIInv, RequestsFollowPairing
  <1>5. NameHasOneHolder'
    <2>1. ASSUME NEW p \in PairingRequests, request'[p].status \in Reserving
          PROVE  \A q \in PairingRequests \ {p} : request'[q].status \notin Reserving
      BY <1>1, <2>1, RequestMoves DEF PairingIInv, NameHasOneHolder, NameFree
    <2>2. ASSUME NEW p \in PairingRequests, pairing'[p].status = "active"
          PROVE  identity' = p /\ WorkspaceOf(p)' \in agents' /\ request'[p].status = "active"
      BY <1>1, <2>2, RequestMoves DEF PairingIInv, NameHasOneHolder, WorkspaceOf, ends
    <2> QED BY <2>1, <2>2 DEF NameHasOneHolder
  <1> QED BY <1>2, <1>3, <1>4, <1>5 DEF PairingIInv

-----------------------------------------------------------------------------
(* PairingSteps that leave the rows of pairings and credentials as they are.      *)

\* What the desktop holds, who was accepted, and the company.
Aside ==
    \/ \E r \in PairingRequests : RetryExchange(r)
    \/ \E op \in {"rotate", "disconnect", "cancel"}, c \in Creds :
          Authenticate(op, c) \/ RefuseCall(op, c)
    \/ \E c, d \in Creds : RetryPrepare(c, d)
    \/ SoftDeleteCompany \/ RestoreCompany

\* None of these steps touches a row, a name or a credential.
LEMMA AsideMoves ==
    ASSUME PairingIInv, Aside
    PROVE  /\ UNCHANGED <<Rows, ends>>
           /\ vault \subseteq vault' /\ vault' \subseteq Creds
           /\ caller' \subseteq Calls
           /\ \A k \in caller' \ caller : cred[k.cred].pairing \in PairingRequests
           /\ company' \in CompanyStatus
  <1>1. ASSUME NEW r \in PairingRequests, RetryExchange(r)
        PROVE  /\ UNCHANGED <<Rows, ends, company, caller>>
               /\ vault \subseteq vault' /\ vault' \subseteq Creds
    BY <1>1 DEF RetryExchange, PairingIInv, PairingTypeOK, CurrentFollowsPairing, Rows, ends
  <1>2. ASSUME NEW op \in {"rotate", "disconnect", "cancel"}, NEW c \in Creds,
               Authenticate(op, c) \/ RefuseCall(op, c)
        PROVE  /\ UNCHANGED <<Rows, ends, company, vault>>
               /\ caller' \subseteq Calls
               /\ \A k \in caller' \ caller : cred[k.cred].pairing \in PairingRequests
    <2>1. CASE Authenticate(op, c)
      <3>1. [op |-> op, cred |-> c] \in Calls /\ cred[c].status # "none"
        BY <2>1 DEF Authenticate, Accepted, Calls
      <3>2. cred[c].pairing \in PairingRequests
        BY <3>1 DEF PairingIInv, CredentialsHaveOwners, PairingTypeOK, Cred
      <3> QED BY <2>1, <3>1, <3>2 DEF Authenticate, PairingIInv, PairingTypeOK, Rows, ends
    <2>2. CASE RefuseCall(op, c)
      BY <2>2 DEF RefuseCall, Ends, PairingIInv, PairingTypeOK, Rows, ends
    <2> QED BY <1>2, <2>1, <2>2
  <1>3. ASSUME NEW c \in Creds, NEW d \in Creds, RetryPrepare(c, d)
        PROVE  /\ UNCHANGED <<Rows, ends, company>>
               /\ vault \subseteq vault' /\ vault' \subseteq Creds
               /\ caller' \subseteq caller
    BY <1>3 DEF RetryPrepare, Ends, Heard, PairingIInv, PairingTypeOK, Rows, ends
  <1>4. CASE SoftDeleteCompany \/ RestoreCompany
    BY <1>4 DEF SoftDeleteCompany, RestoreCompany, PairingIInv, PairingTypeOK, Rows, ends, CompanyStatus
  <1> QED BY <1>1, <1>2, <1>3, <1>4 DEF Aside, PairingIInv, PairingTypeOK

\* They keep the invariant.
LEMMA AsideKeeps ==
    ASSUME PairingIInv, Aside
    PROVE  PairingIInv'
  <1>1. PairingTypeOK'
    BY AsideMoves DEF PairingIInv, PairingTypeOK, Rows, ends
  <1>2. CredentialsHaveOwners'
    BY AsideMoves DEF PairingIInv, CredentialsHaveOwners, Rows
  <1>3. CurrentFollowsPairing' /\ CredentialsFollowPairing' /\ RequestsFollowPairing'
    BY AsideMoves DEF PairingIInv, CurrentFollowsPairing, CredentialsFollowPairing, Live,
         RequestsFollowPairing, Rows
  <1>4. NameHasOneHolder'
    BY AsideMoves DEF PairingIInv, NameHasOneHolder, WorkspaceOf, Rows, ends
  <1> QED BY <1>1, <1>2, <1>3, <1>4 DEF PairingIInv

\* The name is taken, or a refused activation leaves its workspace behind.
LEMMA NameTaken ==
    ASSUME PairingIInv, TakeName \/ \E r \in PairingRequests : RefuseName(r)
    PROVE  /\ PairingIInv'
           /\ UNCHANGED Rows
  <1>1. /\ UNCHANGED <<Rows, company, vault, caller>>
        /\ agents \subseteq agents' /\ agents' \subseteq PairingRequests \cup {Existing}
        /\ workspaces' \subseteq PairingRequests
        /\ identity' \in PairingRequests \cup {NoOwner, Elsewhere}
        /\ identity # NoOwner => identity' = identity
    <2>1. CASE TakeName
      BY <2>1 DEF TakeName, PairingIInv, PairingTypeOK, Rows
    <2>2. CASE \E r \in PairingRequests : RefuseName(r)
      BY <2>2 DEF RefuseName, CommitWorkspace, PairingIInv, PairingTypeOK, Rows
    <2> QED BY <2>1, <2>2
  <1>2. PairingTypeOK'
    BY <1>1 DEF PairingIInv, PairingTypeOK, Rows
  <1>3. /\ CredentialsHaveOwners' /\ CurrentFollowsPairing' /\ CredentialsFollowPairing'
        /\ RequestsFollowPairing'
    BY <1>1 DEF PairingIInv, CredentialsHaveOwners, CurrentFollowsPairing, CredentialsFollowPairing,
         Live, RequestsFollowPairing, Rows
  <1>4. NameHasOneHolder'
    BY <1>1, PairingConstants DEF PairingIInv, NameHasOneHolder, WorkspaceOf, Rows
  <1> QED BY <1>1, <1>2, <1>3, <1>4 DEF PairingIInv

-----------------------------------------------------------------------------
(* PairingSteps of the pairings and their credentials.                            *)

\* Who holds the name is left alone by a step that makes no pairing active,
\* reserves no name and releases none that an active pairing needs.
LEMMA NameKept ==
    ASSUME PairingIInv, UNCHANGED ends,
           \A r \in PairingRequests :
              /\ request'[r].mode = request[r].mode
              /\ request'[r].status \in Reserving => request[r].status \in Reserving
              /\ pairing'[r].status = "active" =>
                    pairing[r].status = "active" /\ request'[r].status = request[r].status
    PROVE  NameHasOneHolder'
  BY DEF PairingIInv, NameHasOneHolder, WorkspaceOf, ends

\* The first credential of a pairing.
LEMMA ExchangeKeeps ==
    ASSUME PairingIInv, NEW r \in PairingRequests, NEW c \in Creds, Exchange(r, c), ~CodeExpires(r)
    PROVE  PairingIInv'
  <1> DEFINE given == [status |-> "pending_activation", pairing |-> r]
             opened == [status |-> "pending_activation", current |-> c, late |-> FALSE]
  <1>1. /\ request[r].status = "authorization_code_issued"
        /\ cred[c].status = "none"
        /\ request' = [request EXCEPT ![r].status = "exchanged"]
        /\ pairing' = [pairing EXCEPT ![r] = opened]
        /\ cred' = [cred EXCEPT ![c] = given]
        /\ vault \subseteq vault' /\ vault' \subseteq vault \cup {c}
        /\ UNCHANGED <<rotation, company, ends, caller>>
    BY DEF Exchange, CodeExpires, Fresh, Heard
  <1>2. pairing[r].status = "none" /\ rotation[c].status = "none" /\ cred[c].pairing = NoOwner
    BY <1>1 DEF PairingIInv, RequestsFollowPairing, CredentialsHaveOwners
  <1>3. /\ request'[r].status = "exchanged" /\ request'[r].mode = request[r].mode
        /\ \A q \in PairingRequests \ {r} : request'[q] = request[q] /\ pairing'[q] = pairing[q]
        /\ pairing'[r] = opened /\ cred'[c] = given
        /\ \A d \in Creds \ {c} : cred'[d] = cred[d]
    BY <1>1 DEF PairingIInv, PairingTypeOK, Request
  <1>4. PairingTypeOK'
    <2>1. request' \in [PairingRequests -> Request]
      BY <1>1 DEF PairingIInv, PairingTypeOK, Request, RequestStatus
    <2>2. opened \in Pairing /\ given \in Cred
      BY DEF Pairing, PairingStatus, Cred, CredStatus
    <2> HIDE DEF given, opened
    <2>3. pairing' \in [PairingRequests -> Pairing] /\ cred' \in [Creds -> Cred]
      BY <1>1, <2>2 DEF PairingIInv, PairingTypeOK
    <2> QED BY <1>1, <2>1, <2>3 DEF PairingIInv, PairingTypeOK, ends
  <1>5. CredentialsHaveOwners'
    BY <1>1, <1>2, <1>3, PairingConstants DEF PairingIInv, CredentialsHaveOwners, PairingTypeOK, Calls
  <1>6. CurrentFollowsPairing'
    BY <1>1, <1>2, <1>3, PairingConstants DEF PairingIInv, CurrentFollowsPairing
  <1>7. CredentialsFollowPairing'
    BY <1>1, <1>2, <1>3 DEF PairingIInv, CredentialsFollowPairing, Live
  <1>8. RequestsFollowPairing'
    BY <1>1, <1>2, <1>3 DEF PairingIInv, RequestsFollowPairing
  <1>9. NameHasOneHolder'
    BY <1>1, <1>3, NameKept DEF Reserving
  <1> QED BY <1>4, <1>5, <1>6, <1>7, <1>8, <1>9 DEF PairingIInv

\* The credential that activates a pairing is its current one.
LEMMA OnlyTheCurrentActivates ==
    ASSUME PairingIInv, NEW r \in PairingRequests, NEW c \in Creds, Activate(r, c)
    PROVE  /\ pairing[r].status = "pending_activation" /\ pairing[r].current = c
           /\ cred[c].status = "pending_activation" /\ cred[c].pairing = r
           /\ c \in vault
           /\ request[r].status = "exchanged"
           /\ rotation[c].status = "none"
           /\ \A d \in Creds \ {c} : cred[d].pairing = r => ~Live(d)
  <1>1. /\ pairing[r].status = "pending_activation" /\ cred[c].status = "pending_activation"
        /\ cred[c].pairing = r /\ c \in vault
    BY DEF Activate, Presents
  <1>2. pairing[r].current = c /\ \A d \in Creds \ {c} : cred[d].pairing = r => ~Live(d)
    BY <1>1 DEF PairingIInv, CredentialsFollowPairing, Live
  <1> QED BY <1>1, <1>2 DEF PairingIInv, CurrentFollowsPairing, RequestsFollowPairing

\* The activation takes the name for its own pairing.
LEMMA GrantKeeps ==
    ASSUME PairingIInv, NEW r \in PairingRequests, NEW c \in Creds, Activate(r, c), ActivateGrant(r, c)
    PROVE  PairingIInv'
  <1>1. /\ pairing[r].status = "pending_activation" /\ pairing[r].current = c
        /\ cred[c].status = "pending_activation" /\ cred[c].pairing = r /\ c \in vault
        /\ request[r].status = "exchanged" /\ rotation[c].status = "none"
        /\ \A d \in Creds \ {c} : cred[d].pairing = r => ~Live(d)
    BY OnlyTheCurrentActivates
  <1>2. /\ pairing' = [pairing EXCEPT ![r].status = "active"]
        /\ cred' = [cred EXCEPT ![c].status = "active"]
        /\ request' = [request EXCEPT ![r].status = "active"]
        /\ identity = NoOwner /\ identity' = r
        /\ agents' = agents \cup {WorkspaceOf(r)}
        /\ workspaces' \subseteq workspaces \cup {r}
        /\ UNCHANGED <<rotation, company, vault, caller>>
    BY DEF ActivateGrant, CommitWorkspace
  <1>3. /\ pairing'[r].status = "active" /\ pairing'[r].current = c
        /\ cred'[c].status = "active" /\ cred'[c].pairing = r
        /\ request'[r].status = "active" /\ request'[r].mode = request[r].mode
        /\ \A q \in PairingRequests \ {r} : pairing'[q] = pairing[q] /\ request'[q] = request[q]
        /\ \A d \in Creds \ {c} : cred'[d] = cred[d]
    BY <1>1, <1>2 DEF PairingIInv, PairingTypeOK, Pairing, Cred, Request
  <1>4. PairingTypeOK'
    <2>1. request' \in [PairingRequests -> Request]
      BY <1>2 DEF PairingIInv, PairingTypeOK, Request, RequestStatus
    <2>2. pairing' \in [PairingRequests -> Pairing] /\ cred' \in [Creds -> Cred]
      BY <1>2 DEF PairingIInv, PairingTypeOK, Pairing, PairingStatus, Cred, CredStatus
    <2> QED BY <1>2, <2>1, <2>2 DEF PairingIInv, PairingTypeOK, WorkspaceOf
  <1>5. CredentialsHaveOwners'
    BY <1>1, <1>2, <1>3, PairingConstants DEF PairingIInv, CredentialsHaveOwners, PairingTypeOK, Calls
  <1>6. CurrentFollowsPairing'
    BY <1>1, <1>2, <1>3 DEF PairingIInv, CurrentFollowsPairing
  <1>7. CredentialsFollowPairing'
    BY <1>1, <1>2, <1>3 DEF PairingIInv, CredentialsFollowPairing, Live
  <1>8. RequestsFollowPairing'
    BY <1>1, <1>2, <1>3 DEF PairingIInv, RequestsFollowPairing
  <1>9. NameHasOneHolder'
    <2>1. \A q \in PairingRequests : pairing[q].status # "active"
      BY <1>2, PairingConstants DEF PairingIInv, NameHasOneHolder
    <2>2. ASSUME NEW p \in PairingRequests, request'[p].status \in Reserving
          PROVE  \A q \in PairingRequests \ {p} : request'[q].status \notin Reserving
      BY <1>1, <1>3, <2>2 DEF PairingIInv, NameHasOneHolder, Reserving
    <2>3. ASSUME NEW p \in PairingRequests, pairing'[p].status = "active"
          PROVE  identity' = p /\ WorkspaceOf(p)' \in agents' /\ request'[p].status = "active"
      BY <1>2, <1>3, <2>1, <2>3 DEF WorkspaceOf
    <2> QED BY <2>2, <2>3 DEF NameHasOneHolder
  <1> QED BY <1>4, <1>5, <1>6, <1>7, <1>8, <1>9 DEF PairingIInv

\* A successor of the current credential.
LEMMA PrepareKeeps ==
    ASSUME PairingIInv, NEW c \in Creds, NEW d \in Creds, PrepareRotation(c, d)
    PROVE  PairingIInv'
  <1> DEFINE r == cred[c].pairing
             given == [status |-> "pending_activation", pairing |-> r]
             row == [status |-> "pending_activation", pred |-> pairing[r].current,
                     late |-> FALSE]
  <1>1. /\ r \in PairingRequests
        /\ pairing[r].status = "active"
        /\ ~RotationPending(r)
        /\ cred[d].status = "none"
        /\ cred' = [cred EXCEPT ![d] = given]
        /\ rotation' = [rotation EXCEPT ![d] = row]
        /\ caller' \subseteq caller
        /\ vault \subseteq vault' /\ vault' \subseteq vault \cup {d}
        /\ UNCHANGED <<request, pairing, company, ends>>
    <2>1. [op |-> "rotate", cred |-> c] \in caller
      BY DEF PrepareRotation, Ends
    <2>2. r \in PairingRequests
      BY <2>1 DEF PairingIInv, CredentialsHaveOwners
    <2> QED BY <2>2 DEF PrepareRotation, Ends, Fresh, Heard
  <1>2. /\ cred'[d] = given /\ rotation'[d] = row
        /\ cred[d].pairing = NoOwner /\ NoOwner \notin PairingRequests
        /\ \A e \in Creds \ {d} : cred'[e] = cred[e] /\ rotation'[e] = rotation[e]
        /\ pairing[r].current \in Creds \ {d}
    BY <1>1, PairingConstants DEF PairingIInv, PairingTypeOK, CredentialsHaveOwners, CurrentFollowsPairing
  <1>3. \A e \in Creds : cred[e].pairing = r => cred[e].status # "pending_activation"
    BY <1>1 DEF PairingIInv, CredentialsFollowPairing, Live, RotationPending
  <1>4. PairingTypeOK'
    <2>1. given \in Cred /\ row \in Rotation
      BY <1>1, <1>2 DEF Cred, CredStatus, Rotation, RotationStatus
    <2> HIDE DEF given, row
    <2> QED BY <1>1, <2>1 DEF PairingIInv, PairingTypeOK, ends
  <1>5. CredentialsHaveOwners'
    BY <1>1, <1>2 DEF PairingIInv, CredentialsHaveOwners, PairingTypeOK, Calls
  <1>6. CurrentFollowsPairing'
    BY <1>1, <1>2 DEF PairingIInv, CurrentFollowsPairing
  <1>7. CredentialsFollowPairing'
    <2>1. ASSUME NEW e \in Creds \ {d}, Live(e)'
          PROVE  cred'[e].pairing # r \/ cred'[e].status = "active"
      BY <1>2, <1>3, <2>1 DEF Live
    <2> QED BY <1>1, <1>2, <1>3, <2>1 DEF PairingIInv, CredentialsFollowPairing, Live
  <1>8. RequestsFollowPairing'
    BY <1>1 DEF PairingIInv, RequestsFollowPairing
  <1>9. NameHasOneHolder'
    BY <1>1, NameKept
  <1> QED BY <1>4, <1>5, <1>6, <1>7, <1>8, <1>9 DEF PairingIInv

\* The successor takes the place of the current credential.
RotationSucceeds(c) == ActivateRotation(c) /\ ~rotation[c].late

\* The predecessor of the rotation is the current credential of its pairing,
\* and no third one is live.
LEMMA SuccessorReplacesTheCurrent ==
    ASSUME PairingIInv, NEW c \in Creds, RotationSucceeds(c)
    PROVE  LET r == cred[c].pairing
               p == rotation[c].pred
           IN  /\ r \in PairingRequests /\ p \in Creds \ {c} /\ c \in vault
               /\ pairing[r].status = "active" /\ pairing[r].current = p
               /\ cred[p].pairing = r /\ cred[p].status = "active"
               /\ cred[c].status = "pending_activation"
               /\ \A d \in Creds \ {p, c} : cred[d].pairing = r => ~Live(d)
  <1> DEFINE r == cred[c].pairing
             p == rotation[c].pred
  <1>1. /\ c \in vault /\ r \in PairingRequests /\ pairing[r].status = "active"
        /\ cred[c].status = "pending_activation" /\ cred[p].status = "active"
    <2>1. cred[c].status = "pending_activation"
      BY DEF RotationSucceeds, ActivateRotation
    <2>2. r \in PairingRequests
      BY <2>1 DEF PairingIInv, CredentialsFollowPairing, Live
    <2> QED BY <2>1, <2>2 DEF RotationSucceeds, ActivateRotation, Presents
  <1>2. p = pairing[r].current /\ \A d \in Creds :
           cred[d].pairing = r /\ cred[d].status = "pending_activation" => d = c
    BY <1>1 DEF PairingIInv, CredentialsFollowPairing, Live
  <1>3. p \in Creds /\ cred[p].pairing = r
    BY <1>1, <1>2 DEF PairingIInv, CurrentFollowsPairing
  <1>4. \A d \in Creds \ {p, c} : cred[d].pairing = r => ~Live(d)
    BY <1>1, <1>2 DEF PairingIInv, CredentialsFollowPairing, Live
  <1> QED BY <1>1, <1>2, <1>3, <1>4

\* The rotation keeps the invariant.
LEMMA RotationKeeps ==
    ASSUME PairingIInv, NEW c \in Creds, RotationSucceeds(c)
    PROVE  PairingIInv'
  <1> DEFINE r == cred[c].pairing
             p == rotation[c].pred
  <1>1. /\ r \in PairingRequests /\ p \in Creds \ {c} /\ c \in vault
        /\ pairing[r].status = "active" /\ pairing[r].current = p
        /\ cred[p].pairing = r /\ cred[p].status = "active"
        /\ cred[c].status = "pending_activation" /\ cred[c].pairing = r
        /\ \A d \in Creds \ {p, c} : cred[d].pairing = r => ~Live(d)
    BY SuccessorReplacesTheCurrent
  <1>2. /\ cred' = [cred EXCEPT ![p].status = "superseded", ![c].status = "active"]
        /\ pairing' = [pairing EXCEPT ![r].current = c]
        /\ rotation' = [rotation EXCEPT ![c].status = "active"]
        /\ UNCHANGED <<request, company, ends, vault, caller>>
    BY DEF RotationSucceeds, ActivateRotation
  <1>3. /\ cred'[p].status = "superseded" /\ cred'[p].pairing = r
        /\ cred'[c].status = "active" /\ cred'[c].pairing = r
        /\ pairing'[r].status = "active" /\ pairing'[r].current = c
        /\ \A q \in PairingRequests \ {r} : pairing'[q] = pairing[q]
        /\ \A d \in Creds \ {p, c} : cred'[d] = cred[d]
        /\ \A d \in Creds \ {c} : rotation'[d] = rotation[d]
    <2> HIDE DEF r, p
    <2> QED BY <1>1, <1>2 DEF PairingIInv, PairingTypeOK, Pairing, Cred, Rotation
  <1>4. PairingTypeOK'
    <2>1. pairing' \in [PairingRequests -> Pairing]
      BY <1>1, <1>2 DEF PairingIInv, PairingTypeOK, Pairing
    <2>2. cred' \in [Creds -> Cred]
      BY <1>1, <1>2 DEF PairingIInv, PairingTypeOK, Cred, CredStatus
    <2>3. rotation' \in [Creds -> Rotation]
      BY <1>1, <1>2 DEF PairingIInv, PairingTypeOK, Rotation, RotationStatus
    <2> QED BY <1>2, <2>1, <2>2, <2>3 DEF PairingIInv, PairingTypeOK, ends
  <1> HIDE DEF r, p
  <1>5. CredentialsHaveOwners'
    BY <1>1, <1>2, <1>3, PairingConstants DEF PairingIInv, CredentialsHaveOwners, PairingTypeOK, Calls
  <1>6. CurrentFollowsPairing'
    <2>1. ASSUME NEW q \in PairingRequests \ {r},
                 pairing'[q].status \in {"pending_activation", "active"}
          PROVE  /\ pairing[q].current \in Creds \ {p, c}
                 /\ cred[pairing[q].current].pairing = q
      BY <1>1, <1>3, <2>1 DEF PairingIInv, CurrentFollowsPairing
    <2>2. ASSUME NEW q \in PairingRequests \ {r}
          PROVE  /\ pairing'[q].status = pairing[q].status
                 /\ pairing'[q].current = pairing[q].current
      BY <1>3
    <2>3. ASSUME NEW d \in Creds \ {p, c}
          PROVE  cred'[d] = cred[d] /\ rotation'[d] = rotation[d]
      BY <1>3
    <2>4. vault' = vault
      BY <1>2
    <2>5. ASSUME NEW q \in PairingRequests \ {r},
                 pairing'[q].status \in {"pending_activation", "active"}
          PROVE  /\ pairing'[q].current \in Creds
                 /\ cred'[pairing'[q].current].pairing = q
                 /\ cred'[pairing'[q].current].status = pairing'[q].status
                 /\ pairing'[q].status = "pending_activation" =>
                       rotation'[pairing'[q].current].status = "none"
                 /\ pairing'[q].status = "active" => pairing'[q].current \in vault'
      BY <2>1, <2>2, <2>3, <2>4, <2>5 DEF PairingIInv, CurrentFollowsPairing
    <2>6. vault' = vault /\ c \in vault
      BY <1>1, <1>2
    <2> QED BY <1>3, <2>5, <2>6 DEF CurrentFollowsPairing
  <1>7. CredentialsFollowPairing'
    <2>1. ASSUME NEW d \in Creds \ {p, c}, Live(d)'
          PROVE  /\ cred'[d] = cred[d] /\ rotation'[d] = rotation[d]
                 /\ cred[d].pairing \in PairingRequests \ {r}
                 /\ pairing'[cred[d].pairing] = pairing[cred[d].pairing]
      BY <1>1, <1>3, <2>1 DEF PairingIInv, CredentialsFollowPairing, Live
    <2>2. ASSUME NEW d \in Creds, cred'[d].pairing \in PairingRequests \ {r}
          PROVE  cred'[d] = cred[d]
      BY <1>3, <2>2
    <2>3. ASSUME NEW d \in Creds \ {p, c}, Live(d)'
          PROVE  LET q == cred'[d].pairing
                 IN  /\ q \in PairingRequests
                     /\ \/ /\ pairing'[q].status = "pending_activation"
                           /\ pairing'[q].current = d
                           /\ cred'[d].status = "pending_activation"
                        \/ /\ pairing'[q].status = "active"
                           /\ cred'[d].status = "active" <=> d = pairing'[q].current
                           /\ cred'[d].status = "pending_activation" =>
                                 /\ rotation'[d].status = "pending_activation"
                                 /\ rotation'[d].pred = pairing'[q].current
                                 /\ \A e \in Creds :
                                       cred'[e].pairing = q
                                          /\ cred'[e].status = "pending_activation" => e = d
      BY <2>1, <2>2, <2>3 DEF PairingIInv, CredentialsFollowPairing, Live
    <2> QED BY <1>1, <1>3, <2>3 DEF CredentialsFollowPairing, Live
  <1>8. RequestsFollowPairing'
    BY <1>1, <1>2, <1>3 DEF PairingIInv, RequestsFollowPairing
  <1>9. NameHasOneHolder'
    BY <1>1, <1>2, <1>3, NameKept
  <1> QED BY <1>4, <1>5, <1>6, <1>7, <1>8, <1>9 DEF PairingIInv

-----------------------------------------------------------------------------
(* PairingSteps that only end what there is.                                      *)

Open == {"pending_activation", "active"}

\* No pairing and no credential is made or opened, the current credential
\* stays as long as its pairing, and a pairing ends with all its credentials.
OnlyEnds ==
    /\ vault' = vault /\ caller' = caller \cap caller' /\ UNCHANGED ends
    /\ \A c \in Creds :
          /\ cred'[c].pairing = cred[c].pairing
          /\ \/ cred'[c].status = cred[c].status
             \/ cred[c].status # "none" /\ cred'[c].status \notin Open \cup {"none"}
          /\ rotation[c].status = "none" => rotation'[c].status = "none"
          /\ cred'[c].status = "pending_activation" =>
                /\ rotation[c].status = "pending_activation" =>
                      rotation'[c].status = "pending_activation"
                /\ rotation'[c].pred = rotation[c].pred
    /\ \A r \in PairingRequests :
          /\ \/ pairing'[r].status = pairing[r].status
             \/ pairing[r].status # "none" /\ pairing'[r].status \notin Open \cup {"none"}
          /\ pairing'[r].status \in Open =>
                /\ pairing'[r].current = pairing[r].current
                /\ cred'[pairing[r].current].status = cred[pairing[r].current].status
                /\ request'[r].status = request[r].status
          /\ \A c \in Creds : cred[c].pairing = r /\ pairing'[r].status \notin Open =>
                cred'[c].status \notin Open
          /\ request'[r].mode = request[r].mode
          /\ request'[r].status # request[r].status =>
                request'[r].status \in {"canceled", "expired", "authorization_code_expired",
                                        "purged"}

\* A step that only ends rows keeps the invariant.
LEMMA EndsKeep ==
    ASSUME PairingIInv, PairingTypeOK', OnlyEnds
    PROVE  PairingIInv'
  <1>1. CredentialsHaveOwners'
    <2>1. \A k \in caller' : k \in caller /\ k.cred \in Creds
      BY DEF OnlyEnds, PairingIInv, PairingTypeOK, Calls
    <2>2. \A c \in Creds : /\ cred'[c].status = "none" <=> cred[c].status = "none"
                           /\ cred'[c].pairing = cred[c].pairing
                           /\ rotation[c].status = "none" => rotation'[c].status = "none"
      BY DEF OnlyEnds
    <2> QED BY <2>1, <2>2 DEF PairingIInv, CredentialsHaveOwners
  <1>2. ASSUME NEW r \in PairingRequests, pairing'[r].status \in Open
        PROVE  /\ pairing'[r].status = pairing[r].status
               /\ pairing'[r].current = pairing[r].current
               /\ pairing[r].current \in Creds
               /\ cred'[pairing[r].current].status = cred[pairing[r].current].status
               /\ cred'[pairing[r].current].pairing = cred[pairing[r].current].pairing
               /\ request'[r].status = request[r].status
    BY <1>2 DEF OnlyEnds, PairingIInv, CurrentFollowsPairing, Open
  <1>3. CurrentFollowsPairing'
    <2>1. vault' = vault
      BY DEF OnlyEnds
    <2>2. \A c \in Creds : rotation[c].status = "none" => rotation'[c].status = "none"
      BY DEF OnlyEnds
    <2>3. ASSUME NEW r \in PairingRequests, pairing'[r].status \in Open
          PROVE  /\ pairing'[r].current \in Creds
                 /\ cred'[pairing'[r].current].pairing = r
                 /\ cred'[pairing'[r].current].status = pairing'[r].status
                 /\ pairing'[r].status = "pending_activation" =>
                       rotation'[pairing'[r].current].status = "none"
                 /\ pairing'[r].status = "active" => pairing'[r].current \in vault'
      BY <1>2, <2>1, <2>2, <2>3 DEF PairingIInv, CurrentFollowsPairing, Open
    <2> QED BY <2>3 DEF CurrentFollowsPairing, Open
  <1>4. CredentialsFollowPairing'
    <2>1. ASSUME NEW c \in Creds, Live(c)'
          PROVE  /\ cred'[c].status = cred[c].status /\ cred'[c].pairing = cred[c].pairing
                 /\ Live(c) /\ cred[c].pairing \in PairingRequests
                 /\ pairing'[cred[c].pairing].status \in Open
      <3>1. cred'[c].status = cred[c].status /\ cred'[c].pairing = cred[c].pairing /\ Live(c)
        BY <2>1 DEF OnlyEnds, Live, Open
      <3>2. cred[c].pairing \in PairingRequests
        BY <3>1 DEF PairingIInv, CredentialsFollowPairing
      <3> QED BY <2>1, <3>1, <3>2 DEF OnlyEnds, Live, Open
    <2>2. ASSUME NEW c \in Creds, Live(c)'
          PROVE  LET r == cred'[c].pairing
                 IN  /\ r \in PairingRequests
                     /\ \/ /\ pairing'[r].status = "pending_activation"
                           /\ pairing'[r].current = c
                           /\ cred'[c].status = "pending_activation"
                        \/ /\ pairing'[r].status = "active"
                           /\ cred'[c].status = "active" <=> c = pairing'[r].current
                           /\ cred'[c].status = "pending_activation" =>
                                 /\ rotation'[c].status = "pending_activation"
                                 /\ rotation'[c].pred = pairing'[r].current
                                 /\ \A d \in Creds :
                                       cred'[d].pairing = r
                                          /\ cred'[d].status = "pending_activation" => d = c
      <3> DEFINE r == cred[c].pairing
      <3>1. /\ r \in PairingRequests /\ cred'[c].pairing = r /\ cred'[c].status = cred[c].status
            /\ pairing'[r].status = pairing[r].status /\ pairing'[r].current = pairing[r].current
        BY <1>2, <2>1, <2>2
      <3>2. \/ /\ pairing[r].status = "pending_activation"
               /\ pairing[r].current = c
               /\ cred[c].status = "pending_activation"
            \/ /\ pairing[r].status = "active"
               /\ cred[c].status = "active" <=> c = pairing[r].current
               /\ cred[c].status = "pending_activation" =>
                     /\ rotation[c].status = "pending_activation"
                     /\ rotation[c].pred = pairing[r].current
                     /\ \A d \in Creds :
                           cred[d].pairing = r /\ cred[d].status = "pending_activation" => d = c
        BY <2>1, <2>2 DEF PairingIInv, CredentialsFollowPairing
      <3>3. \A d \in Creds : cred'[d].status = "pending_activation" =>
               cred[d].status = "pending_activation" /\ cred'[d].pairing = cred[d].pairing
        BY DEF OnlyEnds, Open
      <3>4. /\ cred'[c].status = "pending_activation"
            /\ rotation[c].status = "pending_activation"
            => rotation'[c].status = "pending_activation" /\ rotation'[c].pred = rotation[c].pred
        BY DEF OnlyEnds
      <3> QED BY <3>1, <3>2, <3>3, <3>4
    <2> QED BY <2>2 DEF CredentialsFollowPairing
  <1>5. RequestsFollowPairing'
    BY <1>2 DEF OnlyEnds, PairingIInv, RequestsFollowPairing, Open
  <1>6. NameHasOneHolder'
    BY <1>2, NameKept DEF OnlyEnds, Reserving, Open
  <1> QED BY <1>1, <1>3, <1>4, <1>5, <1>6 DEF PairingIInv

\* A credential that is not over has a pairing that is not over, and only the
\* current credential of a pairing has its status.
LEMMA LiveHasOpenPairing ==
    ASSUME PairingIInv, NEW c \in Creds, cred[c].status \in Open
    PROVE  /\ cred[c].pairing \in PairingRequests
           /\ pairing[cred[c].pairing].status \in Open
           /\ pairing[cred[c].pairing].status = "pending_activation" =>
                 pairing[cred[c].pairing].current = c
  BY DEF PairingIInv, CredentialsFollowPairing, Live, Open

\* What a row says of the request and the credential of an open pairing.
LEMMA OpenPairing ==
    ASSUME PairingIInv, NEW r \in PairingRequests, pairing[r].status \in Open
    PROVE  /\ pairing[r].current \in Creds
           /\ cred[pairing[r].current].pairing = r
           /\ cred[pairing[r].current].status = pairing[r].status
           /\ pairing[r].status = "pending_activation" =>
                 rotation[pairing[r].current].status = "none"
           /\ request[r].status = IF pairing[r].status = "active" THEN "active"
                                  ELSE "exchanged"
  BY DEF PairingIInv, CurrentFollowsPairing, RequestsFollowPairing, NameHasOneHolder, Open

\* The pairings in `ended' end with their credentials, and nothing else of
\* them changes: the form of disconnect, cancel, revocation and closing.
EndPairings(ended) ==
    /\ UNCHANGED <<rotation, ends, vault>>
    /\ caller' \subseteq caller
    /\ \A r \in PairingRequests :
          /\ pairing'[r].current = pairing[r].current
          /\ pairing'[r].status # pairing[r].status =>
                /\ r \in ended
                /\ pairing[r].status # "none"
                /\ pairing'[r].status \notin Open \cup {"none"}
          /\ r \in ended => pairing'[r].status \notin Open
          /\ request'[r].mode = request[r].mode
          /\ request'[r].status # request[r].status =>
                r \in ended /\ request'[r].status = "canceled"
    /\ \A c \in Creds :
          /\ cred'[c].pairing = cred[c].pairing
          /\ cred'[c].status # cred[c].status =>
                /\ cred[c].pairing \in ended
                /\ cred'[c].status \notin Open \cup {"none"}
          /\ cred[c].pairing \in ended => cred'[c].status \notin Open

\* Ending pairings with their credentials is such a step.
LEMMA EndPairingsOnlyEnds ==
    ASSUME PairingIInv, NEW ended \in SUBSET PairingRequests, EndPairings(ended)
    PROVE  OnlyEnds
  <1>1. \A c \in Creds : cred[c].pairing \in PairingRequests => cred[c].status # "none"
    BY PairingConstants DEF PairingIInv, CredentialsHaveOwners
  <1>2. ASSUME NEW c \in Creds
        PROVE  /\ cred'[c].pairing = cred[c].pairing
               /\ \/ cred'[c].status = cred[c].status
                  \/ cred[c].status # "none" /\ cred'[c].status \notin Open \cup {"none"}
    BY <1>1 DEF EndPairings
  <1>3. ASSUME NEW r \in PairingRequests
        PROVE  /\ \/ pairing'[r].status = pairing[r].status
                  \/ pairing[r].status # "none" /\ pairing'[r].status \notin Open \cup {"none"}
               /\ pairing'[r].status \in Open =>
                     /\ pairing'[r].current = pairing[r].current
                     /\ cred'[pairing[r].current].status = cred[pairing[r].current].status
                     /\ request'[r].status = request[r].status
    <2>1. CASE r \in ended
      BY <2>1 DEF EndPairings
    <2>2. CASE r \notin ended
      <3>1. pairing'[r].status = pairing[r].status /\ request'[r].status = request[r].status
            /\ pairing'[r].current = pairing[r].current
        BY <2>2 DEF EndPairings
      <3>2. pairing[r].status \in Open =>
               cred'[pairing[r].current].status = cred[pairing[r].current].status
        BY <2>2, OpenPairing DEF EndPairings
      <3> QED BY <3>1, <3>2
    <2> QED BY <2>1, <2>2
  <1>4. ASSUME NEW r \in PairingRequests, NEW c \in Creds, cred[c].pairing = r,
               pairing'[r].status \notin Open
        PROVE  cred'[c].status \notin Open
    <2>1. CASE r \in ended
      BY <2>1, <1>4 DEF EndPairings
    <2>2. CASE r \notin ended
      BY <2>2, <1>4, LiveHasOpenPairing DEF EndPairings
    <2> QED BY <2>1, <2>2
  <1>5. /\ UNCHANGED <<rotation, ends, vault>> /\ caller' = caller \cap caller'
        /\ \A r \in PairingRequests :
              /\ request'[r].mode = request[r].mode
              /\ request'[r].status # request[r].status => request'[r].status = "canceled"
    BY DEF EndPairings
  <1> QED BY <1>2, <1>3, <1>4, <1>5 DEF OnlyEnds

\* The connector disconnects.
LEMMA DisconnectEnds ==
    ASSUME PairingIInv, NEW c \in Creds, Disconnect(c)
    PROVE  PairingTypeOK' /\ OnlyEnds
  <1> DEFINE r == cred[c].pairing
  <1>1. r \in PairingRequests /\ caller' \subseteq caller
    BY DEF Disconnect, Ends, PairingIInv, CredentialsHaveOwners
  <1>2. /\ pairing[r].status = "active"
        /\ pairing' = [pairing EXCEPT ![r].status = "disconnected"]
        /\ cred' = [d \in Creds |->
                      IF cred[d].pairing = r /\ cred[d].status \notin {"superseded", "expired"}
                      THEN [cred[d] EXCEPT !.status = "disconnected"] ELSE cred[d]]
        /\ UNCHANGED <<request, rotation, company, ends, vault>>
    BY DEF Disconnect
  <1> HIDE DEF r
  <1>3. PairingTypeOK'
    <2>1. pairing' \in [PairingRequests -> Pairing]
      BY <1>1, <1>2 DEF PairingIInv, PairingTypeOK, Pairing, PairingStatus
    <2>2. cred' \in [Creds -> Cred]
      BY <1>2 DEF PairingIInv, PairingTypeOK, Cred, CredStatus
    <2> QED BY <1>1, <1>2, <2>1, <2>2 DEF PairingIInv, PairingTypeOK, ends
  <1>4. EndPairings({r})
    <2>1. \A q \in PairingRequests : /\ pairing'[q].current = pairing[q].current
                                     /\ pairing'[q].status = IF q = r THEN "disconnected"
                                                             ELSE pairing[q].status
      BY <1>1, <1>2 DEF PairingIInv, PairingTypeOK, Pairing
    <2>2. \A d \in Creds :
             /\ cred'[d].pairing = cred[d].pairing
             /\ cred'[d].status =
                   IF cred[d].pairing = r /\ cred[d].status \notin {"superseded", "expired"}
                   THEN "disconnected" ELSE cred[d].status
      BY <1>2 DEF PairingIInv, PairingTypeOK, Cred
    <2> QED BY <1>1, <1>2, <2>1, <2>2 DEF EndPairings, Open
  <1> QED BY <1>1, <1>3, <1>4, EndPairingsOnlyEnds

\* The desktop cancels before the activation.
LEMMA CancelEnds ==
    ASSUME PairingIInv, NEW c \in Creds, Cancel(c)
    PROVE  PairingTypeOK' /\ OnlyEnds
  <1> DEFINE r == cred[c].pairing
  <1>1. r \in PairingRequests /\ caller' \subseteq caller
    BY DEF Cancel, Ends, PairingIInv, CredentialsHaveOwners
  <1>2. /\ pairing[r].status = "pending_activation"
        /\ pairing' = [pairing EXCEPT ![r].status = "canceled"]
        /\ cred' = [d \in Creds |->
                      IF cred[d].pairing = r /\ cred[d].status = "pending_activation"
                      THEN [cred[d] EXCEPT !.status = "canceled"] ELSE cred[d]]
        /\ request' = [request EXCEPT ![r].status = "canceled"]
        /\ UNCHANGED <<rotation, company, ends, vault>>
    BY DEF Cancel
  <1> HIDE DEF r
  <1>3. PairingTypeOK'
    <2>1. pairing' \in [PairingRequests -> Pairing]
      BY <1>1, <1>2 DEF PairingIInv, PairingTypeOK, Pairing, PairingStatus
    <2>2. cred' \in [Creds -> Cred]
      BY <1>2 DEF PairingIInv, PairingTypeOK, Cred, CredStatus
    <2>3. request' \in [PairingRequests -> Request]
      BY <1>1, <1>2 DEF PairingIInv, PairingTypeOK, Request, RequestStatus
    <2> QED BY <1>1, <1>2, <2>1, <2>2, <2>3 DEF PairingIInv, PairingTypeOK, ends
  <1>4. EndPairings({r})
    <2>1. \A q \in PairingRequests : /\ pairing'[q].current = pairing[q].current
                                     /\ pairing'[q].status = IF q = r THEN "canceled"
                                                             ELSE pairing[q].status
                                     /\ request'[q].mode = request[q].mode
                                     /\ request'[q].status = IF q = r THEN "canceled"
                                                             ELSE request[q].status
      BY <1>1, <1>2 DEF PairingIInv, PairingTypeOK, Pairing, Request
    <2>2. \A d \in Creds :
             /\ cred'[d].pairing = cred[d].pairing
             /\ cred'[d].status =
                   IF cred[d].pairing = r /\ cred[d].status = "pending_activation"
                   THEN "canceled" ELSE cred[d].status
      BY <1>2 DEF PairingIInv, PairingTypeOK, Cred
    <2>3. \A d \in Creds : cred[d].pairing = r => cred[d].status # "active"
      BY <1>1, <1>2 DEF PairingIInv, CredentialsFollowPairing, Live
    <2> QED BY <1>1, <1>2, <2>1, <2>2, <2>3 DEF EndPairings, Open
  <1> QED BY <1>1, <1>3, <1>4, EndPairingsOnlyEnds

\* The master revokes a pairing.
LEMMA RevokeEnds ==
    ASSUME PairingIInv, NEW r \in PairingRequests, Revoke(r)
    PROVE  PairingTypeOK' /\ OnlyEnds
  <1>1. /\ pairing[r].status \in Revocable
        /\ pairing' = [pairing EXCEPT ![r].status = "revoked"]
        /\ cred' = [d \in Creds |->
                      IF cred[d].pairing = r /\ cred[d].status \notin Ended
                      THEN [cred[d] EXCEPT !.status = "revoked"] ELSE cred[d]]
        /\ UNCHANGED <<request, rotation, company, ends, vault, caller>>
    BY DEF Revoke, RevokedCreds, PairingIInv, PairingTypeOK, Cred
  <1>2. PairingTypeOK'
    <2>1. pairing' \in [PairingRequests -> Pairing]
      BY <1>1 DEF PairingIInv, PairingTypeOK, Pairing, PairingStatus
    <2>2. cred' \in [Creds -> Cred]
      BY <1>1 DEF PairingIInv, PairingTypeOK, Cred, CredStatus
    <2> QED BY <1>1, <2>1, <2>2 DEF PairingIInv, PairingTypeOK, ends
  <1>3. EndPairings({r})
    <2>1. \A q \in PairingRequests : /\ pairing'[q].current = pairing[q].current
                                     /\ pairing'[q].status = IF q = r THEN "revoked"
                                                             ELSE pairing[q].status
      BY <1>1 DEF PairingIInv, PairingTypeOK, Pairing
    <2>2. \A d \in Creds :
             /\ cred'[d].pairing = cred[d].pairing
             /\ cred'[d].status =
                   IF cred[d].pairing = r /\ cred[d].status \notin Ended
                   THEN "revoked" ELSE cred[d].status
      BY <1>1 DEF PairingIInv, PairingTypeOK, Cred
    <2> QED BY <1>1, <2>1, <2>2 DEF EndPairings, Open, Ended, Revocable
  <1> QED BY <1>2, <1>3, EndPairingsOnlyEnds

\* The company is closed.
LEMMA CloseEnds ==
    ASSUME PairingIInv, CloseCompany
    PROVE  PairingTypeOK' /\ OnlyEnds
  <1>1. /\ pairing' = [r \in PairingRequests |->
                         IF pairing[r].status \in {"pending_activation", "active"}
                         THEN [pairing[r] EXCEPT !.status = "revoked"] ELSE pairing[r]]
        /\ cred' = [d \in Creds |->
                      IF cred[d].pairing # NoOwner /\ cred[d].status \notin Ended
                      THEN [cred[d] EXCEPT !.status = "revoked"] ELSE cred[d]]
        /\ company' = "closed"
        /\ UNCHANGED <<request, rotation, ends, vault, caller>>
    BY DEF CloseCompany, RevokedCreds, PairingIInv, PairingTypeOK, Cred
  <1>2. PairingTypeOK'
    <2>1. pairing' \in [PairingRequests -> Pairing]
      BY <1>1 DEF PairingIInv, PairingTypeOK, Pairing, PairingStatus
    <2>2. cred' \in [Creds -> Cred]
      BY <1>1 DEF PairingIInv, PairingTypeOK, Cred, CredStatus
    <2> QED BY <1>1, <2>1, <2>2 DEF PairingIInv, PairingTypeOK, ends, CompanyStatus
  <1>3. EndPairings(PairingRequests)
    <2>1. \A q \in PairingRequests : /\ pairing'[q].current = pairing[q].current
                                     /\ pairing'[q].status =
                                           IF pairing[q].status \in {"pending_activation", "active"}
                                           THEN "revoked" ELSE pairing[q].status
      BY <1>1 DEF PairingIInv, PairingTypeOK, Pairing
    <2>2. \A d \in Creds :
             /\ cred'[d].pairing = cred[d].pairing
             /\ cred'[d].status =
                   IF cred[d].pairing # NoOwner /\ cred[d].status \notin Ended
                   THEN "revoked" ELSE cred[d].status
      BY <1>1 DEF PairingIInv, PairingTypeOK, Cred
    <2>3. \A d \in Creds : cred[d].pairing \in PairingRequests \cup {NoOwner}
      BY DEF PairingIInv, PairingTypeOK, Cred
    <2> QED BY <1>1, <2>1, <2>2, <2>3, PairingConstants DEF EndPairings, Open, Ended
  <1> QED BY <1>2, <1>3, EndPairingsOnlyEnds

\* A provisional pairing is found expired at its activation.
LEMMA ExpirePendingEnds ==
    ASSUME PairingIInv, NEW r \in PairingRequests, NEW c \in Creds, Activate(r, c), ExpirePending(r, c)
    PROVE  PairingTypeOK' /\ OnlyEnds
  <1>1. /\ pairing[r].status = "pending_activation" /\ pairing[r].current = c
        /\ cred[c].status = "pending_activation" /\ cred[c].pairing = r
        /\ \A d \in Creds \ {c} : cred[d].pairing = r => ~Live(d)
    BY OnlyTheCurrentActivates
  <1>2. /\ pairing' = [pairing EXCEPT ![r].status = "expired"]
        /\ cred' = [cred EXCEPT ![c].status = "expired"]
        /\ UNCHANGED <<request, rotation, company, ends, vault, caller>>
    BY DEF ExpirePending
  <1>3. PairingTypeOK'
    <2>1. pairing' \in [PairingRequests -> Pairing]
      BY <1>2 DEF PairingIInv, PairingTypeOK, Pairing, PairingStatus
    <2>2. cred' \in [Creds -> Cred]
      BY <1>2 DEF PairingIInv, PairingTypeOK, Cred, CredStatus
    <2> QED BY <1>2, <2>1, <2>2 DEF PairingIInv, PairingTypeOK, ends
  <1>4. EndPairings({r})
    <2>1. \A q \in PairingRequests : /\ pairing'[q].current = pairing[q].current
                                     /\ pairing'[q].status = IF q = r THEN "expired"
                                                             ELSE pairing[q].status
      BY <1>2 DEF PairingIInv, PairingTypeOK, Pairing
    <2>2. \A d \in Creds : /\ cred'[d].pairing = cred[d].pairing
                           /\ cred'[d].status = IF d = c THEN "expired" ELSE cred[d].status
      BY <1>2 DEF PairingIInv, PairingTypeOK, Cred
    <2> QED BY <1>1, <1>2, <2>1, <2>2 DEF EndPairings, Open, Live
  <1> QED BY <1>3, <1>4, EndPairingsOnlyEnds

\* A pending successor never is the current credential.
LEMMA SuccessorIsNotCurrent ==
    ASSUME PairingIInv, NEW c \in Creds,
           cred[c].status = "pending_activation", rotation[c].status = "pending_activation"
    PROVE  LET r == cred[c].pairing
           IN  r \in PairingRequests /\ pairing[r].status = "active" /\ pairing[r].current # c
  <1>1. cred[c].pairing \in PairingRequests
    BY DEF PairingIInv, CredentialsFollowPairing, Live
  <1> QED BY <1>1 DEF PairingIInv, CredentialsFollowPairing, CurrentFollowsPairing, Live

\* A successor is found expired at its activation.
LEMMA LateRotationEnds ==
    ASSUME PairingIInv, NEW c \in Creds, ActivateRotation(c), rotation[c].late
    PROVE  PairingTypeOK' /\ OnlyEnds
  <1>1. /\ cred[c].status = "pending_activation" /\ rotation[c].status = "pending_activation"
        /\ rotation' = [rotation EXCEPT ![c].status = "expired"]
        /\ cred' = [cred EXCEPT ![c].status = "expired"]
        /\ UNCHANGED <<request, pairing, company, ends, vault, caller>>
    BY DEF ActivateRotation
  <1>2. PairingTypeOK'
    <2>1. cred' \in [Creds -> Cred]
      BY <1>1 DEF PairingIInv, PairingTypeOK, Cred, CredStatus
    <2>2. rotation' \in [Creds -> Rotation]
      BY <1>1 DEF PairingIInv, PairingTypeOK, Rotation, RotationStatus
    <2> QED BY <1>1, <2>1, <2>2 DEF PairingIInv, PairingTypeOK, ends
  <1>3. \A d \in Creds : /\ cred'[d].pairing = cred[d].pairing
                         /\ cred'[d].status = IF d = c THEN "expired" ELSE cred[d].status
                         /\ d # c => rotation'[d] = rotation[d]
    BY <1>1 DEF PairingIInv, PairingTypeOK, Cred
  <1>4. \A r \in PairingRequests : pairing[r].status \in Open => pairing[r].current \in Creds \ {c}
    BY <1>1, SuccessorIsNotCurrent, OpenPairing
  <1>5. \A r \in PairingRequests, d \in Creds :
           cred[d].pairing = r /\ pairing[r].status \notin Open => cred'[d].status \notin Open
    BY <1>3, LiveHasOpenPairing DEF Open
  <1> QED BY <1>1, <1>2, <1>3, <1>4, <1>5 DEF OnlyEnds, Open

\* Time passes.
LEMMA DeadlinePassesEnds ==
    ASSUME PairingIInv, DeadlinePasses
    PROVE  PairingTypeOK' /\ OnlyEnds
  <1>1. /\ request' \in [PairingRequests -> Request]
        /\ pairing' \in [PairingRequests -> Pairing]
        /\ rotation' \in [Creds -> Rotation]
        /\ \A r \in PairingRequests : /\ request'[r].status = request[r].status
                                      /\ request'[r].mode = request[r].mode
                                      /\ pairing'[r].status = pairing[r].status
                                      /\ pairing'[r].current = pairing[r].current
        /\ \A c \in Creds : /\ rotation'[c].status = rotation[c].status
                            /\ rotation'[c].pred = rotation[c].pred
        /\ UNCHANGED <<cred, company, ends, vault, caller>>
    <2>1. UNCHANGED <<cred, company, ends, vault, caller>>
      BY DEF DeadlinePasses
    <2>2. CASE \E r \in PairingRequests :
                 /\ request' = [request EXCEPT ![r].late = TRUE]
                 /\ UNCHANGED <<pairing, rotation>>
      <3>1. PICK r \in PairingRequests :
               request' = [request EXCEPT ![r].late = TRUE] /\ UNCHANGED <<pairing, rotation>>
        BY <2>2
      <3> QED BY <2>1, <3>1 DEF PairingIInv, PairingTypeOK, Request
    <2>3. CASE \E r \in PairingRequests :
                 /\ pairing' = [pairing EXCEPT ![r].late = TRUE]
                 /\ UNCHANGED <<request, rotation>>
      <3>1. PICK r \in PairingRequests :
               pairing' = [pairing EXCEPT ![r].late = TRUE] /\ UNCHANGED <<request, rotation>>
        BY <2>3
      <3> QED BY <2>1, <3>1 DEF PairingIInv, PairingTypeOK, Pairing
    <2>4. CASE \E c \in Creds :
                 /\ rotation' = [rotation EXCEPT ![c].late = TRUE]
                 /\ UNCHANGED <<request, pairing>>
      <3>1. PICK c \in Creds :
               rotation' = [rotation EXCEPT ![c].late = TRUE] /\ UNCHANGED <<request, pairing>>
        BY <2>4
      <3> QED BY <2>1, <3>1 DEF PairingIInv, PairingTypeOK, Rotation
    <2> QED BY <2>2, <2>3, <2>4 DEF DeadlinePasses
  <1>2. PairingTypeOK'
    BY <1>1 DEF PairingIInv, PairingTypeOK, ends
  <1>3. \A r \in PairingRequests, c \in Creds :
           cred[c].pairing = r /\ pairing[r].status \notin Open => cred[c].status \notin Open
    BY LiveHasOpenPairing
  <1> QED BY <1>1, <1>2, <1>3 DEF OnlyEnds

\* The sweep: every provisional pairing that is due ends with its credential,
\* and every rotation that is due with its successor.
LEMMA SweepEnds ==
    ASSUME PairingIInv, Sweep
    PROVE  PairingTypeOK' /\ OnlyEnds
  <1>1. ASSUME NEW r \in PairingRequests
        PROVE  /\ request'[r] \in Request
               /\ request'[r].mode = request[r].mode
               /\ \/ request'[r].status = request[r].status
                  \/ /\ request[r].status \in {"pending_human_approval", "approved",
                                               "authorization_code_issued"}
                     /\ request'[r].status \in {"expired", "authorization_code_expired"}
    <2>1. request[r] \in Request
      BY DEF PairingIInv, PairingTypeOK
    <2>2. request'[r] = IF ~request[r].late THEN request[r]
          ELSE CASE request[r].status = "pending_human_approval" ->
                      [request[r] EXCEPT !.status = "expired"]
                 [] request[r].status \in {"approved", "authorization_code_issued"} ->
                      [request[r] EXCEPT !.status = "authorization_code_expired"]
                 [] OTHER -> request[r]
      BY DEF Sweep
    <2>3. CASE request[r].late /\ request[r].status = "pending_human_approval"
      BY <2>1, <2>2, <2>3 DEF Request, RequestStatus
    <2>4. CASE /\ request[r].late
               /\ request[r].status \in {"approved", "authorization_code_issued"}
      BY <2>1, <2>2, <2>4 DEF Request, RequestStatus
    <2>5. CASE ~request[r].late \/ request[r].status \notin
                  {"pending_human_approval", "approved", "authorization_code_issued"}
      BY <2>1, <2>2, <2>5
    <2> QED BY <2>3, <2>4, <2>5
  <1>2. ASSUME NEW r \in PairingRequests
        PROVE  /\ pairing'[r] \in Pairing
               /\ pairing'[r].current = pairing[r].current
               /\ pairing'[r].status = IF Due(r) THEN "expired" ELSE pairing[r].status
    BY DEF Sweep, PairingIInv, PairingTypeOK, Pairing, PairingStatus
  <1>3. ASSUME NEW c \in Creds
        PROVE  /\ rotation'[c] \in Rotation
               /\ rotation'[c].pred = rotation[c].pred
               /\ rotation'[c].status = IF RotationDue(c) THEN "expired"
                                        ELSE rotation[c].status
    BY DEF Sweep, PairingIInv, PairingTypeOK, Rotation, RotationStatus
  <1>4. ASSUME NEW c \in Creds
        PROVE  /\ cred'[c] \in Cred
               /\ cred'[c].pairing = cred[c].pairing
               /\ cred'[c].status = IF /\ cred[c].status = "pending_activation"
                                       /\ RotationDue(c) \/ Due(cred[c].pairing)
                                    THEN "expired" ELSE cred[c].status
    BY DEF Sweep, PairingIInv, PairingTypeOK, Cred, CredStatus
  <1>5. PairingTypeOK'
    <2>1. request' \in [PairingRequests -> Request]
      BY <1>1 DEF Sweep
    <2>2. pairing' \in [PairingRequests -> Pairing]
      BY <1>2 DEF Sweep
    <2>3. rotation' \in [Creds -> Rotation] /\ cred' \in [Creds -> Cred]
      BY <1>3, <1>4 DEF Sweep
    <2> QED BY <2>1, <2>2, <2>3 DEF Sweep, PairingIInv, PairingTypeOK, ends
  <1>6. ASSUME NEW r \in PairingRequests, pairing'[r].status \in Open
        PROVE  /\ pairing[r].status \in Open /\ ~Due(r)
               /\ cred'[pairing[r].current].status = cred[pairing[r].current].status
               /\ request'[r].status = request[r].status
    <2>1. pairing[r].status \in Open /\ ~Due(r)
      BY <1>2, <1>6 DEF Open
    <2>2. /\ pairing[r].current \in Creds /\ cred[pairing[r].current].pairing = r
          /\ ~RotationDue(pairing[r].current) \/ cred[pairing[r].current].status = "active"
          /\ request[r].status \in {"active", "exchanged"}
      BY <2>1, OpenPairing DEF RotationDue, Open
    <2> QED BY <1>1, <1>4, <2>1, <2>2
  <1>7. ASSUME NEW c \in Creds, NEW r \in PairingRequests, cred[c].pairing = r,
               pairing'[r].status \notin Open
        PROVE  cred'[c].status \notin Open
    BY <1>2, <1>4, <1>7, LiveHasOpenPairing DEF Open, Due, PairingIInv, CredentialsFollowPairing, Live
  <1>8. ASSUME NEW r \in PairingRequests
        PROVE  \/ pairing'[r].status = pairing[r].status
               \/ pairing[r].status # "none" /\ pairing'[r].status \notin Open \cup {"none"}
    BY <1>2 DEF Due, Open
  <1>9. ASSUME NEW c \in Creds
        PROVE  /\ \/ cred'[c].status = cred[c].status
                  \/ cred[c].status # "none" /\ cred'[c].status \notin Open \cup {"none"}
               /\ rotation[c].status = "none" => rotation'[c].status = "none"
               /\ cred'[c].status = "pending_activation" =>
                     rotation'[c].status = rotation[c].status
    BY <1>3, <1>4 DEF RotationDue, Open
  <1>10. UNCHANGED <<ends, vault, caller>>
    BY DEF Sweep
  <1> QED BY <1>1, <1>2, <1>3, <1>4, <1>5, <1>6, <1>7, <1>8, <1>9, <1>10 DEF OnlyEnds

\* The rows of a pairing that ended unused are blanked.
LEMMA PurgeEnds ==
    ASSUME PairingIInv, NEW r \in PairingRequests, Purge(r)
    PROVE  PairingTypeOK' /\ OnlyEnds
  <1>1. ASSUME NEW q \in PairingRequests
        PROVE  /\ pairing'[q] \in Pairing
               /\ request'[q] \in Request
               /\ request'[q].mode = request[q].mode
               /\ q = r => pairing'[q].status = "purged" /\ request'[q].status = "purged"
               /\ q # r => pairing'[q] = pairing[q] /\ request'[q] = request[q]
    <2>1. pairing[q] \in Pairing /\ request[q] \in Request
      BY DEF PairingIInv, PairingTypeOK
    <2>2. /\ pairing'[q] = IF q = r THEN [pairing[r] EXCEPT !.status = "purged",
                                                           !.current = NoCred]
                           ELSE pairing[q]
          /\ request'[q] = IF q = r THEN [request[r] EXCEPT !.status = "purged"]
                           ELSE request[q]
      BY DEF Purge, PairingIInv, PairingTypeOK
    <2>3. CASE q = r
      <3>1. pairing'[q] \in Pairing /\ pairing'[q].status = "purged"
        BY <2>1, <2>2, <2>3 DEF Pairing, PairingStatus
      <3>2. /\ request'[q] \in Request /\ request'[q].status = "purged"
            /\ request'[q].mode = request[q].mode
        BY <2>1, <2>2, <2>3 DEF Request, RequestStatus
      <3> QED BY <2>3, <3>1, <3>2
    <2>4. CASE q # r
      BY <2>1, <2>2, <2>4
    <2> QED BY <2>3, <2>4
  <1>2. ASSUME NEW c \in Creds
        PROVE  /\ cred'[c] \in Cred
               /\ cred'[c].pairing = cred[c].pairing
               /\ cred'[c].status = IF cred[c].pairing = r THEN "purged" ELSE cred[c].status
    BY DEF Purge, PairingIInv, PairingTypeOK, Cred, CredStatus
  <1>3. ASSUME NEW c \in Creds
        PROVE  /\ rotation'[c] \in Rotation
               /\ cred[c].pairing = r => rotation'[c].status = "none"
               /\ cred[c].pairing # r => rotation'[c] = rotation[c]
    <2>1. [status |-> "none", pred |-> NoCred, late |-> FALSE] \in Rotation
      BY DEF Rotation, RotationStatus
    <2> QED BY <2>1 DEF Purge, PairingIInv, PairingTypeOK
  <1>4. /\ pairing[r].status \in {"canceled", "expired"}
        /\ UNCHANGED <<company, ends, vault, caller>>
    BY DEF Purge
  <1>5. PairingTypeOK'
    <2>1. request' \in [PairingRequests -> Request] /\ pairing' \in [PairingRequests -> Pairing]
      BY <1>1 DEF Purge, PairingIInv, PairingTypeOK
    <2>2. cred' \in [Creds -> Cred] /\ rotation' \in [Creds -> Rotation]
      BY <1>2, <1>3 DEF Purge
    <2> QED BY <1>4, <2>1, <2>2 DEF PairingIInv, PairingTypeOK, ends
  <1>6. ASSUME NEW q \in PairingRequests, pairing'[q].status \in Open
        PROVE  /\ pairing'[q].current = pairing[q].current
               /\ cred'[pairing[q].current].status = cred[pairing[q].current].status
               /\ request'[q].status = request[q].status
    <2>1. q # r /\ pairing'[q] = pairing[q] /\ request'[q] = request[q]
      BY <1>1, <1>6 DEF Open
    <2>2. pairing[q].current \in Creds /\ cred[pairing[q].current].pairing = q
      BY <1>6, <2>1, OpenPairing
    <2> QED BY <1>2, <2>1, <2>2
  <1>7. ASSUME NEW c \in Creds, NEW q \in PairingRequests, cred[c].pairing = q,
               pairing'[q].status \notin Open
        PROVE  cred'[c].status \notin Open
    BY <1>1, <1>2, <1>7, LiveHasOpenPairing DEF Open
  <1>8. ASSUME NEW q \in PairingRequests
        PROVE  \/ pairing'[q].status = pairing[q].status
               \/ pairing[q].status # "none" /\ pairing'[q].status \notin Open \cup {"none"}
    BY <1>1, <1>4 DEF Open
  <1>9. ASSUME NEW c \in Creds
        PROVE  /\ \/ cred'[c].status = cred[c].status
                  \/ cred[c].status # "none" /\ cred'[c].status \notin Open \cup {"none"}
               /\ rotation[c].status = "none" => rotation'[c].status = "none"
               /\ cred'[c].status = "pending_activation" => rotation'[c] = rotation[c]
    BY <1>2, <1>3, PairingConstants DEF Open, PairingIInv, CredentialsHaveOwners
  <1> QED BY <1>1, <1>2, <1>4, <1>5, <1>6, <1>7, <1>8, <1>9 DEF OnlyEnds

-----------------------------------------------------------------------------
(* Every step is of one of these kinds.                                    *)

\* The kinds that the lemmas above and the refinement are about.
LEMMA PairingSteps ==
    ASSUME PairingIInv, PairingNext
    PROVE  \/ \E r \in PairingRequests : RequestStep(r)
           \/ Aside
           \/ TakeName \/ \E r \in PairingRequests : RefuseName(r)
           \/ \E r \in PairingRequests, c \in Creds : Exchange(r, c) /\ ~CodeExpires(r)
           \/ \E r \in PairingRequests, c \in Creds : Activate(r, c) /\ ActivateGrant(r, c)
           \/ \E c, d \in Creds : PrepareRotation(c, d)
           \/ \E c \in Creds : RotationSucceeds(c)
           \/ PairingTypeOK' /\ OnlyEnds
  <1>1. ASSUME NEW r \in PairingRequests,
               Create(r) \/ Approve(r) \/ CancelRequest(r) \/ Claim(r)
        PROVE  RequestStep(r)
    BY <1>1 DEF RequestStep
  <1>2. ASSUME NEW r \in PairingRequests, NEW c \in Creds, Exchange(r, c)
        PROVE  (Exchange(r, c) /\ ~CodeExpires(r)) \/ RequestStep(r)
    BY <1>2 DEF RequestStep
  <1>3. ASSUME NEW r \in PairingRequests, NEW c \in Creds, Activate(r, c)
        PROVE  \/ Activate(r, c) /\ ActivateGrant(r, c)
               \/ RefuseName(r)
               \/ PairingTypeOK' /\ OnlyEnds
    BY <1>3, ExpirePendingEnds DEF Activate
  <1>4. ASSUME NEW c \in Creds, Disconnect(c) \/ Cancel(c) \/ ActivateRotation(c)
        PROVE  RotationSucceeds(c) \/ (PairingTypeOK' /\ OnlyEnds)
    BY <1>4, DisconnectEnds, CancelEnds, LateRotationEnds DEF RotationSucceeds
  <1>5. ASSUME NEW r \in PairingRequests, Revoke(r) \/ Purge(r)
        PROVE  PairingTypeOK' /\ OnlyEnds
    BY <1>5, RevokeEnds, PurgeEnds
  <1>6. CASE CloseCompany \/ DeadlinePasses \/ Sweep
    BY <1>6, CloseEnds, DeadlinePassesEnds, SweepEnds
  <1>7. CASE \/ \E r \in PairingRequests : RetryExchange(r)
             \/ \E op \in {"rotate", "disconnect", "cancel"}, c \in Creds :
                   Authenticate(op, c) \/ RefuseCall(op, c)
             \/ \E c, d \in Creds : RetryPrepare(c, d)
             \/ SoftDeleteCompany \/ RestoreCompany
    BY <1>7 DEF Aside
  <1> QED BY <1>1, <1>2, <1>3, <1>4, <1>5, <1>6, <1>7 DEF PairingNext

\* The strengthened invariant holds in every state.
THEOREM Invariant == PairingSpec => []PairingIInv
  <1>1. PairingIInv /\ PairingNext => PairingIInv'
    BY PairingSteps, RequestKeeps, AsideKeeps, NameTaken, ExchangeKeeps, GrantKeeps, PrepareKeeps,
       RotationKeeps, EndsKeep
  <1>2. PairingIInv /\ UNCHANGED pairingVars => PairingIInv'
    <2> SUFFICES ASSUME PairingIInv, UNCHANGED pairingVars
                 PROVE  PairingIInv'
      OBVIOUS
    <2>1. UNCHANGED <<request, pairing, cred, rotation, company, identity, workspaces, agents,
                      vault, caller>>
      BY DEF pairingVars
    <2> QED BY <2>1 DEF PairingIInv, PairingTypeOK, CredentialsHaveOwners, CurrentFollowsPairing,
              CredentialsFollowPairing, Live, RequestsFollowPairing, NameHasOneHolder,
              WorkspaceOf
  <1> QED BY InitHolds, <1>1, <1>2, PTL DEF PairingSpec

\* The rows of a pairing agree, whichever of its calls, sweeps and closings
\* come between: its credentials follow its status, and its name is its own.
THEOREM RowsAgree == PairingSpec => []PairingsAreSound
  <1>1. PairingIInv => PairingsAreSound
    BY DEF PairingIInv, PairingsAreSound
  <1> QED BY Invariant, <1>1, PTL

\* However many answers to exchanges, rotations and activations are lost, the
\* desktop holds the secret of the credential that an active pairing accepts.
THEOREM DesktopHasAWayIn == PairingSpec => []NeverLockedOut
  <1>1. ASSUME PairingIInv, NEW r \in PairingRequests, pairing[r].status = "active"
        PROVE  /\ pairing[r].current \in vault
               /\ cred[pairing[r].current] = [status |-> "active", pairing |-> r]
    BY <1>1 DEF PairingIInv, CurrentFollowsPairing, PairingTypeOK, Cred
  <1>2. PairingIInv => NeverLockedOut
    BY <1>1 DEF NeverLockedOut
  <1> QED BY Invariant, <1>2, PTL

-----------------------------------------------------------------------------
(* The refinement.                                                         *)


\* A credential has authority while it and its pairing are active, and in an
\* active pairing that is the current one.
AuthorityIsCurrent ==
    authority = [r \in PairingRequests |->
                   IF pairing[r].status = "active" THEN {pairing[r].current} ELSE {}]

\* It follows from the invariant.
LEMMA CurrentHasAuthority == PairingIInv => AuthorityIsCurrent
  <1> SUFFICES ASSUME PairingIInv, NEW r \in PairingRequests
               PROVE  {c \in Creds : cred[c] = [status |-> "active", pairing |-> r]
                                     /\ pairing[r].status = "active"}
                      = IF pairing[r].status = "active" THEN {pairing[r].current} ELSE {}
    BY DEF AuthorityIsCurrent, authority
  <1>1. \A c \in Creds : cred[c] = [status |-> "active", pairing |-> r] <=>
           cred[c].status = "active" /\ cred[c].pairing = r
    BY DEF PairingIInv, PairingTypeOK, Cred
  <1>2. \A c \in Creds : pairing[r].status = "active" =>
           (cred[c].status = "active" /\ cred[c].pairing = r <=> c = pairing[r].current)
    BY DEF PairingIInv, CurrentFollowsPairing, CredentialsFollowPairing, Live
  <1>3. pairing[r].status = "active" => pairing[r].current \in Creds
    BY DEF PairingIInv, CurrentFollowsPairing
  <1> QED BY <1>1, <1>2, <1>3

\* PairingSteps that end pairings and credentials end their authority.
LEMMA EndsRefine ==
    ASSUME PairingIInv, PairingIInv', AuthorityIsCurrent, AuthorityIsCurrent', OnlyEnds
    PROVE  Grant!GrantNext
  <1> DEFINE ended == {r \in PairingRequests : pairing'[r].status \notin Open \cup {"none"}}
  <1>1. authority' = [r \in PairingRequests |-> IF r \in ended THEN {} ELSE authority[r]]
    <2>1. ASSUME NEW r \in PairingRequests
          PROVE  authority'[r] = IF r \in ended THEN {} ELSE authority[r]
      <3>1. pairing'[r].status \in Open \cup {"none"} =>
               /\ pairing'[r].status = pairing[r].status
               /\ pairing'[r].status = "active" => pairing'[r].current = pairing[r].current
        BY DEF OnlyEnds, Open
      <3> QED BY <3>1 DEF AuthorityIsCurrent, Open
    <2> QED BY <2>1 DEF AuthorityIsCurrent
  <1>2. over' = over \cup ended
    <2>1. over' = ended
      BY DEF over, Open
    <2>2. over \subseteq ended
      BY DEF over, OnlyEnds, Open
    <2> QED BY <2>1, <2>2
  <1>3. spent \subseteq spent' /\ spent' \subseteq Creds
    BY DEF spent, OnlyEnds, Open
  <1>4. ASSUME NEW r \in ended, NEW c \in authority[r]
        PROVE  c \in spent'
    <2>1. pairing[r].status = "active" /\ c = pairing[r].current
      BY <1>4 DEF AuthorityIsCurrent
    <2>2. c \in Creds /\ cred[c].pairing = r /\ cred[c].status = "active"
      BY <2>1 DEF PairingIInv, CurrentFollowsPairing
    <2>3. cred'[c].status \notin Open \cup {"none"}
      BY <1>4, <2>2 DEF OnlyEnds
    <2> QED BY <2>2, <2>3 DEF spent, Open
  <1>5. ASSUME NEW r \in PairingRequests, NEW c \in authority'[r]
        PROVE  c \notin spent'
    <2>1. pairing'[r].status = "active" /\ c = pairing'[r].current
      BY <1>5 DEF AuthorityIsCurrent
    <2>2. cred'[c].status = "active"
      BY <2>1 DEF PairingIInv, CurrentFollowsPairing
    <2> QED BY <2>2 DEF spent
  <1>6. ended \in SUBSET PairingRequests
    OBVIOUS
  <1> HIDE DEF ended
  <1>7. Grant!End(ended)
    BY <1>1, <1>2, <1>3, <1>4, <1>5, <1>6 DEF Grant!End, Grant!Withdraw
  <1> QED BY <1>6, <1>7 DEF Grant!GrantNext

\* An activation gives the current credential its authority.
LEMMA GrantRefines ==
    ASSUME PairingIInv, AuthorityIsCurrent, AuthorityIsCurrent',
           NEW r \in PairingRequests, NEW c \in Creds, Activate(r, c), ActivateGrant(r, c)
    PROVE  Grant!GrantNext
  <1>1. /\ pairing[r].status = "pending_activation" /\ pairing[r].current = c
        /\ cred[c].status = "pending_activation"
        /\ pairing' = [pairing EXCEPT ![r].status = "active"]
        /\ cred' = [cred EXCEPT ![c].status = "active"]
    BY OnlyTheCurrentActivates DEF ActivateGrant
  <1>2. /\ pairing'[r].status = "active" /\ pairing'[r].current = c
        /\ \A q \in PairingRequests \ {r} : pairing'[q] = pairing[q]
        /\ cred'[c].status = "active"
        /\ \A d \in Creds \ {c} : cred'[d] = cred[d]
    BY <1>1 DEF PairingIInv, PairingTypeOK, Pairing, Cred
  <1>3. authority[r] = {} /\ authority' = [authority EXCEPT ![r] = {c}]
    BY <1>1, <1>2 DEF AuthorityIsCurrent
  <1>4. r \notin over /\ over' = over
    BY <1>1, <1>2 DEF over
  <1>5. c \notin spent /\ spent' = spent
    BY <1>1, <1>2 DEF spent
  <1> QED BY <1>3, <1>4, <1>5 DEF Grant!GrantNext, Grant!Give

\* The activation of a rotation passes the authority to the successor.
LEMMA RotationRefines ==
    ASSUME PairingIInv, AuthorityIsCurrent, AuthorityIsCurrent', NEW c \in Creds, RotationSucceeds(c)
    PROVE  Grant!GrantNext
  <1> DEFINE r == cred[c].pairing
             p == rotation[c].pred
  <1>1. /\ r \in PairingRequests /\ p \in Creds \ {c}
        /\ pairing[r].status = "active" /\ pairing[r].current = p
        /\ cred[p].status = "active" /\ cred[c].status = "pending_activation"
    BY SuccessorReplacesTheCurrent
  <1>2. /\ cred' = [cred EXCEPT ![p].status = "superseded", ![c].status = "active"]
        /\ pairing' = [pairing EXCEPT ![r].current = c]
    BY DEF RotationSucceeds, ActivateRotation
  <1> HIDE DEF r, p
  <1>3. /\ pairing'[r].status = "active" /\ pairing'[r].current = c
        /\ \A q \in PairingRequests \ {r} : pairing'[q] = pairing[q]
        /\ cred'[p].status = "superseded" /\ cred'[c].status = "active"
        /\ \A d \in Creds \ {p, c} : cred'[d] = cred[d]
    BY <1>1, <1>2 DEF PairingIInv, PairingTypeOK, Pairing, Cred
  <1>4. authority[r] = {p} /\ authority' = [authority EXCEPT ![r] = {c}]
    BY <1>1, <1>3 DEF AuthorityIsCurrent
  <1>5. over' = over
    BY <1>1, <1>3 DEF over
  <1>6. c \notin spent /\ spent' = spent \cup {p}
    BY <1>1, <1>3 DEF spent
  <1>7. spent' \subseteq Creds
    BY DEF spent
  <1>8. Grant!Pass(r, p, c)
    BY <1>1, <1>4, <1>5, <1>6, <1>7 DEF Grant!Pass, Grant!Withdraw
  <1> QED BY <1>1, <1>8 DEF Grant!GrantNext

\* The other steps give and end nothing.
LEMMA QuietSteps ==
    ASSUME PairingIInv, AuthorityIsCurrent, AuthorityIsCurrent',
           \/ UNCHANGED <<pairing, cred>>
           \/ \E r \in PairingRequests, c \in Creds : Exchange(r, c) /\ ~CodeExpires(r)
           \/ \E c, d \in Creds : PrepareRotation(c, d)
    PROVE  UNCHANGED Grant!gvars
  <1>1. CASE UNCHANGED <<pairing, cred>>
    BY <1>1 DEF Grant!gvars, AuthorityIsCurrent, over, spent
  <1>2. ASSUME NEW r \in PairingRequests, NEW c \in Creds, Exchange(r, c), ~CodeExpires(r)
        PROVE  UNCHANGED Grant!gvars
    <2> DEFINE opened == [status |-> "pending_activation", current |-> c, late |-> FALSE]
               given == [status |-> "pending_activation", pairing |-> r]
    <2>1. /\ request[r].status = "authorization_code_issued" /\ cred[c].status = "none"
          /\ pairing' = [pairing EXCEPT ![r] = opened]
          /\ cred' = [cred EXCEPT ![c] = given]
      BY <1>2 DEF Exchange, CodeExpires, Fresh
    <2>2. pairing[r].status = "none"
      BY <2>1 DEF PairingIInv, RequestsFollowPairing
    <2>3. /\ pairing'[r] = opened /\ cred'[c] = given
          /\ \A q \in PairingRequests \ {r} : pairing'[q] = pairing[q]
          /\ \A d \in Creds \ {c} : cred'[d] = cred[d]
      BY <2>1 DEF PairingIInv, PairingTypeOK
    <2>4. authority' = authority
      <3>1. pairing'[r].status # "active" /\ pairing[r].status # "active"
        BY <2>2, <2>3
      <3>2. \A q \in PairingRequests :
               (IF pairing'[q].status = "active" THEN {pairing'[q].current} ELSE {})
               = (IF pairing[q].status = "active" THEN {pairing[q].current} ELSE {})
        BY <2>3, <3>1
      <3> QED BY <3>2 DEF AuthorityIsCurrent
    <2>5. over' = over
      BY <2>2, <2>3 DEF over
    <2>6. spent' = spent
      BY <2>1, <2>3 DEF spent
    <2> QED BY <2>4, <2>5, <2>6 DEF Grant!gvars
  <1>3. ASSUME NEW c \in Creds, NEW d \in Creds, PrepareRotation(c, d)
        PROVE  UNCHANGED Grant!gvars
    <2> DEFINE given == [status |-> "pending_activation", pairing |-> cred[c].pairing]
    <2>1. /\ cred[d].status = "none" /\ pairing' = pairing
          /\ cred' = [cred EXCEPT ![d] = given]
      BY <1>3 DEF PrepareRotation, Fresh
    <2>2. cred'[d] = given /\ \A e \in Creds \ {d} : cred'[e] = cred[e]
      BY <2>1 DEF PairingIInv, PairingTypeOK
    <2>3. authority' = authority /\ over' = over
      BY <2>1 DEF AuthorityIsCurrent, over
    <2>4. spent' = spent
      BY <2>1, <2>2 DEF spent
    <2> QED BY <2>3, <2>4 DEF Grant!gvars
  <1> QED BY <1>1, <1>2, <1>3

\* The protocol implements the grant: authority is given once, to one
\* credential, passes from one to the next, and what has lost it or has ended
\* never gets it again.
THEOREM GrantIsKept == PairingSpec => ImplementsGrant
  <1>1. PairingInit => Grant!GrantInit
    BY PairingConstants DEF PairingInit, Grant!GrantInit, authority, over, spent
  <1>2. ASSUME PairingIInv, PairingIInv', AuthorityIsCurrent, AuthorityIsCurrent', [PairingNext]_pairingVars
        PROVE  [Grant!GrantNext]_(Grant!gvars)
    <2>1. CASE PairingNext
      <3>1. ASSUME \/ \E r \in PairingRequests : RequestStep(r)
                   \/ Aside
                   \/ TakeName \/ \E r \in PairingRequests : RefuseName(r)
            PROVE  UNCHANGED <<pairing, cred>>
        <4>1. PairingIInv => PairingTypeOK
          BY DEF PairingIInv
        <4> QED BY <1>2, <3>1, <4>1, RequestMoves, AsideMoves, NameTaken DEF Rows
      <3> QED BY <1>2, <2>1, <3>1, PairingSteps, QuietSteps, GrantRefines, RotationRefines, EndsRefine
    <2>2. CASE UNCHANGED pairingVars
      BY <1>2, <2>2, QuietSteps DEF pairingVars
    <2> QED BY <1>2, <2>1, <2>2
  <1> QED BY Invariant, CurrentHasAuthority, <1>1, <1>2, PTL
         DEF PairingSpec, ImplementsGrant, Grant!GrantSpec
=============================================================================
