------------------------ MODULE ManagedAndInboundProofs ------------------------
(***************************************************************************)
(* The safety properties of ManagedConnection, for any number of controller *)
(* processes and candidate tokens, any retry policy and any bounds, and of  *)
(* InboundMcp, for any number of calls, consents, codes, tokens and         *)
(* messages.  McpInv adds to the checked invariants of InboundMcp what      *)
(* makes them inductive: that a family is headed by the pair its code made, *)
(* and who holds a claim.                                                   *)
(***************************************************************************)
EXTENDS ManagedConnection, InboundMcp, TLAPS

---------------------------------------------------------------------------
(* The managed connection. *)

(* The profile lock is held by the process that is in the attempt's steps.  *)
LockIsHeld == \A p \in Controllers : lock = p <=> ctl[p].pc \in UnderLock

(* The installer works only while there is no enrolment state.              *)
InstallerIsFirst ==
  lock = Installer => files.pending = None /\ files.target = None

(* A credential on disk was redeemed with the token it holds.               *)
CredentialsAreRedeemed ==
  /\ PendingIs("credential") => server.redeemedBy = files.pending.token
  /\ files.target # None => server.redeemedBy = files.target

(* Each step of an attempt finds the files that the step before it left.    *)
StepsFitFiles ==
  \A p \in Controllers :
    /\ ctl[p].pc \in {"send", "store"} => PendingIs("marker")
    /\ ctl[p].pc = "store" => server.redeemedBy = files.pending.token
    /\ ctl[p].pc = "promote" => PendingIs("credential")
    /\ ctl[p].pc \in {"send", "store", "promote"} => files.target = None
    /\ ctl[p].pc \in {"verify", "retire", "succeeded"} => files.target # None

(* A call whose revision is current has read a record that is still open;   *)
(* if it is about to record an attempt, no lease and no wait runs.          *)
CurrentIsOpen ==
  \A p \in Controllers :
    ctl[p].current =>
      /\ disk.phase \notin Terminal \cup {"absent"}
      /\ ctl[p].pc = "intend" /\ disk.phase \in Timed => disk.due <= Now(p)

(* What holds of the files, the server and the steps of the attempts.       *)
EnrolmentFits ==
  /\ InstallerIsFirst
  /\ NoCredentialIsLost
  /\ NoConflictingFiles
  /\ CredentialsAreRedeemed
  /\ StepsFitFiles
  /\ ResumableInstallation

(* The inductive invariant.                                                 *)
IInv ==
  /\ TypeOK
  /\ LockIsHeld
  /\ EnrolmentFits
  /\ ActiveIsEnrolled
  /\ CurrentIsOpen

----------------------------------------------------------------------------
(* The records that the actions write have their types.                     *)

(* A call that is over is a call.                                           *)
LEMMA IdleType == Idle \in Call
  BY ConstantsAssumption DEF Call, Idle, Steps

(* A call that moves to another step.                                       *)
LEMMA StepType ==
  ASSUME NEW c \in Call, NEW step \in Steps
  PROVE  [c EXCEPT !.pc = step] \in Call
  BY DEF Call

(* A call whose revision is superseded, or is the last one.                 *)
LEMMA CurrentType ==
  ASSUME NEW c \in Call, NEW b \in BOOLEAN
  PROVE  [c EXCEPT !.current = b] \in Call
  BY DEF Call

(* A call that has read the record.                                         *)
LEMMA DecisionType ==
  ASSUME NEW c \in Call, NEW step \in Steps, NEW n \in 0 .. MaxAttempts
  PROVE  [c EXCEPT !.pc = step, !.current = TRUE, !.count = n] \in Call
  BY DEF Call

(* The records that are swapped in.                                         *)
LEMMA RecordTypes ==
  ASSUME TypeOK, NEW p \in Controllers
  PROVE  /\ Intent(p) \in Record
         /\ Active \in Record
         /\ \A delay \in Delays : BackingOff(p, delay) \in Record
         /\ Directed(p) \subseteq Record
  <1>1. ctl[p] \in Call
    BY DEF TypeOK
  <1>2. ctl[p].count \in 0 .. MaxAttempts /\ ctl[p].age \in Int
    BY <1>1, ConstantsAssumption DEF Call
  <1>3. \A delay \in Delays : Due(p, delay) \in Int
    BY <1>2, ConstantsAssumption DEF Due, Now
  <1>4. Due(p, Lease) \in Int
    BY <1>2, ConstantsAssumption DEF Due, Now
  <1>5. Directed(p) \subseteq Record
    BY <1>2, <1>3, ConstantsAssumption DEF Directed, Record, Phases, Terminal
  <1> QED
    BY <1>2, <1>3, <1>4, <1>5, ConstantsAssumption
    DEF Intent, Active, BackingOff, Record, Phases, Terminal

(* Writing the record keeps the type of the calls.                          *)
LEMMA SupersedingType ==
  ASSUME TypeOK, NEW p \in Controllers, NEW step \in Steps
  PROVE  /\ Superseding(p) \in [Controllers -> Call]
         /\ [Superseding(p) EXCEPT ![p].pc = step] \in [Controllers -> Call]
         /\ [Superseding(p) EXCEPT ![p] = Idle] \in [Controllers -> Call]
         /\ [ctl EXCEPT ![p].pc = step] \in [Controllers -> Call]
         /\ [ctl EXCEPT ![p] = Idle] \in [Controllers -> Call]
         /\ [q \in Controllers |-> [ctl[q] EXCEPT !.current = FALSE]] \in [Controllers -> Call]
  <1>1. \A q \in Controllers : ctl[q] \in Call
    BY DEF TypeOK
  <1>2. \A q \in Controllers : Superseding(p)[q] \in Call
    BY <1>1, CurrentType DEF Superseding
  <1>3. Superseding(p) \in [Controllers -> Call]
    BY <1>2 DEF Superseding
  <1>4. [Superseding(p)[p] EXCEPT !.pc = step] \in Call
    BY <1>2, StepType
  <1>5. [ctl[p] EXCEPT !.pc = step] \in Call
    BY <1>1, StepType
  <1>6. Idle \in Call
    BY IdleType
  <1>7. \A q \in Controllers : [ctl[q] EXCEPT !.current = FALSE] \in Call
    BY <1>1, CurrentType
  <1> QED
    BY <1>3, <1>4, <1>5, <1>6, <1>7 DEF TypeOK

(* The three ways in which a compare-and-swap that ends a call may go.      *)
Outcome(p, record) ==
  SwapAndAnswer(p, record) \/ Conflict(p) \/ SwapFails(p, record)

(* They keep the types.                                                     *)
LEMMA OutcomeType ==
  ASSUME TypeOK, NEW p \in Controllers, NEW record \in Record, Outcome(p, record)
  PROVE  disk' \in Record /\ ctl' \in [Controllers -> Call]
  <1>1. disk' = record \/ disk' = disk
    BY DEF Outcome, SwapAndAnswer, Swap, Conflict, SwapFails
  <1>2. ctl' = [ctl EXCEPT ![p] = Idle] \/ ctl' = [Superseding(p) EXCEPT ![p] = Idle]
    BY DEF Outcome, SwapAndAnswer, Conflict, SwapFails, Answer
  <1>3. "idle" \in Steps
    BY DEF Steps
  <1> QED
    BY <1>1, <1>2, <1>3, SupersedingType DEF TypeOK

(* Files keep their type when enrolment proceeds.                           *)
LEMMA FilesTypes ==
  ASSUME TypeOK
  PROVE  /\ \A t \in Tokens : Prepared(t) \in Files
         /\ PendingIs("marker") => Stored \in Files
         /\ files.pending # None => Promoted \in Files
         /\ [files EXCEPT !.invite = FALSE] \in Files
         /\ [files EXCEPT !.invite = TRUE] \in Files
         /\ [files EXCEPT !.ca = TRUE] \in Files
         /\ [files EXCEPT !.profile = TRUE] \in Files
  <1>1. files \in Files
    BY DEF TypeOK
  <1>2. files.pending \in Pending
    BY <1>1 DEF Files
  <1>3. \A t \in Tokens : Prepared(t) \in Files
    BY <1>1 DEF Files, Pending, Prepared
  <1>4. ASSUME files.pending # None
        PROVE  /\ files.pending.token \in Tokens
               /\ [files.pending EXCEPT !.kind = "credential"] \in Pending
    BY <1>2, <1>4 DEF Pending
  <1>5. PendingIs("marker") => Stored \in Files
    BY <1>1, <1>4 DEF Files, Stored, PendingIs
  <1>6. files.pending # None => Promoted \in Files
    BY <1>1, <1>4 DEF Files, Promoted, Pending
  <1> QED
    BY <1>1, <1>3, <1>5, <1>6 DEF Files

(* The server's row keeps its type.                                         *)
LEMMA ServerTypes ==
  ASSUME TypeOK
  PROVE  /\ \A t \in Tokens : Redeemed(t) \in Server
         /\ [server EXCEPT !.invitation = "closed"] \in Server
         /\ [server EXCEPT !.revoked = TRUE] \in Server
  BY DEF TypeOK, Server, Redeemed

(* Initially the types hold.                                                *)
LEMMA InitType == Init => TypeOK
  <1> SUFFICES ASSUME Init PROVE TypeOK
    OBVIOUS
  <1>1. disk \in Record
    BY ConstantsAssumption DEF Init, Record, Phases
  <1>2. files \in Files
    BY DEF Init, Files, Pending
  <1>3. server \in Server
    BY DEF Init, Server
  <1>4. ctl \in [Controllers -> Call]
    BY IdleType DEF Init
  <1>5. lock = None /\ network = {} /\ crashes = 0 /\ drifted = FALSE /\ faulty \in BOOLEAN
    BY DEF Init
  <1>6. crashes \in 0 .. MaxCrashes
    BY <1>5, ConstantsAssumption
  <1> QED
    BY <1>1, <1>2, <1>3, <1>4, <1>5, <1>6 DEF TypeOK

(* Every step keeps the types; a call goes only to the steps it knows.      *)
LEMMA StepKeepsTypes ==
  ASSUME TypeOK, StepsFitFiles, [Next]_vars
  PROVE  TypeOK'
  <1> USE DEF world, remote
  <1>1. CASE UNCHANGED vars
    BY <1>1 DEF vars, TypeOK
  <1>2. ASSUME NEW p \in Controllers, NEW step \in Steps, Goto(p, step)
        PROVE  ctl' \in [Controllers -> Call]
    BY <1>2, SupersedingType DEF Goto
  <1>3. ASSUME NEW p \in Controllers, Answer(p)
        PROVE  ctl' \in [Controllers -> Call]
    BY <1>3, SupersedingType DEF Answer, Steps
  <1>4. ASSUME NEW p \in Controllers, Delay(p) \/ Refuse(p)
        PROVE  ctl' \in [Controllers -> Call] /\ lock' \in {lock, None}
    BY <1>4, <1>2 DEF Delay, Refuse, Steps
  <1>5. CASE InstallerBegins \/ InstallerEnds \/ ProfileReplaced
    BY <1>5 DEF InstallerBegins, InstallerEnds, ProfileReplaced, TypeOK
  <1>6. CASE InstallerWrites
    <2>1. files' \in Files
      BY <1>6, FilesTypes DEF InstallerWrites
    <2> QED
      BY <1>6, <2>1 DEF InstallerWrites, TypeOK
  <1>7. CASE Initialize
    <2>1. disk' \in Record
      BY <1>7, ConstantsAssumption DEF Initialize, Record, Phases
    <2>2. ctl' \in [Controllers -> Call]
      BY <1>7, CurrentType DEF Initialize, TypeOK
    <2> QED
      BY <1>7, <2>1, <2>2 DEF Initialize, TypeOK
  <1>8. CASE CloseInvitation \/ RevokeCredential
    <2>1. server' \in Server
      BY <1>8, ServerTypes DEF CloseInvitation, RevokeCredential
    <2> QED
      BY <1>8, <2>1 DEF CloseInvitation, RevokeCredential, TypeOK
  <1>9. CASE Tick
    <2>1. disk' \in Record
      BY <1>9 DEF Tick, TypeOK, Record
    <2>2. \A p \in Controllers :
            ctl[p].pc # "idle" => [ctl[p] EXCEPT !.age = @ + 1] \in Call
      BY <1>9, ConstantsAssumption DEF Tick, TypeOK, Call
    <2>3. ctl' \in [Controllers -> Call]
      BY <1>9, <2>2 DEF Tick, TypeOK
    <2> QED
      BY <1>9, <2>1, <2>3 DEF Tick, TypeOK
  <1>10. ASSUME NEW t \in Tokens, Deliver(t)
         PROVE  TypeOK'
    <2>1. server' \in Server
      BY <1>10, ServerTypes DEF Deliver
    <2> QED
      BY <1>10, <2>1 DEF Deliver, TypeOK
  <1>11. ASSUME NEW p \in Controllers, Begin(p)
         PROVE  TypeOK'
    <2>1. [ctl[p] EXCEPT !.pc = "read", !.drifted = drifted] \in Call
      BY DEF TypeOK, Call, Steps
    <2> QED
      BY <1>11, <2>1 DEF Begin, TypeOK
  <1>12. ASSUME NEW p \in Controllers, ReadState(p)
         PROVE  TypeOK'
    <2>1. disk.count \in 0 .. MaxAttempts
      BY DEF TypeOK, Record
    <2>2. CASE StandingAnswer(p) # "none"
      BY <1>12, <1>3, <2>2 DEF ReadState, TypeOK
    <2>3. CASE StandingAnswer(p) = "none" /\ (ctl[p].drifted \/ Exhausted)
      <3>1. [ctl[p] EXCEPT !.pc = "consult", !.current = TRUE, !.count = disk.count] \in Call
        BY <2>1, DecisionType DEF TypeOK, Steps
      <3> QED
        BY <1>12, <2>3, <3>1 DEF ReadState, TypeOK
    <2>4. CASE StandingAnswer(p) = "none" /\ ~(ctl[p].drifted \/ Exhausted)
      <3>1. disk.count < MaxAttempts
        BY <2>1, <2>4, ConstantsAssumption DEF StandingAnswer, Terminal
      <3>2. disk.count + 1 \in 0 .. MaxAttempts
        BY <3>1, <2>1, ConstantsAssumption
      <3>3. [ctl[p] EXCEPT !.pc = "intend", !.current = TRUE, !.count = disk.count + 1] \in Call
        BY <3>2, DecisionType DEF TypeOK, Steps
      <3> QED
        BY <1>12, <2>4, <3>3 DEF ReadState, TypeOK
    <2> QED
      BY <2>2, <2>3, <2>4
  <1>13. ASSUME NEW p \in Controllers, ReadFails(p) \/ Crash(p) \/ Unexpected(p)
         PROVE  TypeOK'
    BY <1>13, <1>3, ConstantsAssumption DEF ReadFails, Crash, Unexpected, TypeOK
  <1>14. ASSUME NEW p \in Controllers, Intend(p)
         PROVE  TypeOK'
    <2>1. Intent(p) \in Record
      BY RecordTypes
    <2>2. CASE Outcome(p, Intent(p))
      BY <1>14, <2>1, <2>2, OutcomeType DEF Intend, TypeOK
    <2>3. CASE Swap(p, Intent(p)) /\ ctl' = [Superseding(p) EXCEPT ![p].pc = "lock"]
      BY <1>14, <2>1, <2>3, SupersedingType DEF Intend, Swap, Steps, TypeOK
    <2> QED
      BY <1>14, <2>2, <2>3 DEF Intend, Outcome
  <1>15. ASSUME NEW p \in Controllers, Succeed(p) \/ BackOff(p) \/ Consult(p)
         PROVE  TypeOK'
    <2>1. PICK record \in Record : Outcome(p, record)
      BY <1>15, RecordTypes DEF Succeed, BackOff, Consult, Outcome
    <2> QED
      BY <1>15, <2>1, OutcomeType DEF Succeed, BackOff, Consult, TypeOK
  <1>16. ASSUME NEW p \in Controllers, TakeLock(p)
         PROVE  TypeOK'
    BY <1>16, <1>2, <1>4 DEF TakeLock, TypeOK, Steps
  <1>17. ASSUME NEW p \in Controllers, Local(p)
         PROVE  TypeOK'
    <2>1. ctl' \in [Controllers -> Call] /\ lock' \in {lock, None}
      BY <1>17, <1>2, <1>4 DEF Local, Steps
    <2>2. files' \in Files
      BY <1>17, FilesTypes DEF Local, NewTokens, TypeOK
    <2> QED
      BY <1>17, <2>1, <2>2 DEF Local, TypeOK
  <1>18. ASSUME NEW p \in Controllers, Send(p)
         PROVE  TypeOK'
    <2>1. files.pending.token \in Tokens
      BY <1>18 DEF Send, StepsFitFiles, PendingIs, TypeOK, Files, Pending
    <2>2. ctl' \in [Controllers -> Call] /\ lock' \in {lock, None}
      BY <1>18, <1>2, <1>4 DEF Send, Steps
    <2>3. server' \in Server /\ network' \subseteq Tokens
      BY <1>18, <2>1, ServerTypes DEF Send, TypeOK
    <2> QED
      BY <1>18, <2>2, <2>3 DEF Send, TypeOK
  <1>19. ASSUME NEW p \in Controllers, Store(p) \/ Promote(p) \/ Retire(p)
         PROVE  TypeOK'
    <2>1. ctl' \in [Controllers -> Call] /\ lock' \in {lock, None}
      BY <1>19, <1>2, <1>4 DEF Store, Promote, Retire, Steps
    <2>2. ctl[p].pc = "store" => PendingIs("marker")
      BY DEF StepsFitFiles
    <2>3. ctl[p].pc = "promote" => files.pending # None
      BY DEF StepsFitFiles, PendingIs
    <2>4. files' \in Files
      BY <1>19, <2>2, <2>3, FilesTypes DEF Store, Promote, Retire, TypeOK
    <2> QED
      BY <1>19, <2>1, <2>4 DEF Store, Promote, Retire, TypeOK
  <1>20. ASSUME NEW p \in Controllers, Verify(p)
         PROVE  TypeOK'
    BY <1>20, <1>2, <1>4 DEF Verify, TypeOK, Steps
  <1> QED
    BY <1>1, <1>5, <1>6, <1>7, <1>8, <1>9, <1>10, <1>11, <1>12, <1>13, <1>14, <1>15,
       <1>16, <1>17, <1>18, <1>19, <1>20
    DEF Next, Proceed

----------------------------------------------------------------------------
(* What the steps do to the calls                                           *)

(* A call goes on, or is over; the other calls stay as they are.            *)
LEMMA CallEffect ==
  ASSUME TypeOK, NEW p \in Controllers
  PROVE  /\ \A step \in Steps : Goto(p, step) =>
              /\ ctl'[p].pc = step
              /\ ctl'[p].current = ctl[p].current
              /\ \A q \in Controllers : q # p => ctl'[q] = ctl[q]
         /\ Answer(p) =>
              /\ ctl'[p] = Idle
              /\ \A q \in Controllers : q # p => ctl'[q] = ctl[q]
  BY DEF TypeOK, Call, Goto, Answer

(* The attempt of p ends and the lock, if it is held by p, is released.     *)
LEMMA EndEffect ==
  ASSUME TypeOK, NEW p \in Controllers, Delay(p) \/ Refuse(p)
  PROVE  /\ ctl'[p].pc \in {"delayed", "consult"}
         /\ ctl'[p].current = ctl[p].current
         /\ \A q \in Controllers : q # p => ctl'[q] = ctl[q]
         /\ lock = p => lock' = None
  BY CallEffect DEF Delay, Refuse, Steps

(* After a write only the writer's revision is current.                     *)
LEMMA SupersedingEffect ==
  ASSUME TypeOK, NEW p \in Controllers
  PROVE  /\ DOMAIN Superseding(p) = Controllers
         /\ \A q \in Controllers :
              /\ Superseding(p)[q].pc = ctl[q].pc
              /\ Superseding(p)[q].age = ctl[q].age
              /\ q # p => ~Superseding(p)[q].current
              /\ Superseding(p)[q] \in Call
  <1>1. \A q \in Controllers : ctl[q] \in Call
    BY DEF TypeOK
  <1>2. \A q \in Controllers :
          Superseding(p)[q] = [ctl[q] EXCEPT !.current = (q = p)]
    BY DEF Superseding
  <1>3. \A q \in Controllers : (q = p) \in BOOLEAN
    OBVIOUS
  <1>4. \A q \in Controllers : Superseding(p)[q] \in Call
    BY <1>1, <1>2, <1>3, CurrentType
  <1>5. DOMAIN Superseding(p) = Controllers
    BY DEF Superseding
  <1>6. \A q \in Controllers :
          /\ Superseding(p)[q].pc = ctl[q].pc
          /\ Superseding(p)[q].age = ctl[q].age
    BY <1>1, <1>2 DEF Call
  <1>7. \A q \in Controllers : q # p => ~Superseding(p)[q].current
    BY <1>1, <1>2 DEF Call
  <1> QED
    BY <1>4, <1>5, <1>6, <1>7

(* A compare-and-swap that ends a call writes the record only if nobody     *)
(* wrote since p read it, and then nobody else's revision is current.       *)
LEMMA OutcomeEffect ==
  ASSUME TypeOK, NEW p \in Controllers, NEW record, Outcome(p, record)
  PROVE  /\ ctl'[p].pc = "idle" /\ ~ctl'[p].current
         /\ \A q \in Controllers :
              q # p => ctl'[q].pc = ctl[q].pc /\ ctl'[q].age = ctl[q].age
         /\ \/ disk' = disk /\ \A q \in Controllers : q # p => ctl'[q] = ctl[q]
            \/ /\ ctl[p].current /\ disk' = record
               /\ \A q \in Controllers : ~ctl'[q].current
  <1>1. CASE Answer(p) /\ disk' = disk
    BY <1>1, CallEffect DEF Idle
  <1>2. CASE SwapAndAnswer(p, record)
    <2>1. ctl' = [Superseding(p) EXCEPT ![p] = Idle]
      BY <1>2 DEF SwapAndAnswer
    <2>2. ctl'[p] = Idle /\ \A q \in Controllers : q # p => ctl'[q] = Superseding(p)[q]
      BY <2>1, SupersedingEffect
    <2>3. \A q \in Controllers : q # p =>
            ctl'[q].pc = ctl[q].pc /\ ctl'[q].age = ctl[q].age /\ ~ctl'[q].current
      BY <2>2, SupersedingEffect
    <2> QED
      BY <1>2, <2>2, <2>3 DEF SwapAndAnswer, Swap, Idle
  <1> QED
    BY <1>1, <1>2 DEF Outcome, Conflict, SwapFails

(* The three steps that end a call, as compare-and-swaps.                   *)
LEMMA EndsAreOutcomes ==
  ASSUME TypeOK, NEW p \in Controllers, Succeed(p) \/ BackOff(p) \/ Consult(p)
  PROVE  \E record \in Record :
           /\ Outcome(p, record)
           /\ record.phase = "active" => ctl[p].pc = "succeeded"
           /\ record.phase # "connecting"
  <1>1. CASE Succeed(p)
    BY <1>1, RecordTypes DEF Succeed, Outcome, Active
  <1>2. CASE BackOff(p)
    <2>1. PICK delay \in Delays : Outcome(p, BackingOff(p, delay))
      BY <1>2 DEF BackOff, Outcome
    <2>2. BackingOff(p, delay).phase = "retry_wait"
      BY DEF BackingOff
    <2> QED
      BY <2>1, <2>2, RecordTypes
  <1>3. CASE Consult(p)
    <2>1. PICK record \in Directed(p) : Outcome(p, record)
      BY <1>3 DEF Consult, Outcome
    <2>2. record.phase \in {"quarantined", "halted", "retry_wait"}
      BY DEF Directed, Terminal
    <2> QED
      BY <2>1, <2>2, RecordTypes
  <1> QED
    BY <1>1, <1>2, <1>3

(* Recording an attempt.                                                    *)
LEMMA IntendEffect ==
  ASSUME TypeOK, NEW p \in Controllers, Intend(p)
  PROVE  \/ Outcome(p, Intent(p))
         \/ /\ ctl[p].current /\ disk' = Intent(p)
            /\ ctl'[p].pc = "lock"
            /\ \A q \in Controllers :
                 q # p => /\ ctl'[q].pc = ctl[q].pc
                          /\ ctl'[q].age = ctl[q].age
                          /\ ~ctl'[q].current
  <1>1. CASE Swap(p, Intent(p)) /\ ctl' = [Superseding(p) EXCEPT ![p].pc = "lock"]
    <2>1. /\ ctl'[p] = [Superseding(p)[p] EXCEPT !.pc = "lock"]
          /\ \A q \in Controllers : q # p => ctl'[q] = Superseding(p)[q]
      BY <1>1, SupersedingEffect
    <2>2. Superseding(p)[p] \in Call
      BY SupersedingEffect
    <2>3. ctl'[p].pc = "lock"
      BY <2>1, <2>2 DEF Call
    <2>4. \A q \in Controllers : q # p =>
            ctl'[q].pc = ctl[q].pc /\ ctl'[q].age = ctl[q].age /\ ~ctl'[q].current
      BY <2>1, SupersedingEffect
    <2> QED
      BY <1>1, <2>3, <2>4 DEF Swap
  <1>2. CASE Conflict(p) \/ SwapFails(p, Intent(p))
    BY <1>2 DEF Outcome
  <1> QED
    BY <1>1, <1>2 DEF Intend

(* The installer's first record.                                            *)
LEMMA InitializeEffect ==
  ASSUME TypeOK, Initialize
  PROVE  \A q \in Controllers : ctl'[q].pc = ctl[q].pc /\ ~ctl'[q].current
  BY DEF TypeOK, Call, Initialize

(* The clock.                                                               *)
LEMMA TickEffect ==
  ASSUME TypeOK, Tick
  PROVE  \A q \in Controllers :
           /\ ctl'[q].pc = ctl[q].pc
           /\ ctl'[q].current = ctl[q].current
           /\ ctl[q].pc # "idle" => ctl'[q].age = ctl[q].age + 1
  BY DEF TypeOK, Call, Tick

(* The beginning of a call.                                                 *)
LEMMA BeginEffect ==
  ASSUME TypeOK, NEW p \in Controllers, Begin(p)
  PROVE  /\ ctl'[p].pc = "read" /\ ctl'[p].current = ctl[p].current
         /\ \A q \in Controllers : q # p => ctl'[q] = ctl[q]
  BY DEF TypeOK, Call, Begin

(* A call decides by what it read.                                          *)
LEMMA ReadEffect ==
  ASSUME TypeOK, NEW p \in Controllers, ReadState(p)
  PROVE  /\ \A q \in Controllers : q # p => ctl'[q] = ctl[q]
         /\ \/ ctl'[p] = Idle
            \/ StandingAnswer(p) = "none" /\ ctl'[p].pc = "consult"
            \/ /\ StandingAnswer(p) = "none" /\ ctl'[p].pc = "intend"
               /\ ~ctl[p].drifted /\ ctl'[p].age = ctl[p].age
  BY DEF TypeOK, Call, ReadState, Answer

(* The steps of an attempt under the lock: it goes on, or it gives the lock *)
(* up.                                                                      *)
LEMMA AttemptEffect ==
  ASSUME TypeOK, LockIsHeld, NEW p \in Controllers,
         Local(p) \/ Send(p) \/ Store(p) \/ Promote(p) \/ Verify(p) \/ Retire(p)
  PROVE  /\ ctl[p].pc \in UnderLock /\ lock = p
         /\ ctl'[p].current = ctl[p].current
         /\ \A q \in Controllers : q # p => ctl'[q] = ctl[q]
         /\ \/ lock' = lock /\ ctl'[p].pc \in UnderLock
            \/ lock' = None /\ ctl'[p].pc \in {"delayed", "consult", "succeeded"}
         /\ disk' = disk
  <1>1. ctl[p].pc \in UnderLock /\ disk' = disk
    BY DEF Local, Send, Store, Promote, Verify, Retire, UnderLock
  <1>2. lock = p
    BY <1>1 DEF LockIsHeld
  <1>3. \/ Delay(p) /\ lock' = None
        \/ Refuse(p) /\ lock' = None
        \/ lock' = lock /\ \E step \in UnderLock : Goto(p, step)
        \/ lock' = None /\ Goto(p, "succeeded")
    BY <1>2 DEF Local, Send, Store, Promote, Verify, Retire, UnderLock, Delay, Refuse
  <1>4. UnderLock \subseteq Steps /\ "succeeded" \in Steps
    BY DEF UnderLock, Steps
  <1> QED
    BY <1>1, <1>2, <1>3, <1>4, CallEffect, EndEffect

----------------------------------------------------------------------------
(* The lock                                                                 *)

(* A process that is under the lock is alone, and no installer works.       *)
LEMMA Alone ==
  ASSUME LockIsHeld, NEW p \in Controllers, ctl[p].pc \in UnderLock
  PROVE  /\ lock = p
         /\ lock # Installer
         /\ \A q \in Controllers : q # p => ctl[q].pc \notin UnderLock
  BY ConstantsAssumption DEF LockIsHeld

(* The lock is kept, given up by the process that leaves, or taken by the   *)
(* one that enters.                                                         *)
LEMMA LockMoves ==
  ASSUME LockIsHeld, NEW p \in Controllers,
         \A q \in Controllers : q # p => ctl'[q].pc = ctl[q].pc,
         \/ lock' = lock /\ (ctl'[p].pc \in UnderLock <=> ctl[p].pc \in UnderLock)
         \/ lock = p /\ lock' = None /\ ctl'[p].pc \notin UnderLock
         \/ lock = None /\ lock' = p /\ ctl'[p].pc \in UnderLock
  PROVE  LockIsHeld'
  BY ConstantsAssumption DEF LockIsHeld

(* Every step respects the lock.                                            *)
LEMMA StepKeepsLock ==
  ASSUME TypeOK, LockIsHeld, [Next]_vars
  PROVE  LockIsHeld'
  <1> USE DEF world, remote
  <1>1. CASE \/ UNCHANGED vars \/ ProfileReplaced \/ InstallerWrites
             \/ CloseInvitation \/ RevokeCredential \/ \E t \in Tokens : Deliver(t)
    BY <1>1 DEF vars, ProfileReplaced, InstallerWrites, CloseInvitation, RevokeCredential,
                Deliver, LockIsHeld
  <1>2. CASE InstallerBegins \/ InstallerEnds
    BY <1>2, ConstantsAssumption DEF InstallerBegins, InstallerEnds, LockIsHeld
  <1>3. CASE Initialize
    BY <1>3, InitializeEffect DEF Initialize, LockIsHeld
  <1>4. CASE Tick
    BY <1>4, TickEffect DEF Tick, LockIsHeld
  <1>5. ASSUME NEW p \in Controllers, Begin(p)
        PROVE  LockIsHeld'
    BY <1>5, BeginEffect, LockMoves DEF Begin, UnderLock
  <1>6. ASSUME NEW p \in Controllers, ReadState(p)
        PROVE  LockIsHeld'
    <2>1. ctl[p].pc = "read" /\ lock' = lock
      BY <1>6 DEF ReadState
    <2>2. ctl'[p].pc \in {"idle", "consult", "intend"}
      BY <1>6, ReadEffect DEF Idle
    <2> QED
      BY <1>6, <2>1, <2>2, ReadEffect, LockMoves DEF UnderLock
  <1>7. ASSUME NEW p \in Controllers, ReadFails(p)
        PROVE  LockIsHeld'
    BY <1>7, CallEffect, LockMoves DEF ReadFails, UnderLock, Idle
  <1>8. ASSUME NEW p \in Controllers, Crash(p) \/ Unexpected(p)
        PROVE  LockIsHeld'
    <2>1. /\ ctl'[p].pc = "idle"
          /\ \A q \in Controllers : q # p => ctl'[q].pc = ctl[q].pc
      BY <1>8, CallEffect DEF Crash, Unexpected, Idle
    <2>2. (lock = p /\ lock' = None) \/ (ctl[p].pc \notin UnderLock /\ lock' = lock)
      BY <1>8 DEF Crash, Unexpected, LockIsHeld
    <2> QED
      BY <2>1, <2>2, LockMoves DEF UnderLock
  <1>9. ASSUME NEW p \in Controllers, Intend(p)
        PROVE  LockIsHeld'
    <2>1. ctl[p].pc = "intend" /\ lock' = lock
      BY <1>9 DEF Intend
    <2>2. /\ ctl'[p].pc \in {"idle", "lock"}
          /\ \A q \in Controllers : q # p => ctl'[q].pc = ctl[q].pc
      BY <1>9, IntendEffect, OutcomeEffect
    <2> QED
      BY <2>1, <2>2, LockMoves DEF UnderLock
  <1>10. ASSUME NEW p \in Controllers, Succeed(p) \/ BackOff(p) \/ Consult(p)
         PROVE  LockIsHeld'
    <2>1. ctl[p].pc \in {"succeeded", "delayed", "consult"} /\ lock' = lock
      BY <1>10 DEF Succeed, BackOff, Consult
    <2>2. /\ ctl'[p].pc = "idle"
          /\ \A q \in Controllers : q # p => ctl'[q].pc = ctl[q].pc
      BY <1>10, EndsAreOutcomes, OutcomeEffect
    <2> QED
      BY <2>1, <2>2, LockMoves DEF UnderLock
  <1>11. ASSUME NEW p \in Controllers, TakeLock(p)
         PROVE  LockIsHeld'
    <2>1. ctl[p].pc = "lock" /\ lock # p
      BY <1>11 DEF TakeLock, LockIsHeld, UnderLock
    <2>2. CASE lock = None
      <3>1. lock' = p /\ Goto(p, "local")
        BY <1>11, <2>2 DEF TakeLock
      <3>2. /\ ctl'[p].pc = "local"
            /\ \A q \in Controllers : q # p => ctl'[q] = ctl[q]
        BY <3>1, CallEffect DEF Steps
      <3> QED
        BY <2>2, <3>1, <3>2, LockMoves DEF UnderLock
    <2>3. CASE lock # None
      <3>1. Delay(p) /\ lock' = lock
        BY <1>11, <2>1, <2>3 DEF TakeLock, Delay
      <3> QED
        BY <2>1, <3>1, EndEffect, LockMoves DEF UnderLock
    <2> QED
      BY <2>2, <2>3
  <1>12. ASSUME NEW p \in Controllers,
                Local(p) \/ Send(p) \/ Store(p) \/ Promote(p) \/ Verify(p) \/ Retire(p)
         PROVE  LockIsHeld'
    BY <1>12, AttemptEffect, LockMoves DEF UnderLock
  <1> QED
    BY <1>1, <1>2, <1>3, <1>4, <1>5, <1>6, <1>7, <1>8, <1>9, <1>10, <1>11, <1>12
    DEF Next, Proceed

----------------------------------------------------------------------------
(* Enrolment                                                                *)

(* A step that touches neither the files nor the redemption, nor starts an  *)
(* attempt's file operations.                                               *)
Aside ==
  /\ files' = files
  /\ network' = network
  /\ server'.redeemedBy = server.redeemedBy
  /\ lock' = Installer => lock = Installer
  /\ \A q \in Controllers :
       \/ ctl'[q].pc = ctl[q].pc
       \/ ctl'[q].pc \notin {"send", "store", "promote", "verify", "retire", "succeeded"}

(* It leaves enrolment as it is.                                            *)
LEMMA AsideKeepsEnrolment ==
  ASSUME EnrolmentFits, Aside
  PROVE  EnrolmentFits'
  <1> USE DEF EnrolmentFits, Aside
  <1>1. InstallerIsFirst'
    BY DEF InstallerIsFirst
  <1>2. NoCredentialIsLost'
    BY DEF NoCredentialIsLost, Held
  <1>3. NoConflictingFiles'
    BY DEF NoConflictingFiles
  <1>4. CredentialsAreRedeemed'
    BY DEF CredentialsAreRedeemed, PendingIs
  <1>5. StepsFitFiles'
    BY DEF StepsFitFiles, PendingIs
  <1>6. ResumableInstallation'
    BY DEF ResumableInstallation, PendingIs
  <1> QED
    BY <1>1, <1>2, <1>3, <1>4, <1>5, <1>6

(* The steps outside the attempts, and the ends of calls, are aside.        *)
LEMMA OtherStepsAreAside ==
  ASSUME TypeOK, LockIsHeld,
         \/ UNCHANGED vars \/ InstallerEnds \/ Initialize \/ ProfileReplaced
         \/ CloseInvitation \/ RevokeCredential \/ Tick
         \/ \E p \in Controllers :
              \/ Begin(p) \/ ReadState(p) \/ ReadFails(p) \/ Intend(p) \/ TakeLock(p)
              \/ Succeed(p) \/ BackOff(p) \/ Consult(p) \/ Crash(p) \/ Unexpected(p)
  PROVE  Aside
  <1> USE DEF world, remote
  <1>1. CASE UNCHANGED vars \/ ProfileReplaced
    BY <1>1 DEF vars, ProfileReplaced, Aside
  <1>2. CASE InstallerEnds
    BY <1>2 DEF InstallerEnds, Aside
  <1>3. CASE CloseInvitation \/ RevokeCredential
    BY <1>3 DEF CloseInvitation, RevokeCredential, Aside, TypeOK, Server
  <1>4. CASE Initialize
    BY <1>4, InitializeEffect DEF Initialize, Aside
  <1>5. CASE Tick
    BY <1>5, TickEffect DEF Tick, Aside
  <1>6. ASSUME NEW p \in Controllers, Begin(p)
        PROVE  Aside
    BY <1>6, BeginEffect DEF Begin, Aside
  <1>7. ASSUME NEW p \in Controllers, ReadState(p)
        PROVE  Aside
    <2>1. UNCHANGED <<files, lock, remote>>
      BY <1>7 DEF ReadState
    <2>2. ctl'[p].pc \in {"idle", "consult", "intend"}
      BY <1>7, ReadEffect DEF Idle
    <2> QED
      BY <1>7, <2>1, <2>2, ReadEffect DEF Aside
  <1>8. ASSUME NEW p \in Controllers, ReadFails(p)
        PROVE  Aside
    BY <1>8, CallEffect DEF ReadFails, Aside, Idle
  <1>9. ASSUME NEW p \in Controllers, Crash(p) \/ Unexpected(p)
        PROVE  Aside
    <2>1. UNCHANGED <<files, remote>> /\ lock' \in {lock, None}
      BY <1>9 DEF Crash, Unexpected
    <2>2. /\ ctl'[p].pc = "idle"
          /\ \A q \in Controllers : q # p => ctl'[q].pc = ctl[q].pc
      BY <1>9, CallEffect DEF Crash, Unexpected, Idle
    <2> QED
      BY <2>1, <2>2, ConstantsAssumption DEF Aside
  <1>10. ASSUME NEW p \in Controllers, Intend(p)
         PROVE  Aside
    <2>1. UNCHANGED <<files, lock, remote>>
      BY <1>10 DEF Intend
    <2>2. /\ ctl'[p].pc \in {"idle", "lock"}
          /\ \A q \in Controllers : q # p => ctl'[q].pc = ctl[q].pc
      BY <1>10, IntendEffect, OutcomeEffect
    <2> QED
      BY <2>1, <2>2 DEF Aside
  <1>11. ASSUME NEW p \in Controllers, Succeed(p) \/ BackOff(p) \/ Consult(p)
         PROVE  Aside
    <2>1. UNCHANGED <<files, lock, remote>>
      BY <1>11 DEF Succeed, BackOff, Consult
    <2>2. /\ ctl'[p].pc = "idle"
          /\ \A q \in Controllers : q # p => ctl'[q].pc = ctl[q].pc
      BY <1>11, EndsAreOutcomes, OutcomeEffect
    <2> QED
      BY <2>1, <2>2 DEF Aside
  <1>12. ASSUME NEW p \in Controllers, TakeLock(p)
         PROVE  Aside
    <2>1. UNCHANGED <<files, remote>> /\ lock' \in {lock, p, None}
      BY <1>12 DEF TakeLock, Delay
    <2>2. Goto(p, "local") \/ Delay(p)
      BY <1>12 DEF TakeLock
    <2>3. /\ ctl'[p].pc \in {"local", "delayed", "consult"}
          /\ \A q \in Controllers : q # p => ctl'[q].pc = ctl[q].pc
      BY <2>2, CallEffect, EndEffect DEF Steps
    <2> QED
      BY <2>1, <2>3, ConstantsAssumption DEF Aside
  <1> QED
    BY <1>1, <1>2, <1>3, <1>4, <1>5, <1>6, <1>7, <1>8, <1>9, <1>10, <1>11, <1>12

(* The steps of the installer fit.                                          *)
LEMMA InstallerKeepsEnrolment ==
  ASSUME TypeOK, LockIsHeld, EnrolmentFits, InstallerBegins \/ InstallerWrites
  PROVE  EnrolmentFits'
  <1> USE DEF world, remote
  <1>1. CASE InstallerBegins
    <2>1. UNCHANGED <<files, server, network, ctl>> /\ files.pending = None /\ files.target = None
      BY <1>1 DEF InstallerBegins
    <2> QED
      BY <2>1
      DEF EnrolmentFits, InstallerIsFirst, NoCredentialIsLost, Held, NoConflictingFiles,
          CredentialsAreRedeemed, StepsFitFiles, ResumableInstallation, PendingIs
  <1>2. CASE InstallerWrites
    <2>1. /\ UNCHANGED <<lock, server, network, ctl>>
          /\ files'.pending = files.pending /\ files'.target = files.target
          /\ \/ files'.profile = files.profile /\ files'.invite = files.invite /\ files'.ca
             \/ files'.profile = files.profile /\ files'.ca = files.ca /\ files'.invite
             \/ files'.ca /\ files'.invite
      BY <1>2 DEF InstallerWrites, TypeOK, Files
    <2> QED
      BY <2>1
      DEF EnrolmentFits, InstallerIsFirst, NoCredentialIsLost, Held, NoConflictingFiles,
          CredentialsAreRedeemed, StepsFitFiles, ResumableInstallation, PendingIs
  <1> QED
    BY <1>1, <1>2

(* The server redeems once.                                                 *)
LEMMA RedeemedEffect ==
  ASSUME TypeOK, NEW t \in Tokens
  PROVE  Redeemed(t).redeemedBy =
           IF server.redeemedBy = None /\ server.invitation = "issued"
           THEN t ELSE server.redeemedBy
  BY DEF Redeemed, TypeOK, Server

(* A late request fits.                                                     *)
LEMMA DeliverKeepsEnrolment ==
  ASSUME TypeOK, EnrolmentFits, NEW t \in Tokens, Deliver(t)
  PROVE  EnrolmentFits'
  <1>1. /\ UNCHANGED <<files, lock, ctl>>
        /\ t \in network /\ network' \subseteq network
        /\ server'.redeemedBy = server.redeemedBy \/ (server.redeemedBy = None /\ server'.redeemedBy = t)
    BY RedeemedEffect DEF Deliver
  <1>2. t # None /\ \A p \in Pending : p # None => p.token # None
    BY ConstantsAssumption DEF Pending
  <1>3. files.pending \in Pending
    BY DEF TypeOK, Files
  <1> QED
    BY <1>1, <1>2, <1>3
    DEF EnrolmentFits, InstallerIsFirst, NoCredentialIsLost, Held, NoConflictingFiles,
        CredentialsAreRedeemed, StepsFitFiles, ResumableInstallation, PendingIs

(* A step of an attempt.                                                    *)
Attempt(p) == Local(p) \/ Send(p) \/ Store(p) \/ Promote(p) \/ Verify(p) \/ Retire(p)

(* What one call finds in the files.                                        *)
StepFits(p) ==
  /\ ctl[p].pc \in {"send", "store"} => PendingIs("marker")
  /\ ctl[p].pc = "store" => server.redeemedBy = files.pending.token
  /\ ctl[p].pc = "promote" => PendingIs("credential")
  /\ ctl[p].pc \in {"send", "store", "promote"} => files.target = None
  /\ ctl[p].pc \in {"verify", "retire", "succeeded"} => files.target # None

(* Nobody else is under the lock, so that what an attempt does to the files *)
(* concerns its own steps only.                                             *)
LEMMA AttemptsFit ==
  ASSUME TypeOK, LockIsHeld, StepsFitFiles, NEW p \in Controllers, Attempt(p),
         StepFits(p)',
         files.target # None => files'.target # None
  PROVE  StepsFitFiles' /\ InstallerIsFirst'
  <1>1. /\ ctl[p].pc \in UnderLock /\ lock = p
        /\ \A q \in Controllers : q # p => ctl'[q] = ctl[q]
        /\ lock' \in {lock, None}
    BY AttemptEffect DEF Attempt
  <1>2. lock # Installer /\ \A q \in Controllers : q # p => ctl[q].pc \notin UnderLock
    BY <1>1, Alone
  <1>3. InstallerIsFirst'
    BY <1>1, <1>2, ConstantsAssumption DEF InstallerIsFirst
  <1>4. \A q \in Controllers : q # p =>
          /\ ctl'[q].pc \notin UnderLock
          /\ ctl'[q].pc = "succeeded" => files'.target # None
    BY <1>1, <1>2 DEF StepsFitFiles
  <1>5. StepsFitFiles'
    BY <1>4 DEF StepsFitFiles, StepFits, UnderLock
  <1> QED
    BY <1>3, <1>5

(* The files of an attempt: what is written in each case.                   *)
LEMMA FilesEffect ==
  ASSUME TypeOK
  PROVE  /\ \A t \in Tokens :
              /\ Prepared(t).pending = [kind |-> "marker", token |-> t]
              /\ Prepared(t).target = files.target
              /\ Prepared(t).ca = files.ca /\ Prepared(t).invite = files.invite
              /\ Prepared(t).profile = files.profile
         /\ files.pending # None =>
              /\ Stored.pending # None
              /\ Stored.pending.kind = "credential"
              /\ Stored.pending.token = files.pending.token
         /\ Stored.target = files.target
         /\ Stored.ca = files.ca /\ Stored.invite = files.invite /\ Stored.profile = files.profile
         /\ Promoted.pending = None /\ Promoted.target = files.pending.token
         /\ Promoted.ca = files.ca /\ Promoted.invite = files.invite
         /\ Promoted.profile = files.profile
         /\ files.pending # None => files.pending.token \in Tokens
  <1>1. files \in Files /\ files.pending \in Pending
    BY DEF TypeOK, Files
  <1>2. ASSUME files.pending # None
        PROVE  /\ files.pending.token \in Tokens
               /\ [files.pending EXCEPT !.kind = "credential"]
                    \in [kind: {"marker", "credential"}, token: Tokens]
               /\ [files.pending EXCEPT !.kind = "credential"].kind = "credential"
               /\ [files.pending EXCEPT !.kind = "credential"].token = files.pending.token
    BY <1>1, <1>2 DEF Pending
  <1>3. files.pending # None => Stored.pending # None
    BY <1>1, <1>2, ConstantsAssumption DEF Files, Stored
  <1> QED
    BY <1>1, <1>2, <1>3 DEF Files, Prepared, Stored, Promoted

(* Where an attempt resumes.                                                *)
LEMMA LocalKeepsEnrolment ==
  ASSUME TypeOK, LockIsHeld, EnrolmentFits, NEW p \in Controllers, Local(p)
  PROVE  EnrolmentFits'
  <1>1. UNCHANGED <<server, network>>
    BY DEF Local, remote
  <1>2. \A step \in Steps : Goto(p, step) => ctl'[p].pc = step
    BY CallEffect
  <1>3. Refuse(p) => ctl'[p].pc = "consult"
    BY <1>2 DEF Refuse, Steps
  <1>4. \A t \in Tokens :
          [kind |-> "marker", token |-> t] # None
    BY ConstantsAssumption
  <1>5. files' = files \/ (files.target = None /\ files.pending = None /\ files.invite
                          /\ \E t \in NewTokens : files' = Prepared(t))
    BY DEF Local
  <1>6. CASE files' = files
    <2>1. \/ ctl'[p].pc = "verify" /\ files.target # None
          \/ ctl'[p].pc = "promote" /\ files.target = None /\ PendingIs("credential")
          \/ ctl'[p].pc = "send" /\ files.target = None /\ PendingIs("marker")
          \/ ctl'[p].pc = "send" /\ \E t \in Tokens : files' = Prepared(t) /\ files.target = None
          \/ ctl'[p].pc = "consult"
      BY <1>2, <1>3 DEF Local, Steps, NewTokens
    <2>2. ASSUME NEW t \in Tokens, files' = Prepared(t)
          PROVE  PendingIs("marker")'
      <3>1. files'.pending = [kind |-> "marker", token |-> t]
        BY <2>2, FilesEffect
      <3> QED
        BY <1>4, <3>1 DEF PendingIs
    <2>3. StepFits(p)'
      BY <1>6, <2>1, <2>2 DEF StepFits, PendingIs
    <2>4. StepsFitFiles' /\ InstallerIsFirst'
      BY <1>6, <2>3, AttemptsFit DEF Attempt, EnrolmentFits
    <2> QED
      BY <1>1, <1>6, <2>4
      DEF EnrolmentFits, NoCredentialIsLost, Held, NoConflictingFiles,
          CredentialsAreRedeemed, ResumableInstallation, PendingIs
  <1>7. ASSUME NEW t \in NewTokens, files' = Prepared(t),
               files.target = None, files.pending = None, files.invite
        PROVE  EnrolmentFits'
    <2>1. t \in Tokens
      BY DEF NewTokens
    <2>2. /\ files'.pending # None /\ files'.pending.kind = "marker"
          /\ files'.target = None /\ files'.invite
          /\ files'.profile = files.profile /\ files'.ca = files.ca
      <3>1. files'.pending = [kind |-> "marker", token |-> t]
        BY <1>7, <2>1, FilesEffect
      <3>2. files'.pending # None /\ files'.pending.kind = "marker"
        BY <1>4, <2>1, <3>1
      <3>3. /\ files'.target = files.target /\ files'.invite = files.invite
            /\ files'.profile = files.profile /\ files'.ca = files.ca
        BY <1>7, <2>1, FilesEffect
      <3> QED
        BY <1>7, <3>2, <3>3
    <2>3. ctl'[p].pc \in {"send", "consult"}
      BY <1>2, <1>3, <1>7 DEF Local, Steps, PendingIs
    <2>4. StepFits(p)'
      BY <2>2, <2>3 DEF StepFits, PendingIs
    <2>5. StepsFitFiles' /\ InstallerIsFirst'
      BY <1>7, <2>4, AttemptsFit DEF Attempt, EnrolmentFits
    <2>6. network = {} /\ server.redeemedBy = None
      <3>1. \A u \in network \cup ({server.redeemedBy} \ {None}) : u = None
        BY <1>7 DEF EnrolmentFits, NoCredentialIsLost, Held
      <3>2. None \notin network
        BY ConstantsAssumption DEF TypeOK
      <3> QED
        BY <3>1, <3>2
    <2> QED
      BY <1>1, <1>7, <2>2, <2>5, <2>6
      DEF EnrolmentFits, NoCredentialIsLost, NoConflictingFiles,
          CredentialsAreRedeemed, ResumableInstallation, PendingIs
  <1> QED
    BY <1>5, <1>6, <1>7

(* The request is served, or its reply is lost.                             *)
LEMMA SendKeepsEnrolment ==
  ASSUME TypeOK, LockIsHeld, EnrolmentFits, NEW p \in Controllers, Send(p)
  PROVE  EnrolmentFits'
  <1> DEFINE t == files.pending.token
  <1>1. files' = files /\ files.target = None /\ PendingIs("marker")
    BY DEF Send, EnrolmentFits, StepsFitFiles
  <1>2. t \in Tokens
    BY <1>1, FilesEffect DEF PendingIs
  <1>3. \/ /\ server' = Redeemed(t) /\ network' = network
           /\ ctl'[p].pc = "store" /\ server'.redeemedBy = t
        \/ /\ server' \in {server, Redeemed(t)} /\ network' \subseteq network \cup {t}
           /\ ctl'[p].pc \in {"delayed", "consult"}
    BY CallEffect, EndEffect DEF Send, Steps, Refuse
  <1>4. StepFits(p)'
    BY <1>1, <1>3 DEF StepFits, PendingIs
  <1>5. StepsFitFiles' /\ InstallerIsFirst'
    BY <1>1, <1>4, AttemptsFit DEF Attempt, EnrolmentFits
  <1>6. server'.redeemedBy \in {server.redeemedBy, t} /\ network' \subseteq network \cup {t}
    BY <1>2, <1>3, RedeemedEffect
  <1> QED
    BY <1>1, <1>2, <1>5, <1>6, ConstantsAssumption
    DEF EnrolmentFits, NoCredentialIsLost, Held, NoConflictingFiles,
        CredentialsAreRedeemed, ResumableInstallation, PendingIs

(* The credential is stored.                                                *)
LEMMA StoreKeepsEnrolment ==
  ASSUME TypeOK, LockIsHeld, EnrolmentFits, NEW p \in Controllers, Store(p)
  PROVE  EnrolmentFits'
  <1>1. /\ files.target = None /\ PendingIs("marker")
        /\ server.redeemedBy = files.pending.token
    BY DEF Store, EnrolmentFits, StepsFitFiles
  <1>2. UNCHANGED <<server, network>>
    BY DEF Store, remote
  <1>3. \/ files' = Stored /\ ctl'[p].pc = "promote"
        \/ files' \in {files, Stored} /\ ctl'[p].pc = "consult"
    BY CallEffect DEF Store, Steps, Refuse
  <1>4. /\ files'.target = None /\ files'.pending # None
        /\ files'.pending.token = files.pending.token
        /\ files'.ca = files.ca /\ files'.invite = files.invite /\ files'.profile = files.profile
        /\ files'.pending.kind = "credential" \/ ctl'[p].pc = "consult"
    BY <1>1, <1>3, FilesEffect DEF PendingIs
  <1>5. StepFits(p)'
    BY <1>3, <1>4 DEF StepFits, PendingIs
  <1>6. StepsFitFiles' /\ InstallerIsFirst'
    BY <1>1, <1>5, AttemptsFit DEF Attempt, EnrolmentFits
  <1>7. files'.invite = files.invite /\ (PendingIs("credential") => PendingIs("credential")')
    BY <1>1, <1>4 DEF PendingIs
  <1> QED
    BY <1>1, <1>2, <1>4, <1>6, <1>7
    DEF EnrolmentFits, NoCredentialIsLost, Held, NoConflictingFiles,
        CredentialsAreRedeemed, ResumableInstallation, PendingIs

(* The credential is promoted.                                              *)
LEMMA PromoteKeepsEnrolment ==
  ASSUME TypeOK, LockIsHeld, EnrolmentFits, NEW p \in Controllers, Promote(p)
  PROVE  EnrolmentFits'
  <1>1. /\ files.target = None /\ PendingIs("credential")
        /\ server.redeemedBy = files.pending.token
    BY DEF Promote, EnrolmentFits, StepsFitFiles, CredentialsAreRedeemed
  <1>2. UNCHANGED <<server, network>>
    BY DEF Promote, remote
  <1>3. CASE files' = files /\ Delay(p)
    <2>1. ctl'[p].pc \in {"delayed", "consult"}
      BY <1>3, EndEffect
    <2>2. StepFits(p)'
      BY <2>1 DEF StepFits
    <2>3. StepsFitFiles' /\ InstallerIsFirst'
      BY <1>3, <2>2, AttemptsFit DEF Attempt, EnrolmentFits
    <2> QED
      BY <1>2, <1>3, <2>3
      DEF EnrolmentFits, NoCredentialIsLost, Held, NoConflictingFiles,
          CredentialsAreRedeemed, ResumableInstallation, PendingIs
  <1>4. CASE files' = Promoted /\ Goto(p, "verify")
    <2>1. ctl'[p].pc = "verify"
      BY <1>4, CallEffect DEF Steps
    <2>2. /\ files'.pending = None /\ files'.target = files.pending.token
          /\ files'.target # None
          /\ files'.ca = files.ca /\ files'.profile = files.profile
      BY <1>1, <1>4, FilesEffect, ConstantsAssumption DEF PendingIs
    <2>3. StepFits(p)'
      BY <2>1, <2>2 DEF StepFits
    <2>4. StepsFitFiles' /\ InstallerIsFirst'
      BY <2>2, <2>3, AttemptsFit DEF Attempt, EnrolmentFits
    <2>5. None \notin network
      BY ConstantsAssumption DEF TypeOK
    <2>6. NoCredentialIsLost'
      BY <1>1, <1>2, <2>2, <2>5 DEF EnrolmentFits, NoCredentialIsLost, Held
    <2> QED
      BY <1>1, <1>2, <2>2, <2>4, <2>6
      DEF EnrolmentFits, NoConflictingFiles, CredentialsAreRedeemed, ResumableInstallation,
          PendingIs
  <1> QED
    BY <1>3, <1>4 DEF Promote

(* The credential is verified and the invitation retired.                   *)
LEMMA VerifyKeepsEnrolment ==
  ASSUME TypeOK, LockIsHeld, EnrolmentFits, NEW p \in Controllers, Verify(p) \/ Retire(p)
  PROVE  EnrolmentFits'
  <1>1. files.target # None
    BY DEF Verify, Retire, EnrolmentFits, StepsFitFiles
  <1>2. UNCHANGED <<server, network>>
    BY DEF Verify, Retire, remote
  <1>3. /\ files'.target = files.target /\ files'.pending = files.pending
        /\ files'.ca = files.ca /\ files'.profile = files.profile
    BY DEF Verify, Retire, TypeOK, Files
  <1>4. ctl'[p].pc \in {"retire", "succeeded", "delayed", "consult"}
    BY CallEffect, EndEffect DEF Verify, Retire, Steps, Refuse
  <1>5. StepFits(p)'
    BY <1>1, <1>3, <1>4 DEF StepFits
  <1>6. StepsFitFiles' /\ InstallerIsFirst'
    BY <1>3, <1>5, AttemptsFit DEF Attempt, EnrolmentFits
  <1> QED
    BY <1>1, <1>2, <1>3, <1>6
    DEF EnrolmentFits, NoCredentialIsLost, Held, NoConflictingFiles,
        CredentialsAreRedeemed, ResumableInstallation, PendingIs

(* Every step keeps enrolment fitting.                                      *)
LEMMA StepKeepsEnrolment ==
  ASSUME TypeOK, LockIsHeld, EnrolmentFits, [Next]_vars
  PROVE  EnrolmentFits'
  <1>1. ASSUME Aside PROVE EnrolmentFits'
    BY <1>1, AsideKeepsEnrolment
  <1>2. CASE \E p \in Controllers : Attempt(p)
    BY <1>2, LocalKeepsEnrolment, SendKeepsEnrolment, StoreKeepsEnrolment,
       PromoteKeepsEnrolment, VerifyKeepsEnrolment
    DEF Attempt
  <1> QED
    BY <1>1, <1>2, OtherStepsAreAside, InstallerKeepsEnrolment, DeliverKeepsEnrolment
    DEF Next, Proceed, Attempt

----------------------------------------------------------------------------
(* The controller record                                                    *)

(* What a step may do to the record: leave it, start it, let time pass, or  *)
(* swap it for a call whose revision is the last one.                       *)
LEMMA RecordEffect ==
  ASSUME TypeOK, LockIsHeld, [Next]_vars
  PROVE  \/ disk' = disk
         \/ Initialize
         \/ Tick
         \/ \E p \in Controllers :
              /\ ctl[p].current
              /\ \/ Intend(p) /\ disk' = Intent(p)
                 \/ /\ disk'.phase # "connecting"
                    /\ disk'.phase = "active" =>
                         ctl[p].pc = "succeeded" /\ UNCHANGED <<files, server>>
  <1> USE DEF world, remote
  <1>1. CASE \/ UNCHANGED vars \/ InstallerBegins \/ InstallerWrites \/ InstallerEnds
             \/ ProfileReplaced \/ CloseInvitation \/ RevokeCredential
             \/ \E t \in Tokens : Deliver(t)
    BY <1>1 DEF vars, InstallerBegins, InstallerWrites, InstallerEnds, ProfileReplaced,
                CloseInvitation, RevokeCredential, Deliver
  <1>2. CASE \E p \in Controllers :
               \/ Begin(p) \/ ReadState(p) \/ ReadFails(p) \/ TakeLock(p)
               \/ Crash(p) \/ Unexpected(p) \/ Attempt(p)
    BY <1>2, AttemptEffect
    DEF Attempt, Begin, ReadState, ReadFails, TakeLock, Crash, Unexpected
  <1>3. ASSUME NEW p \in Controllers, Intend(p)
        PROVE  disk' = disk \/ (ctl[p].current /\ disk' = Intent(p))
    BY <1>3, IntendEffect, OutcomeEffect
  <1>4. ASSUME NEW p \in Controllers, Succeed(p) \/ BackOff(p) \/ Consult(p)
        PROVE  \/ disk' = disk
               \/ /\ ctl[p].current
                  /\ disk'.phase # "connecting"
                  /\ disk'.phase = "active" =>
                       ctl[p].pc = "succeeded" /\ UNCHANGED <<files, server>>
    <2>1. UNCHANGED <<files, server>>
      BY <1>4 DEF Succeed, BackOff, Consult
    <2>2. PICK record \in Record :
            /\ Outcome(p, record)
            /\ record.phase = "active" => ctl[p].pc = "succeeded"
            /\ record.phase # "connecting"
      BY <1>4, EndsAreOutcomes
    <2> QED
      BY <2>1, <2>2, OutcomeEffect
  <1> QED
    BY <1>1, <1>2, <1>3, <1>4 DEF Next, Proceed, Attempt

(* Once a token is redeemed and in use, it stays so.                        *)
LEMMA RedemptionStays ==
  ASSUME TypeOK, LockIsHeld, EnrolmentFits, [Next]_vars,
         files.target # None, server.redeemedBy = files.target
  PROVE  files'.target = files.target /\ server'.redeemedBy = server.redeemedBy
  <1> USE DEF world, remote
  <1>1. ASSUME Aside PROVE files' = files /\ server'.redeemedBy = server.redeemedBy
    BY <1>1 DEF Aside
  <1>2. CASE InstallerBegins \/ InstallerWrites
    BY <1>2 DEF InstallerBegins, InstallerWrites, TypeOK, Files
  <1>3. ASSUME NEW t \in Tokens, Deliver(t)
        PROVE  files' = files /\ server'.redeemedBy = server.redeemedBy
    BY <1>3, RedeemedEffect DEF Deliver
  <1>4. ASSUME NEW p \in Controllers, Attempt(p)
        PROVE  files'.target = files.target /\ server'.redeemedBy = server.redeemedBy
    <2>1. ctl[p].pc \notin {"send", "store", "promote"}
      BY DEF EnrolmentFits, StepsFitFiles
    <2>2. Local(p) \/ Verify(p) \/ Retire(p)
      BY <1>4, <2>1 DEF Attempt, Send, Store, Promote
    <2> QED
      BY <2>2 DEF Local, Verify, Retire, TypeOK, Files
  <1> QED
    BY <1>1, <1>2, <1>3, <1>4, OtherStepsAreAside DEF Next, Proceed, Attempt

(* A service that is recorded as active stays enrolled.                     *)
LEMMA StepKeepsActiveEnrolled ==
  ASSUME TypeOK, LockIsHeld, EnrolmentFits, ActiveIsEnrolled, [Next]_vars
  PROVE  ActiveIsEnrolled'
  <1>1. CASE disk.phase = "active"
    BY <1>1, RedemptionStays DEF ActiveIsEnrolled
  <1>2. CASE disk.phase # "active" /\ disk'.phase = "active"
    <2>1. ~Initialize
      BY <1>2 DEF Initialize
    <2>2. ~Tick
      BY <1>2 DEF Tick, TypeOK, Record
    <2>3. \A p \in Controllers : disk' # Intent(p)
      BY <1>2 DEF Intent
    <2>4. PICK p \in Controllers : ctl[p].pc = "succeeded" /\ UNCHANGED <<files, server>>
      BY <1>2, <2>1, <2>2, <2>3, RecordEffect
    <2>5. files.target # None /\ server.redeemedBy = files.target
      BY <2>4 DEF EnrolmentFits, StepsFitFiles, CredentialsAreRedeemed
    <2> QED
      BY <2>4, <2>5 DEF ActiveIsEnrolled
  <1> QED
    BY <1>1, <1>2 DEF ActiveIsEnrolled

(* What is known of a call whose revision is the last one stays true.       *)
LEMMA StepKeepsCurrentOpen ==
  ASSUME TypeOK, LockIsHeld, CurrentIsOpen, [Next]_vars
  PROVE  CurrentIsOpen'
  <1> USE DEF world, remote
  \* Calls that stay as they are, or are not about to record an attempt.
  <1>1. ASSUME disk' = disk,
               \A q \in Controllers :
                 \/ ctl'[q] = ctl[q]
                 \/ ~ctl'[q].current
                 \/ ctl'[q].pc # "intend" /\ ctl'[q].current = ctl[q].current
        PROVE  CurrentIsOpen'
    BY <1>1 DEF CurrentIsOpen, Now
  <1>2. CASE \/ UNCHANGED vars \/ InstallerBegins \/ InstallerWrites \/ InstallerEnds
             \/ ProfileReplaced \/ CloseInvitation \/ RevokeCredential
             \/ \E t \in Tokens : Deliver(t)
    BY <1>1, <1>2 DEF vars, InstallerBegins, InstallerWrites, InstallerEnds, ProfileReplaced,
                CloseInvitation, RevokeCredential, Deliver
  <1>3. CASE Initialize
    BY <1>3, InitializeEffect DEF CurrentIsOpen
  <1>4. CASE Tick
    <2>1. \A q \in Controllers : ctl[q] \in Call /\ ctl[q].age \in Int
      BY ConstantsAssumption DEF TypeOK, Call
    <2>2. disk.due \in Int
      BY DEF TypeOK, Record
    <2>3. disk'.phase = disk.phase
      BY <1>4 DEF Tick, TypeOK, Record
    <2>4. disk.phase \in Timed => disk'.due = disk.due - 1 \/ (disk'.due = disk.due /\ disk.due < -MaxCall)
      BY <1>4, <2>2, ConstantsAssumption DEF Tick, TypeOK, Record
    <2>5. ASSUME NEW q \in Controllers, ctl'[q].current
          PROVE  /\ disk'.phase \notin Terminal \cup {"absent"}
                 /\ ctl'[q].pc = "intend" /\ disk'.phase \in Timed => disk'.due <= - ctl'[q].age
      <3>1. ctl[q].current /\ ctl'[q].pc = ctl[q].pc
        BY <1>4, <2>5, TickEffect
      <3>2. ctl[q].pc = "intend" => ctl'[q].age = ctl[q].age + 1 /\ ctl[q].age < MaxCall
        BY <1>4, TickEffect DEF Tick
      <3> QED
        BY <2>1, <2>2, <2>3, <2>4, <3>1, <3>2, ConstantsAssumption DEF CurrentIsOpen, Now
    <2> QED
      BY <2>5 DEF CurrentIsOpen, Now
  <1>5. ASSUME NEW p \in Controllers, Begin(p)
        PROVE  CurrentIsOpen'
    BY <1>1, <1>5, BeginEffect DEF Begin
  <1>6. ASSUME NEW p \in Controllers, ReadState(p)
        PROVE  CurrentIsOpen'
    <2>1. disk' = disk
      BY <1>6 DEF ReadState
    <2>2. ASSUME StandingAnswer(p) = "none"
          PROVE  /\ disk.phase \notin Terminal \cup {"absent"}
                 /\ ~ctl[p].drifted /\ disk.phase \in Timed => ~(Now(p) < disk.due)
      BY <2>2 DEF StandingAnswer, Waiting, Leased, Timed, Terminal
    <2>3. Now(p) \in Int /\ disk.due \in Int
      BY ConstantsAssumption DEF Now, TypeOK, Call, Record
    <2>4. \A q \in Controllers : q # p => ctl'[q] = ctl[q]
      BY <1>6, ReadEffect
    <2>5. /\ disk.phase \notin Terminal \cup {"absent"} \/ ~ctl'[p].current
          /\ \/ ctl'[p].pc # "intend"
             \/ disk.phase \in Timed => disk.due <= - ctl'[p].age
      BY <1>6, <2>2, <2>3, ReadEffect DEF Idle, Now
    <2> QED
      BY <2>1, <2>4, <2>5 DEF CurrentIsOpen, Now
  <1>7. ASSUME NEW p \in Controllers, ReadFails(p) \/ Crash(p) \/ Unexpected(p)
        PROVE  CurrentIsOpen'
    <2>1. disk' = disk /\ Answer(p)
      BY <1>7 DEF ReadFails, Crash, Unexpected
    <2> QED
      BY <1>1, <2>1, CallEffect DEF Idle
  <1>8. ASSUME NEW p \in Controllers, NEW record \in Record, Outcome(p, record)
        PROVE  CurrentIsOpen'
    <2>1. CASE \A q \in Controllers : ~ctl'[q].current
      BY <2>1 DEF CurrentIsOpen
    <2>2. CASE disk' = disk /\ \A q \in Controllers : q # p => ctl'[q] = ctl[q]
      BY <1>1, <1>8, <2>2, OutcomeEffect
    <2> QED
      BY <1>8, <2>1, <2>2, OutcomeEffect
  <1>9. ASSUME NEW p \in Controllers, Intend(p)
        PROVE  CurrentIsOpen'
    <2>1. CASE Outcome(p, Intent(p))
      BY <1>8, <2>1, RecordTypes
    <2>2. CASE /\ ctl[p].current /\ disk' = Intent(p)
               /\ ctl'[p].pc = "lock"
               /\ \A q \in Controllers : q # p => ~ctl'[q].current
      BY <2>2 DEF CurrentIsOpen, Intent, Terminal
    <2> QED
      BY <1>9, <2>1, <2>2, IntendEffect
  <1>10. ASSUME NEW p \in Controllers, Succeed(p) \/ BackOff(p) \/ Consult(p)
         PROVE  CurrentIsOpen'
    BY <1>8, <1>10, EndsAreOutcomes
  <1>11. ASSUME NEW p \in Controllers, TakeLock(p)
         PROVE  CurrentIsOpen'
    <2>1. disk' = disk /\ (Goto(p, "local") \/ Delay(p))
      BY <1>11 DEF TakeLock
    <2>2. /\ ctl'[p].pc \in {"local", "delayed", "consult"}
          /\ ctl'[p].current = ctl[p].current
          /\ \A q \in Controllers : q # p => ctl'[q] = ctl[q]
      BY <2>1, CallEffect, EndEffect DEF Steps
    <2> QED
      BY <1>1, <2>1, <2>2
  <1>12. ASSUME NEW p \in Controllers, Attempt(p)
         PROVE  CurrentIsOpen'
    BY <1>1, <1>12, AttemptEffect DEF Attempt, UnderLock
  <1> QED
    BY <1>2, <1>3, <1>4, <1>5, <1>6, <1>7, <1>9, <1>10, <1>11, <1>12
    DEF Next, Proceed, Attempt

----------------------------------------------------------------------------
(* Theorems                                                                 *)

(* The invariant is inductive and holds of every behaviour.                 *)
THEOREM Invariant == Spec => []IInv
  <1>1. Init => IInv
    <2> SUFFICES ASSUME Init PROVE IInv
      OBVIOUS
    <2>1. TypeOK
      BY InitType
    <2>2. \A p \in Controllers : ctl[p].pc = "idle" /\ ~ctl[p].current
      BY DEF Init, Idle
    <2>3. LockIsHeld /\ CurrentIsOpen /\ StepsFitFiles
      BY <2>2, ConstantsAssumption DEF Init, LockIsHeld, CurrentIsOpen, UnderLock, StepsFitFiles
    <2>4. /\ InstallerIsFirst /\ NoCredentialIsLost /\ NoConflictingFiles
          /\ CredentialsAreRedeemed /\ ResumableInstallation /\ ActiveIsEnrolled
      BY DEF Init, InstallerIsFirst, NoCredentialIsLost, NoConflictingFiles, PendingIs,
             CredentialsAreRedeemed, ResumableInstallation, ActiveIsEnrolled
    <2> QED
      BY <2>1, <2>3, <2>4 DEF IInv, EnrolmentFits
  <1>2. IInv /\ [Next]_vars => IInv'
    <2> SUFFICES ASSUME IInv, [Next]_vars PROVE IInv'
      OBVIOUS
    <2>1. TypeOK'
      BY StepKeepsTypes DEF IInv, EnrolmentFits
    <2>2. LockIsHeld'
      BY StepKeepsLock DEF IInv
    <2>3. EnrolmentFits'
      BY StepKeepsEnrolment DEF IInv
    <2>4. ActiveIsEnrolled'
      BY StepKeepsActiveEnrolled DEF IInv
    <2>5. CurrentIsOpen'
      BY StepKeepsCurrentOpen DEF IInv
    <2> QED
      BY <2>1, <2>2, <2>3, <2>4, <2>5 DEF IInv
  <1> QED
    BY <1>1, <1>2, PTL DEF Spec

(* Every state of the record, the files, the server, the network and the    *)
(* calls is of its type; no attempt is recorded beyond the budget.          *)
THEOREM TypeCorrect == Spec => []TypeOK
  <1>1. IInv => TypeOK
    BY DEF IInv
  <1> QED
    BY <1>1, Invariant, PTL

(* No crash, lost reply or failed write leaves a credential on the server   *)
(* that is in no file of the profile.                                       *)
THEOREM CredentialsKept == Spec => []NoCredentialIsLost
  <1>1. IInv => NoCredentialIsLost
    BY DEF IInv, EnrolmentFits
  <1> QED
    BY <1>1, Invariant, PTL

(* The files never conflict.                                                *)
THEOREM FilesConsistent == Spec => []NoConflictingFiles
  <1>1. IInv => NoConflictingFiles
    BY DEF IInv, EnrolmentFits
  <1> QED
    BY <1>1, Invariant, PTL

(* An installed profile can be enrolled or is.                              *)
THEOREM Resumable == Spec => []ResumableInstallation
  <1>1. IInv => ResumableInstallation
    BY DEF IInv, EnrolmentFits
  <1> QED
    BY <1>1, Invariant, PTL

(* A service that is recorded as active is enrolled.                        *)
THEOREM ActiveEnrolled == Spec => []ActiveIsEnrolled
  <1>1. IInv => ActiveIsEnrolled
    BY DEF IInv
  <1> QED
    BY <1>1, Invariant, PTL

(* Quarantine and halt are final: only a call that read an open record and  *)
(* that nobody has overtaken writes the record.                             *)
THEOREM EndsFinal == Spec => EndsAreFinal
  <1>1. IInv /\ [Next]_vars => [disk.phase \in Terminal => disk' = disk]_disk
    <2> SUFFICES ASSUME IInv, [Next]_vars, disk.phase \in Terminal
                 PROVE  disk' = disk
      OBVIOUS
    <2>1. \A p \in Controllers : ~ctl[p].current
      BY DEF IInv, CurrentIsOpen
    <2>2. ~Initialize
      BY DEF Initialize, Terminal
    <2>3. Tick => disk' = disk
      BY DEF Tick, Timed, Terminal
    <2> QED
      BY <2>1, <2>2, <2>3, RecordEffect DEF IInv
  <1> QED
    BY <1>1, Invariant, PTL DEF Spec, EndsAreFinal

(* An attempt is recorded only after the lease or the wait before it.       *)
THEOREM AttemptsTakeTurns == Spec => AttemptsWaitTheirTurn
  <1>1. IInv /\ [Next]_vars =>
          [disk'.phase = "connecting" /\ disk.phase \in Timed /\ disk'.count # disk.count
             => disk.due <= 0]_disk
    <2> SUFFICES ASSUME IInv, [Next]_vars,
                        disk'.phase = "connecting", disk.phase \in Timed,
                        disk'.count # disk.count
                 PROVE  disk.due <= 0
      OBVIOUS
    <2>1. ~Initialize
      BY DEF Initialize
    <2>2. ~Tick
      BY DEF Tick, IInv, TypeOK, Record
    <2>3. PICK p \in Controllers : ctl[p].current /\ Intend(p)
      BY <2>1, <2>2, RecordEffect DEF IInv
    <2>4. ctl[p].pc = "intend"
      BY <2>3 DEF Intend
    <2>5. disk.due <= Now(p) /\ ctl[p].age \in Nat /\ disk.due \in Int
      BY <2>3, <2>4, ConstantsAssumption DEF IInv, CurrentIsOpen, TypeOK, Call, Record
    <2> QED
      BY <2>5 DEF Now
  <1> QED
    BY <1>1, Invariant, PTL DEF Spec, AttemptsWaitTheirTurn

\* Whatever crashes, replies are lost or writes fail, the enrolment can be finished
\* from what is on disk.
THEOREM EnrolmentIsKept == Spec => []EnrolmentSurvives
  <1>1. /\ TypeOK /\ NoCredentialIsLost /\ NoConflictingFiles
        /\ ResumableInstallation /\ ActiveIsEnrolled
        => EnrolmentSurvives
    BY DEF EnrolmentSurvives
  <1> QED
    BY <1>1, TypeCorrect, CredentialsKept, FilesConsistent, Resumable, ActiveEnrolled, PTL

\* The attempts take turns and the end of the budget is final.
THEOREM AttemptsBounded == Spec => AttemptsAreBounded
  BY EndsFinal, AttemptsTakeTurns, PTL DEF AttemptsAreBounded

---------------------------------------------------------------------------
(* The inbound MCP server. *)

Grants ==
    \/ \E i \in Consents : AuthorizeGet(i) \/ Deny(i)
    \/ \E i \in Consents, j \in Codes : Allow(i, j)
    \/ \E i \in Codes, j \in Pairs : Exchange(i, j)
    \/ \E i, j \in Pairs : Refresh(i, j)
    \/ \E i \in Pairs : Reuse(i) \/ Revoke(i)

\* The calls that only look or only end.
Moves(r) == ClaimTaken(r) \/ QuotaReached(r) \/ Uncertain(r) \/ HandlerStops(r)

\* The calls that write.
Writes(r) == ClaimKey(r) \/ Submit(r) \/ SubmitRaises(r) \/ Release(r) \/ RecordAnswer(r)

Bears(r) == \E i \in Pairs, m \in Messages : Bearer(r, i, m)

\* Every step belongs to the grants or to one request of the tool.
LEMMA StepKinds ==
    ASSUME McpNext
    PROVE  Grants \/ \E r \in Requests : Moves(r) \/ Writes(r) \/ Bears(r)
  BY DEF McpNext, OAuth, Tool, Grants, Moves, Writes, Bears

\* The tool reads the grants and changes none of them.
LEMMA ToolKeepsGrants ==
    ASSUME NEW r \in Requests, Moves(r) \/ Writes(r) \/ Bears(r)
    PROVE  UNCHANGED <<sure, grants>>
  BY DEF Moves, Writes, Bears, ClaimTaken, QuotaReached, Uncertain, HandlerStops, ClaimKey, Submit,
         SubmitRaises, Release, RecordAnswer, Bearer

\* The grants know nothing of the tool.
LEMMA GrantsKeepTool ==
    ASSUME Grants
    PROVE  UNCHANGED <<sure, tool>>
  BY DEF Grants, AuthorizeGet, Deny, Allow, Exchange, Refresh, Reuse, Revoke, RevokeFamily

----------------------------------------------------------------------------
(* What the steps do to the rows. *)

\* An exchange consumes its code and inserts the head of a family.
LEMMA ExchangeEffect ==
    ASSUME McpTypeOK, NEW i \in Codes, NEW j \in Pairs, Exchange(i, j)
    PROVE  /\ codes[i].status = "issued" /\ pairs[j].family = Nobody /\ UNCHANGED consents
           /\ codes' \in [Codes -> Code] /\ codes'[i].status = "consumed"
           /\ \A k \in Codes : codes'[k].of = codes[k].of
           /\ \A k \in Codes \ {i} : codes'[k] = codes[k]
           /\ pairs' \in [Pairs -> Pair]
           /\ pairs'[j].access = "live" /\ pairs'[j].refresh = "live"
           /\ pairs'[j].family = j /\ pairs'[j].of = i
           /\ \A k \in Pairs \ {j} : pairs'[k] = pairs[k]
  <1>1. Inserted(j, i) \in Pair
    BY DEF Inserted, Pair, Rows
  <1>2. codes' \in [Codes -> Code] /\ \A k \in Codes : codes'[k].of = codes[k].of
    BY DEF Exchange, McpTypeOK, Code
  <1>3. codes'[i].status = "consumed" /\ \A k \in Codes \ {i} : codes'[k] = codes[k]
    BY DEF Exchange, McpTypeOK, Code
  <1>4. /\ pairs' \in [Pairs -> Pair] /\ pairs'[j] = Inserted(j, i)
        /\ \A k \in Pairs \ {j} : pairs'[k] = pairs[k]
    BY <1>1 DEF Exchange, McpTypeOK
  <1>5. codes[i].status = "issued" /\ pairs[j].family = Nobody /\ UNCHANGED consents
    BY DEF Exchange, Fresh
  <1> QED BY <1>2, <1>3, <1>4, <1>5 DEF Inserted

\* A refresh spends its token and inserts the next pair of the family.
LEMMA RefreshEffect ==
    ASSUME McpTypeOK, NEW i \in Pairs, NEW j \in Pairs, Refresh(i, j)
    PROVE  /\ pairs[i].refresh = "live" /\ pairs[i].family /= Nobody /\ pairs[j].family = Nobody
           /\ UNCHANGED <<consents, codes>>
           /\ pairs' \in [Pairs -> Pair]
           /\ pairs'[j].access = "live" /\ pairs'[j].refresh = "live"
           /\ pairs'[j].family = pairs[i].family /\ pairs'[j].of = pairs[i].of
           /\ pairs'[i].refresh = "revoked" /\ pairs'[i].access = pairs[i].access
           /\ pairs'[i].family = pairs[i].family /\ pairs'[i].of = pairs[i].of
           /\ \A k \in Pairs \ {j, i} : pairs'[k] = pairs[k]
  <1>1. pairs[i].refresh = "live" /\ pairs[j].family = Nobody /\ UNCHANGED <<consents, codes>>
    BY DEF Refresh, Fresh
  <1>2. Paired(i) /\ Paired(j) /\ pairs \in [Pairs -> Pair]
    BY DEF McpTypeOK
  <1>3. pairs[i].family /= Nobody /\ j /= i
    BY <1>1, <1>2 DEF Paired
  <1>4. /\ Inserted(pairs[i].family, pairs[i].of) \in Pair
        /\ [pairs[i] EXCEPT !.refresh = "revoked"] \in Pair
    BY <1>2 DEF Inserted, Pair, Rows
  <1>5. /\ pairs' \in [Pairs -> Pair]
        /\ pairs'[j] = Inserted(pairs[i].family, pairs[i].of)
        /\ pairs'[i] = [pairs[i] EXCEPT !.refresh = "revoked"]
        /\ \A k \in Pairs \ {j, i} : pairs'[k] = pairs[k]
    BY <1>2, <1>3, <1>4 DEF Refresh
  <1>6. /\ pairs'[i].refresh = "revoked" /\ pairs'[i].access = pairs[i].access
        /\ pairs'[i].family = pairs[i].family /\ pairs'[i].of = pairs[i].of
    BY <1>2, <1>5 DEF Pair
  <1> QED BY <1>1, <1>3, <1>5, <1>6 DEF Inserted

\* The end of a family touches none of its links.
LEMMA RevokeEffect ==
    ASSUME McpTypeOK, NEW i \in Pairs, Reuse(i) \/ Revoke(i)
    PROVE  /\ pairs[i].family /= Nobody /\ UNCHANGED <<consents, codes>>
           /\ pairs' \in [Pairs -> Pair]
           /\ \A k \in Pairs :
                 /\ pairs'[k].family = pairs[k].family /\ pairs'[k].of = pairs[k].of
                 /\ IF pairs[k].family = pairs[i].family
                    THEN pairs'[k].access = "revoked" /\ pairs'[k].refresh = "revoked"
                    ELSE pairs'[k] = pairs[k]
  <1> DEFINE f == pairs[i].family
             Cut(k) == [pairs[k] EXCEPT !.access = "revoked", !.refresh = "revoked"]
  <1>1. f /= Nobody
    BY DEF Reuse, Revoke, Fresh, McpTypeOK, Paired
  <1>2. /\ pairs' = [k \in Pairs |-> IF pairs[k].family = f THEN Cut(k) ELSE pairs[k]]
        /\ UNCHANGED <<consents, codes>>
    BY DEF Reuse, Revoke, RevokeFamily
  <1>3. ASSUME NEW k \in Pairs
        PROVE  /\ Cut(k) \in Pair /\ Cut(k).family = pairs[k].family /\ Cut(k).of = pairs[k].of
               /\ Cut(k).access = "revoked" /\ Cut(k).refresh = "revoked"
    <2>1. pairs[k] \in Pair
      BY DEF McpTypeOK
    <2> QED BY <2>1 DEF Pair, Rows
  <1> HIDE DEF Cut
  <1>4. \A k \in Pairs : pairs'[k] = IF pairs[k].family = f THEN Cut(k) ELSE pairs[k]
    BY <1>2
  <1>5. pairs' \in [Pairs -> Pair]
    BY <1>2, <1>3 DEF McpTypeOK
  <1> QED BY <1>1, <1>2, <1>3, <1>4, <1>5

----------------------------------------------------------------------------
(* The invariant. *)

\* A code comes from a consent that was used, and from no other code's.
CodesOnce ==
    /\ \A j \in Codes : codes[j].status /= "none" =>
          codes[j].of \in Consents /\ consents[codes[j].of] = "consumed"
    /\ \A i, j \in Codes :
          codes[i].status /= "none" /\ codes[j].status /= "none" /\ codes[i].of = codes[j].of
          => i = j

\* A family is headed by the pair its code made.
Headed ==
    \A i \in Pairs : pairs[i].family /= Nobody =>
       /\ pairs[i].family \in Pairs
       /\ pairs[pairs[i].family].family = pairs[i].family
       /\ pairs[i].of \in Codes /\ codes[pairs[i].of].status = "consumed"

FamiliesOnce ==
    \A i, j \in Pairs :
       pairs[i].family = i /\ pairs[j].family = j /\ pairs[i].of = pairs[j].of => i = j

OneToSpend ==
    \A i, j \in Pairs :
       /\ pairs[i].refresh = "live" /\ pairs[j].refresh = "live"
       /\ pairs[i].family = pairs[j].family
       => i = j

\* A call that is under way has its key.
Keyed == \A r \in Requests : at[r].pc /= "idle" => at[r].key \in Keys

\* A claimed key belongs to one call, and nothing is written under it before.
ClaimsHeld ==
    /\ \A r \in Requests : at[r].pc \in {"claimed", "releasing"} =>
          Holds(r, at[r].key) /\ (sure => stored[at[r].key] = 0)
    /\ sure => \A k \in Keys : /\ stored[k] \in {0, 1}
                               /\ stored[k] /= 0 => claims[k].status /= "none"

McpInv == McpTypeOK /\ CodesOnce /\ Headed /\ FamiliesOnce /\ OneToSpend /\ Keyed /\ ClaimsHeld

\* Nothing is granted or claimed at the start.
LEMMA InitIInv == McpInit => McpInv
  <1> SUFFICES ASSUME McpInit PROVE McpInv
    OBVIOUS
  <1> USE NobodyAssumption DEF McpInit, NotServed
  <1>1. McpTypeOK
    BY DEF McpTypeOK, Paired, Consent, Code, Rows, Pair, Claim, Keys, Pcs
  <1>2. CodesOnce /\ Headed /\ FamiliesOnce /\ OneToSpend
    BY DEF CodesOnce, Headed, FamiliesOnce, OneToSpend
  <1>3. Keyed /\ ClaimsHeld
    BY DEF Keyed, ClaimsHeld, Holds
  <1> QED BY <1>1, <1>2, <1>3 DEF McpInv

At == [pc : Pcs, key : Keys \cup {Nobody}]

\* What a step of the tool does to the calls: it moves its own.
LEMMA CallsStep ==
    ASSUME McpTypeOK, Keyed, NEW r \in Requests, Moves(r) \/ Writes(r) \/ Bears(r)
    PROVE  /\ at' \in [Requests -> At] /\ Keyed'
           /\ \A o \in Requests \ {r} : at'[o] = at[o]
           /\ Moves(r) \/ Writes(r) => at[r].key \in Keys
  <1> USE NobodyAssumption
  <1>0. at \in [Requests -> At] /\ NotServed \in At
    BY DEF McpTypeOK, At, NotServed, Pcs
  <1>1. CASE Bears(r)
    <2>1. PICK i \in Pairs, m \in Messages : Bearer(r, i, m)
      BY <1>1 DEF Bears
    <2>2. pairs[i].family \in Pairs
      BY <2>1 DEF Bearer, McpTypeOK, Paired, Pair, Rows
    <2>3. DEFINE a == [pc |-> "calling", key |-> <<pairs[i].family, m>>]
    <2>4. a \in At /\ a.key \in Keys
      BY <2>2 DEF At, Pcs, Keys
    <2>5. at' = [at EXCEPT ![r] = a] /\ at[r].pc = "idle"
      BY <2>1 DEF Bearer
    <2> HIDE DEF a
    <2>6. ~ (Moves(r) \/ Writes(r))
      BY <2>5 DEF Moves, Writes, ClaimTaken, QuotaReached, Uncertain, HandlerStops, ClaimKey, Submit,
                  SubmitRaises, Release, RecordAnswer
    <2> QED BY <1>0, <2>4, <2>5, <2>6 DEF Keyed
  <1>2. CASE Moves(r) \/ Writes(r)
    <2>1. at[r].pc /= "idle"
      BY <1>2 DEF Moves, Writes, ClaimTaken, QuotaReached, Uncertain, HandlerStops, ClaimKey, Submit,
                  SubmitRaises, Release, RecordAnswer
    <2>2. at[r].key \in Keys
      BY <2>1 DEF Keyed
    <2>3. \/ at' = [at EXCEPT ![r] = NotServed]
          \/ \E pc \in {"claimed", "releasing", "submitted"} : at' = [at EXCEPT ![r].pc = pc]
      BY <1>2 DEF Moves, Writes, ClaimTaken, QuotaReached, Uncertain, HandlerStops, ClaimKey, Submit,
                  SubmitRaises, Release, RecordAnswer, Reaches, Finish
    <2>4. CASE at' = [at EXCEPT ![r] = NotServed]
      BY <1>0, <2>2, <2>4 DEF Keyed, NotServed
    <2>5. CASE \E pc \in {"claimed", "releasing", "submitted"} : at' = [at EXCEPT ![r].pc = pc]
      BY <1>0, <2>2, <2>5 DEF Keyed, At, Pcs
    <2> QED BY <2>2, <2>3, <2>4, <2>5
  <1> QED BY <1>1, <1>2

\* Each step keeps the shapes of the rows.
LEMMA TypeStep ==
    ASSUME McpTypeOK, Keyed, McpNext
    PROVE  McpTypeOK' /\ Keyed'
  <1> USE NobodyAssumption
  <1>k. \A i \in Pairs : Paired(i)
    BY DEF McpTypeOK
  <1>1. CASE Grants
    <2>1. Keyed' /\ sure' \in BOOLEAN /\ claims' \in [Keys -> Claim]
          /\ stored' \in [Keys -> 0..2]
          /\ at' \in [Requests -> [pc : Pcs, key : Keys \cup {Nobody}]]
      BY <1>1, GrantsKeepTool DEF Keyed, McpTypeOK, tool
    <2>2. /\ consents' \in [Consents -> Consent] /\ codes' \in [Codes -> Code]
          /\ pairs' \in [Pairs -> Pair] /\ \A i \in Pairs : Paired(i)'
      <3>1. CASE \E i \in Consents : AuthorizeGet(i) \/ Deny(i)
        BY <3>1 DEF AuthorizeGet, Deny, McpTypeOK, Consent, Paired
      <3>2. CASE \E i \in Consents, j \in Codes : Allow(i, j)
        BY <3>2 DEF Allow, McpTypeOK, Consent, Code, Paired
      <3>3. CASE \E i \in Codes, j \in Pairs : Exchange(i, j)
        <4>1. PICK i \in Codes, j \in Pairs : Exchange(i, j)
          BY <3>3
        <4>2. \A k \in Pairs : Paired(k)'
          BY <1>k, <4>1, ExchangeEffect DEF Paired
        <4> QED BY <4>1, <4>2, ExchangeEffect DEF McpTypeOK
      <3>4. CASE \E i, j \in Pairs : Refresh(i, j)
        <4>1. PICK i \in Pairs, j \in Pairs : Refresh(i, j)
          BY <3>4
        <4>2. \A k \in Pairs : Paired(k)'
          BY <1>k, <4>1, RefreshEffect DEF Paired
        <4> QED BY <4>1, <4>2, RefreshEffect DEF McpTypeOK
      <3>5. CASE \E i \in Pairs : Reuse(i) \/ Revoke(i)
        <4>1. PICK i \in Pairs : Reuse(i) \/ Revoke(i)
          BY <3>5
        <4>2. \A k \in Pairs : Paired(k)'
          BY <1>k, <4>1, RevokeEffect DEF Paired
        <4> QED BY <4>1, <4>2, RevokeEffect DEF McpTypeOK
      <3> QED BY <1>1, <3>1, <3>2, <3>3, <3>4, <3>5 DEF Grants
    <2> QED BY <2>1, <2>2 DEF McpTypeOK
  <1>2. CASE \E r \in Requests : Moves(r) \/ Writes(r) \/ Bears(r)
    <2>1. PICK r \in Requests : Moves(r) \/ Writes(r) \/ Bears(r)
      BY <1>2
    <2>2. UNCHANGED <<sure, grants>> /\ at' \in [Requests -> At] /\ Keyed'
      BY <2>1, ToolKeepsGrants, CallsStep
    <2>3. CASE Moves(r) \/ Bears(r)
      <3>1. UNCHANGED <<claims, stored>>
        BY <2>3 DEF Moves, Bears, ClaimTaken, QuotaReached, Uncertain, HandlerStops, Bearer
      <3> QED BY <2>2, <3>1 DEF McpTypeOK, Paired, At, grants
    <2>4. CASE Writes(r)
      <3>1. at[r].key \in Keys
        BY <2>4, CallsStep
      <3>2. claims' \in [Keys -> Claim]
        BY <2>4, <3>1 DEF Writes, ClaimKey, Submit, SubmitRaises, Release, RecordAnswer, McpTypeOK, Claim
      <3>3. stored' \in [Keys -> 0..2]
        BY <2>4, <3>1 DEF Writes, ClaimKey, Submit, SubmitRaises, Release, RecordAnswer, McpTypeOK, Adds
      <3> QED BY <2>2, <3>2, <3>3 DEF McpTypeOK, Paired, At, grants
    <2> QED BY <2>1, <2>3, <2>4
  <1> QED BY <1>1, <1>2, StepKinds

\* The chains of codes and pairs: a rotation adds to a family what its head began.
LEMMA FamiliesStep ==
    ASSUME McpTypeOK, CodesOnce, Headed, FamiliesOnce, OneToSpend, McpNext
    PROVE  CodesOnce' /\ Headed' /\ FamiliesOnce' /\ OneToSpend'
  <1> USE NobodyAssumption
  <1>1. CASE UNCHANGED grants
    BY <1>1 DEF CodesOnce, Headed, FamiliesOnce, OneToSpend, grants
  <1>2. CASE Grants
    <2>1. CASE \E i \in Consents : AuthorizeGet(i) \/ Deny(i)
      BY <2>1 DEF AuthorizeGet, Deny, CodesOnce, Headed, FamiliesOnce, OneToSpend, McpTypeOK, Consent
    <2>2. CASE \E i \in Consents, j \in Codes : Allow(i, j)
      <3>1. PICK i \in Consents, j \in Codes : Allow(i, j)
        BY <2>2
      <3>2. /\ consents[i] = "waiting" /\ codes[j].status = "none" /\ UNCHANGED pairs
            /\ consents'[i] = "consumed" /\ \A k \in Consents \ {i} : consents'[k] = consents[k]
            /\ codes'[j].of = i /\ \A k \in Codes \ {j} : codes'[k] = codes[k]
        BY <3>1 DEF Allow, McpTypeOK
      <3>3. \A k \in Codes : codes[k].status /= "none" => codes[k].of /= i
        BY <3>2 DEF CodesOnce
      <3>4. CodesOnce'
        BY <3>2, <3>3 DEF CodesOnce
      <3> QED BY <3>2, <3>4 DEF Headed, FamiliesOnce, OneToSpend
    <2>3. CASE \E i \in Codes, j \in Pairs : Exchange(i, j)
      <3>1. PICK i \in Codes, j \in Pairs : Exchange(i, j)
        BY <2>3
      <3>2. /\ codes[i].status = "issued" /\ pairs[j].family = Nobody /\ UNCHANGED consents
            /\ codes'[i].status = "consumed" /\ \A k \in Codes \ {i} : codes'[k] = codes[k]
            /\ \A k \in Codes : codes'[k].of = codes[k].of
            /\ pairs'[j].refresh = "live" /\ pairs'[j].family = j /\ pairs'[j].of = i
            /\ \A k \in Pairs \ {j} : pairs'[k] = pairs[k]
        BY <3>1, ExchangeEffect
      <3>3. \A k \in Pairs : pairs[k].family /= j /\ (pairs[k].family /= Nobody => pairs[k].of /= i)
        BY <3>2 DEF Headed
      <3>4. CodesOnce'
        BY <3>2 DEF CodesOnce
      <3>5. Headed'
        BY <3>2, <3>3 DEF Headed
      <3>6. FamiliesOnce'
        BY <3>2, <3>3 DEF FamiliesOnce
      <3>7. OneToSpend'
        BY <3>2, <3>3 DEF OneToSpend
      <3> QED BY <3>4, <3>5, <3>6, <3>7
    <2>4. CASE \E i, j \in Pairs : Refresh(i, j)
      <3>1. PICK i \in Pairs, j \in Pairs : Refresh(i, j)
        BY <2>4
      <3>2. /\ pairs[i].refresh = "live" /\ pairs[i].family /= Nobody /\ pairs[j].family = Nobody
            /\ UNCHANGED <<consents, codes>>
            /\ pairs'[j].family = pairs[i].family /\ pairs'[j].of = pairs[i].of
            /\ pairs'[i].refresh = "revoked"
            /\ pairs'[i].family = pairs[i].family /\ pairs'[i].of = pairs[i].of
            /\ \A k \in Pairs \ {j, i} : pairs'[k] = pairs[k]
        BY <3>1, RefreshEffect
      <3>3. pairs[i].family \in Pairs \ {j}
        BY <3>2 DEF Headed
      <3>4. CodesOnce'
        BY <3>2 DEF CodesOnce
      <3>5. Headed'
        BY <3>2, <3>3 DEF Headed
      <3>6. FamiliesOnce'
        BY <3>2, <3>3 DEF FamiliesOnce
      <3>7. OneToSpend'
        BY <3>2 DEF OneToSpend
      <3> QED BY <3>4, <3>5, <3>6, <3>7
    <2>5. CASE \E i \in Pairs : Reuse(i) \/ Revoke(i)
      <3>1. /\ UNCHANGED <<consents, codes>>
            /\ \A k \in Pairs : /\ pairs'[k].family = pairs[k].family /\ pairs'[k].of = pairs[k].of
                                /\ pairs'[k].refresh = "live" => pairs[k].refresh = "live"
        BY <2>5, RevokeEffect
      <3> QED BY <3>1 DEF CodesOnce, Headed, FamiliesOnce, OneToSpend
    <2> QED BY <1>2, <2>1, <2>2, <2>3, <2>4, <2>5 DEF Grants
  <1> QED BY <1>1, <1>2, StepKinds, ToolKeepsGrants

\* Each step keeps a claim with the one call that may still write.
LEMMA ClaimsStep ==
    ASSUME McpTypeOK, Keyed, ClaimsHeld, McpNext
    PROVE  ClaimsHeld'
  <1> DEFINE Mine(r) == Holds(r, at[r].key) /\ (sure => stored[at[r].key] = 0)
             Owing(r) == at[r].pc \in {"claimed", "releasing"}
             Known(k) == sure => /\ stored[k] \in {0, 1}
                                 /\ stored[k] /= 0 => claims[k].status /= "none"
  <1>0. (\A r \in Requests : Owing(r) => Mine(r)) /\ \A k \in Keys : Known(k)
    BY DEF ClaimsHeld
  <1>1. CASE UNCHANGED <<sure, claims, stored>>
             /\ \A o \in Requests : /\ Owing(o)' => Owing(o)
                                    /\ Owing(o)' => at'[o].key = at[o].key
    BY <1>0, <1>1 DEF ClaimsHeld, Holds
  <1>2. CASE Grants
    BY <1>1, <1>2, GrantsKeepTool DEF tool
  <1>3. CASE \E r \in Requests : Moves(r) \/ Bears(r)
    <2>1. PICK r \in Requests : Moves(r) \/ Bears(r)
      BY <1>3
    <2>2. UNCHANGED <<sure, claims, stored>>
      BY <2>1 DEF Moves, Bears, ClaimTaken, QuotaReached, Uncertain, HandlerStops, Bearer
    <2>3. \A o \in Requests \ {r} : at'[o] = at[o]
      BY <2>1, CallsStep
    <2>4. Owing(r)' => Owing(r) /\ at'[r].key = at[r].key
      BY <2>1 DEF Moves, Bears, ClaimTaken, QuotaReached, Uncertain, HandlerStops, Bearer, Reaches, Finish,
                  McpTypeOK, NotServed
    <2> QED BY <1>1, <2>2, <2>3, <2>4
  <1>4. CASE \E r \in Requests : Writes(r)
    <2>1. PICK r \in Requests : Writes(r)
      BY <1>4
    <2>k. PICK k \in Keys : at[r].key = k
      BY <2>1, CallsStep
    <2>2. UNCHANGED sure /\ claims[k] \in Claim
      BY <2>1, ToolKeepsGrants DEF McpTypeOK
    <2>3. /\ \A o \in Requests \ {r} : at'[o] = at[o]
          /\ Owing(r)' => at'[r].key = k
      BY <2>1, <2>k, CallsStep DEF Writes, ClaimKey, Submit, SubmitRaises, Release, RecordAnswer, Reaches,
                                   Finish, McpTypeOK, NotServed
    <2>4. \A j \in Keys \ {k} : claims'[j] = claims[j] /\ stored'[j] = stored[j]
      BY <2>1, <2>k DEF Writes, ClaimKey, Submit, SubmitRaises, Release, RecordAnswer, Adds, McpTypeOK
    <2>5. \A o \in Requests \ {r} : Owing(o) => at[o].key /= k
      <3> SUFFICES ASSUME NEW o \in Requests \ {r}, Owing(o), at[o].key = k PROVE FALSE
        OBVIOUS
      <3>1. claims[k].status = "pending" /\ claims[k].by = o
        BY <1>0 DEF Holds
      <3>2. CASE ClaimKey(r)
        BY <2>k, <3>1, <3>2 DEF ClaimKey
      <3>3. CASE RecordAnswer(r)
        BY <2>k, <3>1, <3>3 DEF RecordAnswer, Holds
      <3>4. CASE Submit(r) \/ SubmitRaises(r) \/ Release(r)
        BY <1>0, <2>k, <3>1, <3>4 DEF Submit, SubmitRaises, Release, Holds
      <3> QED BY <2>1, <3>2, <3>3, <3>4 DEF Writes
    <2>6. (Owing(r)' => Mine(r)') /\ Known(k)'
      <3>1. CASE ClaimKey(r)
        <4>1. claims'[k].status = "pending" /\ claims'[k].by = r /\ stored' = stored
          BY <2>k, <3>1 DEF ClaimKey, McpTypeOK
        <4>2. claims[k].status = "none"
          BY <2>k, <3>1 DEF ClaimKey
        <4>3. sure => stored[k] = 0
          BY <1>0, <4>2
        <4> QED BY <2>2, <2>3, <4>1, <4>3 DEF Holds
      <3>2. CASE Submit(r)
        <4>1. Holds(r, k) /\ (sure => stored[k] = 0) /\ claims' = claims
          BY <1>0, <2>k, <3>2 DEF Submit
        <4>2. (stored[k] = 0 => stored'[k] = 1) /\ ~ Owing(r)'
          BY <2>k, <3>2 DEF Submit, Adds, Reaches, McpTypeOK
        <4> QED BY <2>2, <4>1, <4>2 DEF Holds
      <3>3. CASE SubmitRaises(r)
        <4>1. Holds(r, k) /\ (sure => stored[k] = 0) /\ claims' = claims
          BY <1>0, <2>k, <3>3 DEF SubmitRaises
        <4>2. sure => stored' = stored
          BY <3>3 DEF SubmitRaises
        <4> QED BY <2>2, <2>3, <4>1, <4>2 DEF Holds
      <3>4. CASE Release(r)
        <4>1. (sure => stored[k] = 0) /\ stored' = stored
          BY <1>0, <2>k, <3>4 DEF Release
        <4>2. ~ Owing(r)'
          BY <3>4 DEF Release, Finish, NotServed, McpTypeOK
        <4> QED BY <2>2, <4>1, <4>2
      <3>5. CASE RecordAnswer(r)
        <4>1. claims'[k].status = "recorded" /\ stored' = stored
          BY <2>k, <3>5 DEF RecordAnswer, McpTypeOK, Claim
        <4>2. ~ Owing(r)'
          BY <3>5 DEF RecordAnswer, Finish, NotServed, McpTypeOK
        <4>3. sure => stored[k] \in {0, 1}
          BY <1>0
        <4> QED BY <2>2, <4>1, <4>2, <4>3
      <3> QED BY <2>1, <3>1, <3>2, <3>3, <3>4, <3>5 DEF Writes
    <2>7. ASSUME NEW o \in Requests \ {r}, Owing(o)'
          PROVE  Mine(o)'
      <3>1. Owing(o) /\ at'[o] = at[o]
        BY <2>3, <2>7
      <3>2. at[o].key \in Keys \ {k} /\ Mine(o)
        BY <1>0, <2>5, <3>1 DEF Keyed
      <3> QED BY <2>2, <2>4, <3>1, <3>2 DEF Holds
    <2>8. ASSUME NEW j \in Keys PROVE Known(j)'
      BY <1>0, <2>2, <2>4, <2>6
    <2> QED BY <2>6, <2>7, <2>8 DEF ClaimsHeld
  <1> QED BY <1>2, <1>3, <1>4, StepKinds

\* McpInv is an invariant.
THEOREM McpInvariant == McpSpec => []McpInv
  <1>1. ASSUME McpInv, McpNext
        PROVE  McpInv'
    BY <1>1, TypeStep, FamiliesStep, ClaimsStep DEF McpInv
  <1>2. ASSUME McpInv, UNCHANGED mcpVars
        PROVE  McpInv'
    BY <1>2 DEF mcpVars, grants, tool, McpInv, McpTypeOK, Paired, Keyed, CodesOnce, Headed,
         FamiliesOnce, OneToSpend, ClaimsHeld, Holds
  <1> QED BY <1>1, <1>2, InitIInv, PTL DEF McpSpec

\* The rows and the calls keep their types, every row has its family, and a
\* consent gives one code, a code one family, a family one refresh token to spend.
THEOREM GrantsSound == McpSpec => []GrantsAreSound
  <1>1. McpInv => GrantsAreSound
    BY DEF McpInv, CodesOnce, FamiliesOnce, OneToSpend, GrantsAreSingleUse, GrantsAreSound
  <1> QED BY <1>1, McpInvariant, PTL

\* A message writes at most one memory where a commit that raises wrote nothing.
THEOREM OneMemory == McpSpec => []WrittenOnce
  <1>1. McpInv => WrittenOnce
    BY DEF McpInv, ClaimsHeld, WrittenOnce
  <1> QED BY <1>1, McpInvariant, PTL

\* A family whose tokens were all revoked gets no live token again.
THEOREM EndsStay == McpSpec => EndedStaysEnded
  <1>1. ASSUME McpInv, [McpNext]_mcpVars, NEW f \in Pairs, Ended(f)
        PROVE  Ended(f)'
    <2> USE NobodyAssumption
    <2>1. CASE UNCHANGED pairs
      BY <1>1, <2>1 DEF Ended
    <2>2. CASE Grants /\ ~ UNCHANGED pairs
      <3>1. CASE \E i \in Codes, j \in Pairs : Exchange(i, j)
        <4>1. PICK i \in Codes, j \in Pairs : Exchange(i, j)
          BY <3>1
        <4>2. /\ pairs[j].family = Nobody /\ pairs'[j].family = j
              /\ \A k \in Pairs \ {j} : pairs'[k] = pairs[k]
          BY <1>1, <4>1, ExchangeEffect DEF McpInv
        <4> QED BY <1>1, <4>2 DEF Ended
      <3>2. CASE \E i, j \in Pairs : Refresh(i, j)
        <4>1. PICK i \in Pairs, j \in Pairs : Refresh(i, j)
          BY <3>2
        <4>2. /\ pairs[i].refresh = "live" /\ pairs[j].family = Nobody
              /\ pairs'[j].family = pairs[i].family /\ pairs'[i].family = pairs[i].family
              /\ \A k \in Pairs \ {j, i} : pairs'[k] = pairs[k]
          BY <1>1, <4>1, RefreshEffect DEF McpInv
        <4>3. pairs[i].family /= f
          BY <1>1, <4>2 DEF Ended
        <4> QED BY <1>1, <4>2, <4>3 DEF Ended
      <3>3. CASE \E i \in Pairs : Reuse(i) \/ Revoke(i)
        <4>1. \A k \in Pairs :
                 /\ pairs'[k].family = pairs[k].family
                 /\ \/ pairs'[k].access = "revoked" /\ pairs'[k].refresh = "revoked"
                    \/ pairs'[k] = pairs[k]
          BY <1>1, <3>3, RevokeEffect DEF McpInv
        <4> QED BY <1>1, <4>1 DEF Ended
      <3> QED BY <2>2, <3>1, <3>2, <3>3 DEF Grants, AuthorizeGet, Deny, Allow
    <2> QED BY <1>1, <2>1, <2>2, StepKinds, ToolKeepsGrants DEF mcpVars, grants
  <1>2. McpInv /\ [McpNext]_mcpVars => [\A f \in Pairs : Ended(f) => Ended(f)']_pairs
    BY <1>1
  <1> QED BY <1>2, McpInvariant, PTL DEF McpSpec, EndedStaysEnded

================================================================================
