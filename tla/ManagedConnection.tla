--------------------------- MODULE ManagedConnection ---------------------------
(***************************************************************************)
(* The client that connects an unattended service to the server            *)
(* (memoryendpoints/managed_connection.py).  Several controller processes   *)
(* call reconcile_managed_connection.  Each call reads the durable          *)
(* controller record, records its attempt by compare-and-swap, takes the    *)
(* profile lock and enrols: it redeems the governed invitation with a       *)
(* candidate token that is on disk before the request, promotes the         *)
(* credential, verifies it, and records how the attempt ended.  A process   *)
(* may die between any two of these steps, a request may reach the server   *)
(* late, and any file operation may fail.                                   *)
(*                                                                          *)
(* Times are kept relative to the clock: a lease or a wait that is due in n *)
(* units is n, one that ran out is zero or negative, and the clock that a   *)
(* call read when it began lies `age' units back.                           *)
(***************************************************************************)
EXTENDS Integers, FiniteSets

CONSTANTS
  Controllers,  \* processes that reconcile one service instance
  Installer,    \* the process that provisions it
  Tokens,       \* candidate agent tokens, each with its Idempotency-Key
  None,
  MaxAttempts,  \* context.max_attempts
  Lease,        \* context.attempt_lease_seconds
  Delays,       \* the back-offs and the delays that the authority may ask for
  MaxCall,      \* bound: a call is over, or its process dead, after so long
  MaxCrashes    \* bound: process deaths

ASSUME ConstantsAssumption ==
  /\ None \notin Controllers \cup Tokens
  /\ None \notin [kind: {"marker", "credential"}, token: Tokens]
  /\ Installer \notin Controllers \cup {None}
  /\ MaxAttempts \in Nat \ {0}
  /\ Lease \in Nat \ {0}
  /\ Delays \subseteq Nat \ {0}
  /\ MaxCall \in Nat
  /\ MaxCrashes \in Nat

VARIABLES
  disk,       \* the controller record of the durable compare-and-swap store
  files,      \* the installer's files and the protected enrolment state
  lock,       \* the process that holds the profile lock, the installer, or None
  server,     \* the invitation and the credential that it became
  network,    \* redemption requests whose reply was lost, perhaps not yet served
  ctl,        \* the calls of the controllers
  drifted,    \* the profile was replaced by one of another generation
  faulty,     \* file operations and adapters may fail
  crashes

remote == <<server, network>>
world == <<drifted, faulty, crashes>>
vars == <<disk, files, lock, remote, ctl, world>>

----------------------------------------------------------------------------
(* State *)

Terminal == {"quarantined", "halted"}
Phases == {"absent", "pending", "connecting", "retry_wait", "active"} \cup Terminal

(* The controller record; due is the end of the attempt's lease or of the   *)
(* wait, the operation digest is a function of the attempt count.           *)
Record == [phase: Phases, count: 0 .. MaxAttempts, due: Int]

(* .pending holds a marker with the retry material or the redeemed          *)
(* credential; .target is the credential in use.                            *)
Pending == [kind: {"marker", "credential"}, token: Tokens] \cup {None}
Files == [ca: BOOLEAN, invite: BOOLEAN, profile: BOOLEAN,
          pending: Pending, target: Tokens \cup {None}]

(* The invitation's row and the token it was redeemed with.                 *)
Server == [invitation: {"issued", "closed"}, redeemedBy: Tokens \cup {None},
           revoked: BOOLEAN]

Steps == {"idle", "read", "intend", "lock", "local", "send", "store", "promote",
          "verify", "retire", "succeeded", "delayed", "consult"}
UnderLock == {"local", "send", "store", "promote", "verify", "retire"}

(* A call: the clock it read lies age back; count is the attempt it makes;  *)
(* current, that the revision it read or wrote is still the last one.       *)
Call == [pc: Steps, age: 0 .. MaxCall, count: 0 .. MaxAttempts,
         drifted: BOOLEAN, current: BOOLEAN]
Idle == [pc |-> "idle", age |-> 0, count |-> 0, drifted |-> FALSE, current |-> FALSE]

Init ==
  /\ disk = [phase |-> "absent", count |-> 0, due |-> 0]
  /\ files = [ca |-> FALSE, invite |-> FALSE, profile |-> FALSE,
              pending |-> None, target |-> None]
  /\ lock = None
  /\ server = [invitation |-> "issued", redeemedBy |-> None, revoked |-> FALSE]
  /\ network = {}
  /\ ctl = [p \in Controllers |-> Idle]
  /\ drifted = FALSE
  /\ faulty \in BOOLEAN
  /\ crashes = 0

----------------------------------------------------------------------------
(* Installation *)

(* The installer works under the profile lock and refuses when enrolment    *)
(* state exists; trust, then the invitation, then the profile, each only if *)
(* it is missing, so that a second run completes an interrupted one.        *)
InstallerBegins ==
  /\ lock = None
  /\ files.pending = None
  /\ files.target = None
  /\ lock' = Installer
  /\ UNCHANGED <<disk, files, remote, ctl, world>>

InstallerWrites ==
  /\ lock = Installer
  /\ \/ ~files.ca /\ files' = [files EXCEPT !.ca = TRUE]
     \/ files.ca /\ ~files.invite /\ files' = [files EXCEPT !.invite = TRUE]
     \/ files.ca /\ files.invite /\ ~files.profile /\ files' = [files EXCEPT !.profile = TRUE]
  /\ UNCHANGED <<disk, lock, remote, ctl, world>>

(* It is done, or it failed or died and left the rest for another run.      *)
InstallerEnds ==
  /\ lock = Installer
  /\ lock' = None
  /\ UNCHANGED <<disk, files, remote, ctl, world>>

(* initialize_managed_controller_state: the first record, once.             *)
Initialize ==
  /\ disk.phase = "absent"
  /\ disk' = [phase |-> "pending", count |-> 0, due |-> 0]
  /\ ctl' = [p \in Controllers |-> [ctl[p] EXCEPT !.current = FALSE]]
  /\ UNCHANGED <<files, lock, remote, world>>

(* The fleet rolls out a profile of another generation.                     *)
ProfileReplaced ==
  /\ files.profile
  /\ ~drifted
  /\ drifted' = TRUE
  /\ UNCHANGED <<disk, files, lock, remote, ctl, faulty, crashes>>

----------------------------------------------------------------------------
(* The start of a call *)

Now(p) == - ctl[p].age

(* The call returns.                                                         *)
Answer(p) == ctl' = [ctl EXCEPT ![p] = Idle]

(* The clock is read, then the profile; without one the call ends here.      *)
Begin(p) ==
  /\ ctl[p].pc = "idle"
  /\ files.profile
  /\ ctl' = [ctl EXCEPT ![p].pc = "read", ![p].drifted = drifted]
  /\ UNCHANGED <<disk, files, lock, remote, world>>

Waiting(p) == disk.phase = "retry_wait" /\ Now(p) < disk.due
\* Mutated form: an attempt on record never holds another back.
LeasedNever(p) == FALSE
Leased(p) == disk.phase = "connecting" /\ Now(p) < disk.due
\* Mutated form: one attempt too many.
ExhaustedLate == disk.phase = "connecting" /\ disk.count > MaxAttempts
Exhausted == disk.phase = "connecting" /\ disk.count >= MaxAttempts

(* What the record alone answers.  An attempt beyond the budget is found     *)
(* incoherent when it is about to be recorded.                               *)
StandingAnswer(p) ==
  IF disk.phase = "absent" THEN "quarantined"
  ELSE IF disk.phase \in Terminal THEN disk.phase
  ELSE IF Waiting(p) \/ (~ctl[p].drifted /\ Leased(p)) THEN "retry_wait"
  ELSE IF ~ctl[p].drifted /\ ~Exhausted /\ disk.count >= MaxAttempts THEN "quarantined"
  ELSE "none"

ReadState(p) ==
  /\ ctl[p].pc = "read"
  /\ IF StandingAnswer(p) # "none"
     THEN Answer(p)
     ELSE ctl' = IF ctl[p].drifted \/ Exhausted
                 THEN [ctl EXCEPT ![p].pc = "consult", ![p].current = TRUE,
                                  ![p].count = disk.count]
                 ELSE [ctl EXCEPT ![p].pc = "intend", ![p].current = TRUE,
                                  ![p].count = disk.count + 1]
  /\ UNCHANGED <<disk, files, lock, remote, world>>

(* The store is busy, or unreadable.                                         *)
ReadFails(p) ==
  /\ faulty
  /\ ctl[p].pc = "read"
  /\ Answer(p)
  /\ UNCHANGED <<disk, files, lock, remote, world>>

----------------------------------------------------------------------------
(* Compare-and-swap of the controller record *)

(* The calls after p has written the record.                                 *)
Superseding(p) == [q \in Controllers |-> [ctl[q] EXCEPT !.current = (q = p)]]

Swap(p, record) ==
  /\ ctl[p].current
  /\ disk' = record

(* p writes the record and answers.                                          *)
SwapAndAnswer(p, record) ==
  /\ Swap(p, record)
  /\ ctl' = [Superseding(p) EXCEPT ![p] = Idle]

(* Another revision was written since p read the record.                     *)
Conflict(p) ==
  /\ ~ctl[p].current
  /\ Answer(p)
  /\ UNCHANGED disk

(* The store is busy; or the write fails, before or after the rename that    *)
(* makes it durable.                                                         *)
SwapFails(p, record) ==
  /\ faulty
  /\ (Answer(p) /\ UNCHANGED disk) \/ SwapAndAnswer(p, record)

Due(p, delay) == Now(p) + delay

Intent(p) == [phase |-> "connecting", count |-> ctl[p].count, due |-> Due(p, Lease)]

(* The attempt is durable before anything is sent.                           *)
Intend(p) ==
  /\ ctl[p].pc = "intend"
  /\ \/ /\ Swap(p, Intent(p))
        /\ ctl' = [Superseding(p) EXCEPT ![p].pc = "lock"]
     \/ Conflict(p)
     \/ SwapFails(p, Intent(p))
  /\ UNCHANGED <<files, lock, remote, world>>

----------------------------------------------------------------------------
(* The attempt, under the profile lock *)

Goto(p, step) == ctl' = [ctl EXCEPT ![p].pc = step]

(* The attempt of p ends in an error that may be retried, or in one that may *)
(* not; in either case the budget may be spent.                              *)
Delay(p) ==
  /\ Goto(p, IF ctl[p].count < MaxAttempts THEN "delayed" ELSE "consult")
  /\ lock' = IF lock = p THEN None ELSE lock
Refuse(p) ==
  /\ Goto(p, "consult")
  /\ lock' = None

TakeLock(p) ==
  /\ ctl[p].pc = "lock"
  /\ IF lock = None
     THEN lock' = p /\ Goto(p, "local")
     ELSE Delay(p)
  /\ UNCHANGED <<disk, files, remote, world>>

NewTokens == {t \in Tokens : t \notin network /\ t # server.redeemedBy}

Prepared(t) == [files EXCEPT !.pending = [kind |-> "marker", token |-> t]]

PendingIs(kind) == files.pending # None /\ files.pending.kind = kind

(* The enrolment state on disk decides where the attempt resumes.  A token   *)
(* is made up only if there is none, and it is on disk before it is sent.    *)
Local(p) ==
  /\ ctl[p].pc = "local"
  /\ \/ /\ files.target # None
        /\ files.pending = None
        /\ Goto(p, "verify")
        /\ UNCHANGED <<files, lock>>
     \/ /\ files.target = None
        /\ PendingIs("credential")
        /\ Goto(p, "promote")
        /\ UNCHANGED <<files, lock>>
     \/ /\ files.target = None
        /\ PendingIs("marker")
        /\ files.invite
        /\ Goto(p, "send")
        /\ UNCHANGED <<files, lock>>
     \/ /\ files.target = None
        /\ files.pending = None
        /\ files.invite
        /\ \E t \in NewTokens :
             \/ files' = Prepared(t) /\ Goto(p, "send") /\ UNCHANGED lock
             \/ faulty /\ files' \in {files, Prepared(t)} /\ Refuse(p)
     \/ /\ IF files.target = None THEN ~PendingIs("credential") /\ ~files.invite
                                 ELSE files.pending # None
        /\ Refuse(p)
        /\ UNCHANGED files
  /\ UNCHANGED <<disk, remote, world>>

(* The server redeems the invitation for the first token that reaches it in  *)
(* time, and answers an exact repetition of that request as it did then.     *)
Redeemed(t) ==
  IF server.redeemedBy = None /\ server.invitation = "issued"
  THEN [server EXCEPT !.redeemedBy = t]
  ELSE server

(* The reply is accepted; or it is an error, or a receipt that does not fit,  *)
(* whatever the server did; or none comes and the request may still arrive.   *)
Send(p) ==
  /\ ctl[p].pc = "send"
  /\ LET t == files.pending.token IN
     \/ /\ server' = Redeemed(t)
        /\ server'.redeemedBy = t
        /\ Goto(p, "store")
        /\ UNCHANGED <<lock, network>>
     \/ /\ server' \in {server, Redeemed(t)}
        /\ Refuse(p) \/ Delay(p)
        /\ UNCHANGED network
     \/ /\ network' = network \cup {t}
        /\ Delay(p)
        /\ UNCHANGED server
  /\ UNCHANGED <<disk, files, world>>

(* A request whose reply was lost, or that timed out, is served late.        *)
Deliver(t) ==
  /\ t \in network
  /\ network' = network \ {t}
  /\ server' = Redeemed(t)
  /\ UNCHANGED <<disk, files, lock, ctl, world>>

Stored == [files EXCEPT !.pending.kind = "credential"]

\* Mutated form: a failed write removes what was pending.
StoreCleansUp(p) ==
  /\ ctl[p].pc = "store"
  /\ \/ files' = Stored /\ Goto(p, "promote") /\ UNCHANGED lock
     \/ faulty /\ files' = [files EXCEPT !.pending = None] /\ Refuse(p)
  /\ UNCHANGED <<disk, remote, world>>

(* The redeemed credential replaces the marker.                              *)
Store(p) ==
  /\ ctl[p].pc = "store"
  /\ \/ files' = Stored /\ Goto(p, "promote") /\ UNCHANGED lock
     \/ faulty /\ files' \in {files, Stored} /\ Refuse(p)
  /\ UNCHANGED <<disk, remote, world>>

(* os.replace moves the pending credential onto the target.                   *)
Promoted == [files EXCEPT !.pending = None, !.target = files.pending.token]

Promote(p) ==
  /\ ctl[p].pc = "promote"
  /\ \/ files' = Promoted /\ Goto(p, "verify") /\ UNCHANGED lock
     \/ faulty /\ UNCHANGED files /\ Delay(p)
  /\ UNCHANGED <<disk, remote, world>>

Accepted(t) == server.redeemedBy = t /\ ~server.revoked

Verify(p) ==
  /\ ctl[p].pc = "verify"
  /\ \/ Accepted(files.target) /\ Goto(p, "retire") /\ UNCHANGED lock
     \/ Refuse(p)
     \/ Delay(p)
  /\ UNCHANGED <<disk, files, remote, world>>

(* The invitation goes when the credential has taken its place.              *)
Retire(p) ==
  /\ ctl[p].pc = "retire"
  /\ \/ /\ files' = [files EXCEPT !.invite = FALSE]
        /\ Goto(p, "succeeded")
        /\ lock' = None
     \/ faulty /\ files.invite /\ UNCHANGED files /\ Delay(p)
  /\ UNCHANGED <<disk, remote, world>>

----------------------------------------------------------------------------
(* The end of a call *)

Active == [phase |-> "active", count |-> 0, due |-> 0]

Succeed(p) ==
  /\ ctl[p].pc = "succeeded"
  /\ SwapAndAnswer(p, Active) \/ Conflict(p) \/ SwapFails(p, Active)
  /\ UNCHANGED <<files, lock, remote, world>>

BackingOff(p, delay) ==
  [phase |-> "retry_wait", count |-> ctl[p].count, due |-> Due(p, delay)]

BackOff(p) ==
  /\ ctl[p].pc = "delayed"
  /\ \E delay \in Delays :
       \/ SwapAndAnswer(p, BackingOff(p, delay))
       \/ Conflict(p)
       \/ SwapFails(p, BackingOff(p, delay))
  /\ UNCHANGED <<files, lock, remote, world>>

(* What the recovery authority may direct: another try while the budget       *)
(* lasts, which counts as an attempt, or an end.  Silence and nonsense        *)
(* quarantine.                                                                *)
Directed(p) ==
  {[phase |-> end, count |-> ctl[p].count, due |-> 0] : end \in Terminal}
    \cup IF ctl[p].count < MaxAttempts
         THEN {[phase |-> "retry_wait", count |-> ctl[p].count + 1, due |-> Due(p, delay)]
                 : delay \in Delays}
         ELSE {}

Consult(p) ==
  /\ ctl[p].pc = "consult"
  /\ \E record \in Directed(p) :
       \/ SwapAndAnswer(p, record)
       \/ Conflict(p)
       \/ SwapFails(p, record)
  /\ UNCHANGED <<files, lock, remote, world>>

----------------------------------------------------------------------------
(* What may happen at any time *)

(* The process dies and the operating system drops its lock.                 *)
Crash(p) ==
  /\ ctl[p].pc # "idle"
  /\ crashes < MaxCrashes
  /\ crashes' = crashes + 1
  /\ Answer(p)
  /\ lock' = IF lock = p THEN None ELSE lock
  /\ UNCHANGED <<disk, files, remote, drifted, faulty>>

(* An adapter raises something that is not an OnboardingError.               *)
Unexpected(p) ==
  /\ faulty
  /\ ctl[p].pc \in UnderLock
  /\ Answer(p)
  /\ lock' = None
  /\ UNCHANGED <<disk, files, remote, world>>

(* The invitation is revoked or expires; the credential is revoked.          *)
CloseInvitation ==
  /\ server.redeemedBy = None
  /\ server.invitation = "issued"
  /\ server' = [server EXCEPT !.invitation = "closed"]
  /\ UNCHANGED <<disk, files, lock, network, ctl, world>>
RevokeCredential ==
  /\ server.redeemedBy # None
  /\ ~server.revoked
  /\ server' = [server EXCEPT !.revoked = TRUE]
  /\ UNCHANGED <<disk, files, lock, network, ctl, world>>

Timed == {"connecting", "retry_wait"}

Tick ==
  /\ \A p \in Controllers : ctl[p].pc = "idle" \/ ctl[p].age < MaxCall
  /\ ctl' = [p \in Controllers |->
               IF ctl[p].pc = "idle" THEN ctl[p] ELSE [ctl[p] EXCEPT !.age = @ + 1]]
  /\ disk' = IF disk.phase \in Timed /\ disk.due >= -MaxCall
             THEN [disk EXCEPT !.due = @ - 1]
             ELSE disk
  /\ UNCHANGED <<files, lock, remote, world>>

----------------------------------------------------------------------------

(* The steps a running call takes by itself.                                 *)
Proceed(p) ==
  \/ ReadState(p) \/ ReadFails(p) \/ Intend(p) \/ TakeLock(p) \/ Local(p)
  \/ Send(p) \/ Store(p) \/ Promote(p) \/ Verify(p) \/ Retire(p)
  \/ Succeed(p) \/ BackOff(p) \/ Consult(p)

Next ==
  \/ \E p \in Controllers : Begin(p) \/ Proceed(p) \/ Crash(p) \/ Unexpected(p)
  \/ \E t \in Tokens : Deliver(t)
  \/ InstallerBegins \/ InstallerWrites \/ InstallerEnds \/ Initialize
  \/ ProfileReplaced \/ CloseInvitation \/ RevokeCredential \/ Tick

Spec == Init /\ [][Next]_vars

(* The supervisor keeps calling, a running call keeps running, time passes.  *)
Fairness ==
  /\ \A p \in Controllers : WF_vars(Begin(p)) /\ WF_vars(Proceed(p))
  /\ WF_vars(Tick)

FairSpec == Spec /\ Fairness

----------------------------------------------------------------------------
(* Properties *)

TypeOK ==
  /\ disk \in Record
  /\ files \in Files
  /\ lock \in Controllers \cup {Installer, None}
  /\ server \in Server
  /\ network \subseteq Tokens
  /\ ctl \in [Controllers -> Call]
  /\ drifted \in BOOLEAN
  /\ faulty \in BOOLEAN
  /\ crashes \in 0 .. MaxCrashes

(* The token that is held in the files of the profile, if any.               *)
Held(t) == files.target = t \/ (files.pending # None /\ files.pending.token = t)

(* A token that the server has accepted, or may yet accept from a request    *)
(* that was sent, is on disk: no crash, lost reply or failed write leaves a   *)
(* credential that exists on the server and that nobody holds.                *)
NoCredentialIsLost ==
  \A t \in network \cup ({server.redeemedBy} \ {None}) : Held(t)

(* The client never gets into the state that it would quarantine as           *)
(* conflicting: a credential in use together with enrolment still pending.    *)
NoConflictingFiles == files.target # None => files.pending = None

(* Once installed, enrolment can be resumed: the invitation is kept until the *)
(* credential is in use, and trust is there when the profile is found.        *)
ResumableInstallation ==
  files.profile =>
    files.ca /\ (files.invite \/ PendingIs("credential") \/ files.target # None)

(* A service recorded as active has its credential in use, redeemed by the    *)
(* server for that token.                                                     *)
ActiveIsEnrolled ==
  disk.phase = "active" => files.target # None /\ server.redeemedBy = files.target

(* The end of the machine-owned budget is final: no late success, back-off or *)
(* directive of a call that began before replaces quarantine or halt.         *)
EndsAreFinal == [][disk.phase \in Terminal => disk' = disk]_disk

(* An attempt starts only when no other attempt's lease and no wait runs, by  *)
(* the clock that the starting call read.                                     *)
AttemptsWaitTheirTurn ==
  [][disk'.phase = "connecting" /\ disk.phase \in Timed /\ disk'.count # disk.count
       => disk.due <= 0]_disk

(* An attempt that a crash has left behind does not stay: the lease runs out  *)
(* and the next calls use up the budget or end it.                            *)
AttemptsEnd == (disk.phase = "connecting" /\ ~faulty) ~> disk.phase # "connecting"

(* Whatever crashes, replies are lost or writes fail, the enrolment can be     *)
(* finished from what is on disk, and what is recorded as active is enrolled.  *)
EnrolmentSurvives ==
  /\ TypeOK
  /\ NoCredentialIsLost
  /\ NoConflictingFiles
  /\ ResumableInstallation
  /\ ActiveIsEnrolled

(* The budget bounds the attempts: they take turns, and its end is final.      *)
AttemptsAreBounded == EndsAreFinal /\ AttemptsWaitTheirTurn
=============================================================================
