---------------------------- MODULE FilePromises ----------------------------
(***************************************************************************)
(* What the documents of FileStore promise whatever runs beside what, and   *)
(* what a save may never do.                                                *)
(***************************************************************************)
EXTENDS FileStore

Ended == [master |-> {"revoked"}, token |-> {"revoked"}, session |-> {"revoked"},
          recovery |-> {"revoked"}, proof |-> {"consumed", "expired"}, intent |-> {"consumed"},
          invite |-> {"redeemed", "revoked", "expired"}, request |-> {"denied"},
          replacement |-> {"confirmed", "canceled", "expired"},
          claim |-> {"completed", "released", "expired"}, syncmemory |-> {"tombstoned"},
          pairrequest |-> {"authorization_code_expired", "expired", "canceled"},
          pairing |-> {"revoked", "disconnected", "canceled", "expired"},
          credential |-> {"revoked", "superseded", "expired", "canceled", "disconnected"},
          rotation |-> {"active", "expired"}]

HasEnded(d, k) == k[1] \in DOMAIN Ended /\ d[k].status \in Ended[k[1]]

\* What is written once: the answers and receipts that a retry or a reader is given.
Once == {"setup", "check", "exportreceipt", "syncreceipt", "revision", "recordrevision", "receipt"}

EntryStatuses ==
    {"active", "allowed", "applied", "approval_required", "approved", "authorization_code_expired",
     "authorization_code_issued", "autonomous", "blank", "blocked", "canceled", "cancelled",
     "chosen", "cited", "closed", "complete", "completed", "confirmed", "conflict", "consumed",
     "current", "denied", "disabled", "disconnected", "exchanged", "expired", "human_required",
     "issued", "kept", "none", "open", "pending", "pending_activation", "pending_human_approval",
     "prepared", "promoted", "quarantined", "read", "ready", "recorded", "redeemed", "rejected",
     "released", "reviewed", "revoked", "sent", "setup_required", "soft_deleted", "superseded",
     "tombstoned", "tracked", "unread", "unreviewed", "written"}

FileTypeOK ==
    /\ lane \in Lanes
    /\ half \in BOOLEAN /\ crashed \in BOOLEAN
    /\ begun \in Nat
    /\ \A k \in DOMAIN file : file[k].rev \in Nat /\ file[k].status \in EntryStatuses
    /\ \A w \in Workers : /\ workers[w].pc \in {"idle", "load", "tidy", "sweep", "store", "write"}
                          /\ workers[w].pc = "idle" => workers[w] = Idle
    /\ half => crashed \/ \E w \in Workers : workers[w].pc \in {"sweep", "write"}

---------------------------------------------------------------------------
(* Credentials. *)

OneHeir(d) ==
    \A g \in Section(d, "grant") :
       d[g].status = "active" /\ d[g].by \in DOMAIN d => ~Live(d, d[g].by)

TokensHaveGrants(d) ==
    \A t \in Section(d, "token") :
       Live(d, t) => Status(d, d[t].in) \in {"active", "pending_activation"}

MastersCounted(d) ==
    \A o \in Section(d, "company") :
       Cardinality({k \in Within(d, "master", o) : d[k].status = "active"}) <= MasterLimit

ProofsSpent(d) ==
    /\ \A a \in Section(d, "authority") :
          d[a].to \in DOMAIN d => d[d[a].to].status = "consumed"
    /\ \A a, b \in Section(d, "authority") : d[a].to = d[b].to => a = b

InvitesNamed(d) ==
    \A i \in Section(d, "invite") :
       d[i].to \in DOMAIN d => d[d[i].to].by = i /\ d[d[i].to].status = "approved"

ConnectorsAgree(d) ==
    /\ \A k \in Section(d, "credential") :
          Live(d, k) => Live(d, d[k].in) /\ d[d[k].in].by = k
    /\ \A p \in Section(d, "pairing") : Live(d, p) => Live(d, d[p].by)
    /\ \A p, q \in Section(d, "pairing") : d[p].to = d[q].to => p = q

NamesClaimedOnce(d) ==
    \A r, s \in Section(d, "pairrequest") :
       /\ {d[r].status, d[s].status} \subseteq Unclaimed \cup {"exchanged", "active"}
       /\ d[r].in = d[s].in /\ d[r].val[1] = d[s].val[1]
       => r = s

ClosedHasNone(d) ==
    \A o \in Section(d, "company") : d[o].status = "closed" =>
       /\ \A s \in {"master", "token", "credential"} : \A k \in Within(d, s, o) : ~Live(d, k)
       /\ \A i \in Within(d, "invite", o) : d[i].status /= "issued"

(***************************************************************************)
(* Credentials agree with each other in every document the file ever holds: *)
(* a successor's predecessor has ended, a live token has a grant, a proof   *)
(* made one authority, a request has the one invite it names, a connector   *)
(* has the one credential its pairing names, a name is claimed by one       *)
(* pairing request, masters stay within their limit, a closed company is    *)
(* left without a credential.  The calls are cut in sections between which  *)
(* other calls run, and unlocked calls put old documents back.              *)
(***************************************************************************)
CredentialsAgree ==
    /\ OneHeir(file) /\ TokensHaveGrants(file) /\ MastersCounted(file)
    /\ ProofsSpent(file) /\ InvitesNamed(file)
    /\ ConnectorsAgree(file) /\ NamesClaimedOnce(file) /\ ClosedHasNone(file)

---------------------------------------------------------------------------
(* Records. *)

ClaimsHeld(d) ==
    /\ \A k \in Section(d, "claim") : Live(d, k) => d[k].in \in DOMAIN d /\ d[d[k].in].to = k
    /\ \A h \in Section(d, "uaihead") : d[h].to /= Nobody => Live(d, d[h].to)

HeadsNewest(d) ==
    /\ \A r, s \in Section(d, "revision") : d[r].rev = d[s].rev => r = s
    /\ \A h \in Section(d, "syncmemory") :
          /\ d[h].to \in DOMAIN d /\ d[h].rev = d[d[h].to].rev
          /\ \A r \in Under(d, "revision", h) : d[r].status = "applied" => d[r].rev <= d[h].rev

PackagesTold(d) ==
    \A p \in Section(d, "package") :
       d[p].status = "ready" <=> \A n \in RequiredPaths : <<"record", <<p[2], n>>>> \in DOMAIN d

ReviewsTold(d) ==
    \A r \in Section(d, "review") :
       Status(d, d[r].to) = IF d[r].status \in {"pending", "promoted"} THEN "active"
                                                                     ELSE d[r].status

ReadMeansReceipt(d) ==
    \A n \in Section(d, "notification") :
       d[n].status = "read" <=> \E r \in Section(d, "receipt") : d[r].in = n

DecisionsKeepTheirMessage(d) ==
    \A k \in Section(d, "routing") : d[k].to \in DOMAIN d

ApprovalsFit(d) ==
    \A a \in Section(d, "approval") :
       d[a].val /= <<>> => d[a].val[1] = d[d[a].in].rev /\ d[a].val[2] = d[d[a].in].val

WindowsCounted(d) ==
    /\ \A k \in Section(d, "rate") : d[k].rev <= RateLimit
    /\ Cardinality({k \in Section(d, "rate") \ late : k[2][1] = "source"}) <= SourceCapacity

(***************************************************************************)
(* What one call writes in several places still fits together in every      *)
(* document, though unlocked calls lose each other's updates: the head of a *)
(* path names its only active claim, a memory's head is its newest applied  *)
(* revision and no sequence number is used twice, a package is ready exactly *)
(* when its records are there, a review and its memory tell the same, a     *)
(* notification is read exactly when there is a receipt, a routing decision *)
(* keeps its message, an approval is bound to the server as it is, the      *)
(* windows stay within their limits.                                        *)
(***************************************************************************)
RecordsAgree ==
    /\ ClaimsHeld(file) /\ HeadsNewest(file) /\ PackagesTold(file) /\ ReviewsTold(file)
    /\ ReadMeansReceipt(file) /\ DecisionsKeepTheirMessage(file)
    /\ ApprovalsFit(file) /\ WindowsCounted(file)

---------------------------------------------------------------------------
(* Saves. *)

\* What w saves was not made of the document that is in the file: others saved
\* after it was read.  A section of submit_sync_mutation saves what the first one read.
Stale(w) ==
    LET r == workers[w]
        section == Head(r.todo)
        read == IF section = "submit_sync_mutation" THEN r.seen[1] ELSE r.doc
        swept == {_normalize_store(file, l) : l \in SUBSET late}
        made == {Do(file, section, [r.call EXCEPT !.late = l, !.seen = r.seen]) : l \in SUBSET late}
    IN \/ r.pc = "store" /\ read /= file
       \/ r.pc \in {"tidy", "sweep"} /\ r.doc \notin swept
       \/ r.pc = "write" /\ r.doc \notin made

StaleSave == \E w \in Workers : Stale(w) /\ workers'[w] /= workers[w]

(***************************************************************************)
(* What has ended stays ended and what is written once stays as it is,      *)
(* unless a save puts back a document read before another save: no method   *)
(* revives a revoked credential, a spent proof, a finished claim, a         *)
(* tombstone or an expired pairing, and no retry writes an answer again.    *)
(* In one process no locked call saves a stale document.                    *)
(***************************************************************************)
EndedStaysEnded ==
    [][ \/ StaleSave
        \/ \A k \in DOMAIN file \cap DOMAIN file' :
              /\ HasEnded(file, k) => HasEnded(file', k)
              /\ k[1] \in Once => file'[k] = file[k] ]_fileVars

LockedSave == \E w \in Workers : /\ workers[w].pc \in {"tidy", "sweep", "store", "write"}
                                 /\ workers'[w] /= workers[w]
                                 /\ Head(workers[w].todo) \notin WithoutLock
                                 /\ Stale(w)

(***************************************************************************)
(* In one process a section that holds the lock from its load to its save   *)
(* saves over the very document it read, whatever unlocked calls run beside *)
(* it, so no locked call loses the update of another; and no request meets  *)
(* half a file unless the process crashed while it wrote.                   *)
(***************************************************************************)
LockHolds ==
    [][ lane.processes = 1 =>
          /\ ~LockedSave
          /\ \A w \in Workers :
                half /\ workers[w].pc = "load" /\ workers'[w] = Idle => crashed' ]_fileVars

OnlyLocked == lane.processes = 1 /\ \A c \in lane.calls : c.op \notin WithoutLock

(***************************************************************************)
(* A check that is recorded as allowed is one the server and the policy of  *)
(* that moment allow: the server is active and the policy does not block.   *)
(* The code compares revision numbers for this, so it holds while no save   *)
(* is lost: an unlocked save may put back a document without a policy, and  *)
(* the next policy then takes a revision a check has already read.          *)
(***************************************************************************)
AllowedIsCurrent ==
    [][ OnlyLocked =>
          \A k \in Section(file', "check") \ DOMAIN file :
             file'[k].status = "allowed" =>
                LET server == file[file'[k].in]
                    policy == <<"policy", server.in[2]>>
                IN /\ server.status = "active"
                   /\ policy \in DOMAIN file => file[policy].status /= "blocked" ]_fileVars

(* What one call writes in several places fits together in every document.    *)
DocumentsAgree == FileTypeOK /\ RecordsAgree

(* No call acts on, or brings back, what has ended.                           *)
CallsRespectEnds == EndedStaysEnded /\ AllowedIsCurrent
=============================================================================
