------------------------------ MODULE Records ------------------------------
(* What a workspace keeps: memories and their reviews, the virtual .uai       *)
(* package of an agent with its revisions, knowledge documents with their     *)
(* sources, external links with their citations, and projects, under one      *)
(* quota.  The quota is checked before the writing transaction begins, and    *)
(* the statements before a transaction's first write commit on their own:     *)
(* what a call decided from them may be stale when it writes.  The threads of *)
(* one process enter a store call one at a time; processes do not wait.       *)
EXTENDS Integers, FiniteSets

CONSTANTS Workers,      \* threads, or processes, carrying out calls
          Packages,     \* virtual .uai packages, one for an agent
          Paths,        \* logical paths of a package
          Required,     \* those a package needs to be ready
          Texts,        \* titles with contents of a .uai record
          Documents, Sources, Links, Keywords, Projects,
          Lanes,        \* bounds: the kinds of call of one behaviour and their number,
                        \* and the quota of the workspace, in units of one write
          None

ASSUME RecordsAssumption ==
    /\ IsFiniteSet(Workers) /\ Workers # {}
    /\ \A l \in Lanes : l.calls \in Nat /\ l.limit \in Nat
    /\ Required \subseteq Paths /\ Required # {}
    /\ None \notin Documents \cup {"setup_required", "active"}
    /\ None \notin [revision : Nat, text : Texts]

VARIABLES oneProcess,   \* whether every worker is a thread of one process
          lane,         \* the lane of this behaviour
          usage,        \* units stored
          unchecked,    \* those stored by calls that ask for no quota
          memories,     \* memory records by number
          reviews,      \* the review of each memory
          packages,     \* status of each package, None before it is created
          files,        \* current .uai records
          revisions,    \* every revision of a .uai record ever written
          documents, sources, links, mentions, projects,
          calls,        \* what each worker is doing
          begun         \* calls begun so far

setting == <<oneProcess, lane>>
quota == <<usage, unchecked>>
memory == <<memories, reviews>>
uai == <<packages, files, revisions>>
knowledge == <<documents, sources>>
citations == <<links, mentions>>
recordsVars == <<setting, quota, memory, uai, knowledge, citations, projects, calls, begun>>

Partial(D, R) == UNION {[S -> R] : S \in SUBSET D}
Maybe(S) == S \cup {None}

ReviewStatuses == {"pending", "promoted", "rejected", "quarantined"}
Memory == [review: ReviewStatuses,
           promotion: {"review_pending", "promoted", "rejected", "quarantined"},
           status: {"active", "rejected", "quarantined"}]
File == [revision: 1..lane.calls, text: Texts]
Revision == [package: Packages, path: Paths, revision: 1..lane.calls, text: Texts]
Document == [status: {"current", "superseded"}, by: Maybe(Documents), source: Sources]
LinkStatuses == {"unreviewed", "reviewed", "quarantined", "rejected"}
Link == [status: LinkStatuses, keywords: SUBSET Keywords]

Idle == [op |-> "none"]
Steps == {"quota", "read", "write"}
MemoryCall == [op: {"submit", "promote"}, step: Steps, quarantine: BOOLEAN]
UaiCall == [op: {"package", "upsert"}, step: Steps, package: Packages, path: Paths,
            expected: 0..lane.calls, seen: 0..lane.calls, text: Texts, ready: BOOLEAN]
DocumentCall == [op: {"document"}, step: Steps, document: Documents, source: Sources,
                 by: Maybe(Documents), fresh: BOOLEAN]
LinkCall == [op: {"link"}, step: Steps, link: Links, document: Maybe(Documents),
             status: LinkStatuses, keywords: SUBSET Keywords, valid: BOOLEAN, fresh: BOOLEAN]
ProjectCall == [op: {"project"}, step: Steps, project: Projects, fresh: BOOLEAN]

RecordsTypeOK ==
    /\ oneProcess \in BOOLEAN /\ lane \in Lanes
    /\ usage \in 0..lane.calls /\ unchecked \in 0..usage
    /\ DOMAIN memories \subseteq 1..lane.calls /\ DOMAIN reviews = DOMAIN memories
    /\ \A m \in DOMAIN memories : memories[m] \in Memory /\ reviews[m] \in ReviewStatuses
    /\ packages \in [Packages -> {"setup_required", "active", None}]
    /\ files \in [Packages -> [Paths -> Maybe(File)]]
    /\ revisions \in SUBSET Revision
    /\ documents \in Partial(Documents, Document) /\ sources \in SUBSET Sources
    /\ \A d \in DOMAIN documents : documents[d].by \in Maybe(DOMAIN documents)
    /\ links \in Partial(Links, Link)
    /\ mentions \in SUBSET ((DOMAIN links) \X (DOMAIN documents))
    /\ projects \in SUBSET Projects
    /\ calls \in [Workers -> {Idle} \cup MemoryCall \cup UaiCall \cup DocumentCall \cup LinkCall
                               \cup ProjectCall]
    /\ begun \in 0..lane.calls

-----------------------------------------------------------------------------
(* A call arrives, and is carried out in store calls of one or two steps.     *)
Inside(w) == calls[w] # Idle /\ calls[w].step = "write" /\ calls[w].op \notin {"submit", "promote"}
May(w) == oneProcess => \A v \in Workers \ {w} : ~Inside(v)
At(w, step, ops) == calls[w] # Idle /\ calls[w].step = step /\ calls[w].op \in ops /\ May(w)
End(w) == calls' = [calls EXCEPT ![w] = Idle]
Begin(w, call) == /\ calls[w] = Idle /\ begun < lane.calls /\ call.op \in lane.ops
                  /\ begun' = begun + 1
                  /\ calls' = [calls EXCEPT ![w] = call]
                  /\ UNCHANGED <<setting, quota, memory, uai, knowledge, citations, projects>>

BeginSubmit(w, quarantine) ==
    Begin(w, [op |-> "submit", step |-> "quota", quarantine |-> quarantine])
BeginPromote(w, quarantine) ==
    Begin(w, [op |-> "promote", step |-> "quota", quarantine |-> quarantine])
BeginPackage(w, p) ==
    \E path \in Paths, text \in Texts :
      Begin(w, [op |-> "package", step |-> "read", package |-> p, path |-> path, expected |-> 0,
                seen |-> 0, text |-> text, ready |-> FALSE])
BeginUpsert(w, p, path, text, expected) ==
    /\ packages[p] # None
    /\ Begin(w, [op |-> "upsert", step |-> "read", package |-> p, path |-> path,
                 expected |-> expected, seen |-> 0, text |-> text, ready |-> FALSE])
BeginDocument(w, d, s, by) ==
    /\ by # d
    /\ Begin(w, [op |-> "document", step |-> "quota", document |-> d, source |-> s, by |-> by,
                 fresh |-> FALSE])
BeginLink(w, x, d, status, keywords, valid) ==
    /\ keywords # {} /\ d \in Maybe(DOMAIN documents)
    /\ Begin(w, [op |-> "link", step |-> "quota", link |-> x, document |-> d, status |-> status,
                 keywords |-> keywords, valid |-> valid, fresh |-> FALSE])
BeginProject(w, p) ==
    Begin(w, [op |-> "project", step |-> "quota", project |-> p, fresh |-> FALSE])

(* The quota of the handlers: a store call of its own.                        *)
HasQuotaFor == usage + 1 <= lane.limit
Checked == usage' = usage + 1 /\ UNCHANGED unchecked

CheckQuota(w) ==
    /\ At(w, "quota", {"submit", "promote", "document", "link", "project"})
    /\ IF HasQuotaFor
       THEN calls' = [calls EXCEPT ![w].step =
                        IF calls[w].op \in {"submit", "promote"} THEN "write" ELSE "read"]
       ELSE End(w)
    /\ UNCHANGED <<setting, quota, memory, uai, knowledge, citations, projects, begun>>

-----------------------------------------------------------------------------
(* Memory.  The firewall accepts a submission, or quarantines it for review.  *)
With(f, x, y) == [z \in DOMAIN f \cup {x} |-> IF z = x THEN y ELSE f[z]]

SubmitMemory(w) ==
    LET m == Cardinality(DOMAIN memories) + 1
        quarantined == calls[w].quarantine
    IN
    /\ At(w, "write", {"submit", "promote"})
    /\ memories' = With(memories, m,
         [review |-> IF quarantined THEN "quarantined" ELSE "pending",
          promotion |-> IF quarantined THEN "quarantined" ELSE "review_pending",
          status |-> IF quarantined THEN "quarantined" ELSE "active"])
    /\ reviews' = With(reviews, m, IF quarantined THEN "quarantined" ELSE "pending")
    /\ Checked /\ End(w)
    /\ UNCHANGED <<setting, uai, knowledge, citations, projects, begun>>

(* A decision replaces the one before, if there is one: nothing is final.     *)
DecideReview(w, m, target) ==
    /\ calls[w] = Idle /\ begun < lane.calls /\ "decide" \in lane.ops /\ May(w)
    /\ reviews' = [reviews EXCEPT ![m] = target]
    /\ memories' = [memories EXCEPT ![m] =
                      [review |-> target, promotion |-> target,
                       status |-> IF target = "promoted" THEN "active" ELSE target]]
    /\ usage' = usage + 1 /\ unchecked' = unchecked + 1 /\ begun' = begun + 1
    /\ UNCHANGED <<setting, uai, knowledge, citations, projects, calls>>

\* What a search shows.
Found(m) == memories[m].status \notin {"rejected", "quarantined"}

-----------------------------------------------------------------------------
(* Virtual .uai packages.  A record is replaced by its revision; a package is *)
(* ready when every required path has a record.  Here the quota is compared   *)
(* inside the call: with what MySQL's snapshot shows, hence in the first step *)
(* (SQLite's comparison begins the write, and is never stale).                *)
RevisionOf(f) == IF f = None THEN 0 ELSE f.revision
Present(p, current) == {path \in Paths : current[p][path] # None}
StatusOf(p, current) ==
    IF Required \subseteq Present(p, current) THEN "active" ELSE "setup_required"

PackageRead(w) ==
    LET p == calls[w].package IN
    /\ At(w, "read", {"package"})
    /\ IF packages[p] = None /\ HasQuotaFor THEN calls' = [calls EXCEPT ![w].step = "write"]
       ELSE End(w)
    /\ UNCHANGED <<setting, quota, memory, uai, knowledge, citations, projects, begun>>

PackageWrite(w) ==
    LET p == calls[w].package IN
    /\ At(w, "write", {"package"})
    /\ IF packages[p] = None
       THEN packages' = [packages EXCEPT ![p] = "setup_required"] /\ Checked
       ELSE UNCHANGED <<packages, quota>>
    /\ End(w)
    /\ UNCHANGED <<setting, memory, files, revisions, knowledge, citations, projects, begun>>

\* Mutated form: a client that expects no revision replaces any.
UpsertReadUnexpected(w) ==
    LET c == calls[w]
        current == files[c.package][c.path]
    IN
    /\ At(w, "read", {"upsert"})
    /\ IF /\ c.expected \in {0, RevisionOf(current)}
          /\ current # None => current.text # c.text
          /\ HasQuotaFor
       THEN calls' = [calls EXCEPT ![w].step = "write", ![w].seen = RevisionOf(current),
                                   ![w].ready = Required \subseteq Present(c.package, files)]
       ELSE End(w)
    /\ UNCHANGED <<setting, quota, memory, uai, knowledge, citations, projects, begun>>

UpsertRead(w) ==
    LET c == calls[w]
        current == files[c.package][c.path]
    IN
    /\ At(w, "read", {"upsert"})
    /\ IF /\ c.expected = RevisionOf(current)
          /\ current # None => current.text # c.text
          /\ HasQuotaFor
       THEN calls' = [calls EXCEPT ![w].step = "write", ![w].seen = RevisionOf(current),
                                   ![w].ready = Required \subseteq Present(c.package, files)]
       ELSE End(w)
    /\ UNCHANGED <<setting, quota, memory, uai, knowledge, citations, projects, begun>>

\* Mutated form: the package is as ready as it was when the call began.
ReadinessStale(w, current) == IF calls[w].ready THEN "active" ELSE "setup_required"

Readiness(w, current) == StatusOf(calls[w].package, current)

UpsertWrite(w) ==
    LET c == calls[w]
        file == [revision |-> c.seen + 1, text |-> c.text]
        current == [files EXCEPT ![c.package][c.path] = file]
    IN
    /\ At(w, "write", {"upsert"})
    /\ IF RevisionOf(files[c.package][c.path]) = c.seen
       THEN /\ files' = current
            /\ revisions' = revisions \cup {[package |-> c.package, path |-> c.path,
                                             revision |-> file.revision, text |-> c.text]}
            /\ packages' = [packages EXCEPT ![c.package] = Readiness(w, current)]
            /\ Checked
       ELSE UNCHANGED <<uai, quota>>
    /\ End(w)
    /\ UNCHANGED <<setting, memory, knowledge, citations, projects, begun>>

-----------------------------------------------------------------------------
(* Knowledge documents, links and projects.  An insertion of what another     *)
(* process inserted since it was looked for fails, and with it the call.      *)
DocumentRead(w) ==
    LET c == calls[w] IN
    /\ At(w, "read", {"document"})
    /\ IF c.by = None \/ c.by \in DOMAIN documents
       THEN calls' = [calls EXCEPT ![w].step = "write", ![w].fresh = c.source \notin sources]
       ELSE End(w)
    /\ UNCHANGED <<setting, quota, memory, uai, knowledge, citations, projects, begun>>

DocumentWrite(w) ==
    LET c == calls[w] IN
    /\ At(w, "write", {"document"})
    /\ IF c.fresh /\ c.source \in sources THEN UNCHANGED <<knowledge, quota>>
       ELSE /\ sources' = sources \cup {c.source}
            /\ documents' = With(documents, c.document,
                 [status |-> IF c.by = None THEN "current" ELSE "superseded", by |-> c.by,
                  source |-> c.source])
            /\ Checked
    /\ End(w)
    /\ UNCHANGED <<setting, memory, uai, citations, projects, begun>>

(* The keywords of a link are added to those it has, and a review is kept     *)
(* when the call names none; the merge is with the row read before the write. *)
MergeStatus(existing, requested) ==
    IF requested = "unreviewed" THEN existing ELSE requested

\* Mutated form: the keywords of the call replace those of the link.
MergedReplaced(c) ==
    IF c.link \in DOMAIN links
    THEN [status |-> MergeStatus(links[c.link].status, c.status), keywords |-> c.keywords]
    ELSE [status |-> c.status, keywords |-> c.keywords]

Merged(c) ==
    IF c.link \in DOMAIN links
    THEN [status |-> MergeStatus(links[c.link].status, c.status),
          keywords |-> links[c.link].keywords \cup c.keywords]
    ELSE [status |-> c.status, keywords |-> c.keywords]

LinkRead(w) ==
    LET c == calls[w]
        merged == Merged(c)
    IN
    /\ At(w, "read", {"link"})
    /\ calls' = [calls EXCEPT ![w].step = "write", ![w].fresh = c.link \notin DOMAIN links,
                              ![w].status = merged.status, ![w].keywords = merged.keywords]
    /\ UNCHANGED <<setting, quota, memory, uai, knowledge, citations, projects, begun>>

(* A citation order that is no number is found after the link is written, and *)
(* the early return commits the link.                                         *)
LinkWrite(w) ==
    LET c == calls[w] IN
    /\ At(w, "write", {"link"})
    /\ IF c.fresh /\ c.link \in DOMAIN links THEN UNCHANGED <<citations, quota>>
       ELSE /\ links' = With(links, c.link, [status |-> c.status, keywords |-> c.keywords])
            /\ IF c.document = None THEN Checked /\ UNCHANGED mentions
               ELSE IF c.valid THEN Checked /\ mentions' = mentions \cup {<<c.link, c.document>>}
               ELSE UNCHANGED <<mentions, quota>>
    /\ End(w)
    /\ UNCHANGED <<setting, memory, uai, knowledge, projects, begun>>

ProjectRead(w) ==
    /\ At(w, "read", {"project"})
    /\ calls' = [calls EXCEPT ![w].step = "write", ![w].fresh = calls[w].project \notin projects]
    /\ UNCHANGED <<setting, quota, memory, uai, knowledge, citations, projects, begun>>

ProjectWrite(w) ==
    LET c == calls[w] IN
    /\ At(w, "write", {"project"})
    /\ IF c.fresh /\ c.project \in projects THEN UNCHANGED <<projects, quota>>
       ELSE projects' = projects \cup {c.project} /\ Checked
    /\ End(w)
    /\ UNCHANGED <<setting, memory, uai, knowledge, citations, begun>>

-----------------------------------------------------------------------------
RecordsInit ==
    /\ oneProcess \in BOOLEAN /\ lane \in Lanes /\ usage = 0 /\ unchecked = 0
    /\ memories = [m \in {} |-> None] /\ reviews = [m \in {} |-> None]
    /\ packages = [p \in Packages |-> None] /\ revisions = {}
    /\ files = [p \in Packages |-> [path \in Paths |-> None]]
    /\ documents = [d \in {} |-> None] /\ sources = {}
    /\ links = [x \in {} |-> None] /\ mentions = {} /\ projects = {}
    /\ calls = [w \in Workers |-> Idle] /\ begun = 0

Arrive(w) ==
    \/ \E quarantine \in BOOLEAN : BeginSubmit(w, quarantine) \/ BeginPromote(w, quarantine)
    \/ \E p \in Packages : BeginPackage(w, p)
    \/ \E p \in Packages, path \in Paths, text \in Texts, expected \in 0..lane.calls :
         BeginUpsert(w, p, path, text, expected)
    \/ \E d \in Documents, s \in Sources, by \in Maybe(Documents) : BeginDocument(w, d, s, by)
    \/ \E x \in Links, d \in Maybe(Documents), status \in LinkStatuses :
         \E keywords \in SUBSET Keywords, valid \in BOOLEAN :
           BeginLink(w, x, d, status, keywords, valid)
    \/ \E p \in Projects : BeginProject(w, p)

Server(w) ==
    \/ CheckQuota(w) \/ SubmitMemory(w)
    \/ \E m \in DOMAIN reviews, target \in ReviewStatuses \ {"pending"} : DecideReview(w, m, target)
    \/ PackageRead(w) \/ PackageWrite(w) \/ UpsertRead(w) \/ UpsertWrite(w)
    \/ DocumentRead(w) \/ DocumentWrite(w) \/ LinkRead(w) \/ LinkWrite(w)
    \/ ProjectRead(w) \/ ProjectWrite(w)

RecordsNext == \E w \in Workers : Arrive(w) \/ Server(w)

RecordsSpec == RecordsInit /\ [][RecordsNext]_recordsVars

-----------------------------------------------------------------------------
(* Properties.                                                                *)

(* A search shows a memory exactly while the last word of its review allows   *)
(* it, whoever decided, however often and in whatever order.                  *)
ReviewsGovernSearch ==
    \A m \in DOMAIN memories : /\ Found(m) <=> reviews[m] \in {"pending", "promoted"}
                               /\ memories[m].review = reviews[m]

(* The revisions of a .uai record are its history without a gap, the record   *)
(* is the last of them, and the package is ready exactly when the required    *)
(* records are there, with writers in several processes.                      *)
PackagesAreTrue ==
    \A p \in Packages :
      /\ packages[p] # None => packages[p] = StatusOf(p, files)
      /\ \A path \in Paths :
           LET history == {r \in revisions : r.package = p /\ r.path = path}
               current == files[p][path]
           IN /\ {r.revision : r \in history} = 1..RevisionOf(current)
              /\ Cardinality(history) = RevisionOf(current)
              /\ current # None => \E r \in history : /\ r.revision = current.revision
                                                      /\ r.text = current.text

(* A .uai record changes only by a call that expected the revision it         *)
(* replaces.                                                                  *)
UpsertsCompareAndSwap ==
    [][\A p \in Packages, path \in Paths :
         files'[p][path] # files[p][path] =>
           \E w \in Workers : /\ calls[w] # Idle /\ calls[w].op = "upsert"
                              /\ calls[w].package = p /\ calls[w].path = path
                              /\ calls[w].expected = RevisionOf(files[p][path])]_recordsVars

(* In one process a link only gains keywords, and a review of it is replaced  *)
(* by another review only.                                                    *)
LinksAccumulate ==
    [][oneProcess => \A x \in DOMAIN links :
         /\ links[x].keywords \subseteq links'[x].keywords
         /\ links'[x].status = "unreviewed" => links[x].status = "unreviewed"]_recordsVars

(* The writes that asked for quota exceed it by at most one for each worker   *)
(* that passed the check beside the last one admitted.                        *)
AdmittedWithinLimit == usage - unchecked < lane.limit + Cardinality(Workers)

(* Memories, packages and the quota are as their last writers left them,      *)
(* though every call reads before it writes and others write in between.      *)
RecordsAreTrue ==
    /\ RecordsTypeOK
    /\ ReviewsGovernSearch
    /\ PackagesAreTrue
    /\ AdmittedWithinLimit
=============================================================================
