-------------------------- MODULE FileDocumentsProofs --------------------------
(***************************************************************************)
(* What the methods of FileStore make of a document, whatever the document, *)
(* the call and the constants are.  A document is Good when its entries sit *)
(* where their sections say (Shaped), its replacements name successors      *)
(* (SuccessionInv), its records fit together (Records) and nothing in it    *)
(* carries a number of U, the numbers of calls that have yet to save.  The  *)
(* sweep of a load and every section of every call leave a good document    *)
(* good (SweepKeeps, AuxGood, OwnGood); ClaimsAndFilesProofs takes it from  *)
(* there to the file.                                                       *)
(***************************************************************************)
EXTENDS FilePromises, FiniteSetTheorems, WellFoundedInduction, TLAPS

---------------------------------------------------------------------------
(* FileStore: the shape of a document.                                      *)

\* How deep an entry of a section may lie; no section of a document has level 0.
Level(s) ==
    IF s = "company" THEN 1
      ELSE IF s \in {"account", "human", "audit", "workspace", "master", "humancred", "setup", "recovery", "proof", "authority",
                "intent", "exportreceipt", "request", "identity", "invite", "grant",
                "replacement", "pairrequest", "pairing"} THEN 2
      ELSE IF s \in {"session", "project", "room", "knowledge", "link", "device", "syncmemory", "agent", "package",
                "memory", "review", "message", "idem", "token", "credential", "rotation"} THEN 3
      ELSE IF s \in {"meeting", "routing", "read", "mention", "revision", "syncreceipt", "record",
                "uaihead", "notification", "policy", "server", "context", "goal", "game"} THEN 4
      ELSE IF s \in {"claim", "receipt", "recordrevision", "approval", "check", "task",
                "gamesession", "rate"} THEN 5
      ELSE 0

\* The sections whose keys carry the number of the call that made them.
Generated == {"account", "company", "human", "workspace", "master", "humancred", "recovery", "proof",
    "authority", "session", "intent", "exportreceipt", "request", "identity", "invite", "grant",
    "replacement", "pairrequest", "pairing", "project", "memory", "review", "message", "token",
    "credential", "rotation", "meeting", "routing", "revision", "syncreceipt", "notification",
    "server", "claim", "receipt", "check"}

Number(k) == IF k[1] = "notification" THEN k[2][1] ELSE k[2]

IsKey(k) == k = <<k[1], k[2]>>

IsEntry(x) ==
    /\ x = [status |-> x.status, in |-> x.in, by |-> x.by, to |-> x.to, rev |-> x.rev, val |-> x.val]
    /\ x.status \in EntryStatuses /\ x.rev \in Nat

\* An entry lies under nothing or under something of a lower level.
Lies(k, p) == p = Nobody \/ (IsKey(p) /\ Level(p[1]) >= 1 /\ Level(p[1]) < Level(k[1]))

\* What an entry of some sections holds besides.
IsWorkspace(w) == w = Nobody \/ (IsKey(w) /\ w[1] = "workspace")
Ref(p, s) == p = Nobody \/ p[1] = s
Holding(k, x) ==
    /\ k[1] = "company" => x.val = <<x.val[1], x.val[2]>> /\ x.val[2] \in EntryStatuses
    /\ k[1] = "session" => Ref(x.by, "authority")
    /\ k[1] = "room" => x.in = k[2][1]
    /\ k[1] = "grant" => Ref(x.by, "token")
    /\ k[1] = "token" => x.in[1] = "grant"
    /\ k[1] = "request" => Ref(x.to, "token") /\ Ref(x.by, "invite") /\ IsKey(x.val[2])
    /\ k[1] = "invite" => Ref(x.to, "request")
    /\ k[1] = "replacement" => Ref(x.by, "token") /\ Ref(x.to, "token")
    /\ k[1] = "credential" => x.in[1] = "pairing"
    /\ k[1] = "rotation" => /\ x.in[1] = "pairing"
                            /\ Ref(x.by, "credential") /\ Ref(x.to, "credential")
    /\ k[1] = "pairrequest" => /\ x.val = <<x.val[1], x.val[2]>> /\ x.val[2] \in BOOLEAN
                               /\ IsWorkspace(x.to) /\ (x.val[2] => x.to[1] = "workspace")
    /\ k[1] = "pairing" => /\ x.val = <<x.val[1], x.val[2], x.val[3], x.val[4]>>
                           /\ x.val[3] \in BOOLEAN
                           /\ IsWorkspace(x.val[1]) /\ (x.val[3] => x.val[1][1] = "workspace")
                           /\ Ref(x.by, "credential") /\ Ref(x.to, "pairrequest")

\* The numbers of U are not used.
Unused(k, x, U) ==
    /\ k[1] \in Generated => Number(k) \notin U
    /\ k[1] = "pairrequest" /\ x.to[1] = "workspace" => x.to[2] \notin U
    /\ k[1] = "pairing" /\ x.val[1][1] = "workspace" => x.val[1][2] \notin U

Sits(k, x, U) ==
    /\ IsKey(k) /\ Level(k[1]) >= 1
    /\ IsEntry(x) /\ Lies(k, x.in) /\ Holding(k, x) /\ Unused(k, x, U)

Shaped(d, U) == \A k \in DOMAIN d : Sits(k, d[k], U)

\* A grant, a token and a replacement stay what they were made, their status aside.
Lasting == {"grant", "token", "replacement"}
SameLinks(x, y) == y.in = x.in /\ y.by = x.by /\ y.to = x.to

\* A replacement names a successor of the token it replaces.
Follows(d, r) ==
    /\ d[r].to \in DOMAIN d /\ d[d[r].to].in \in DOMAIN d
    /\ d[r].to[1] = "token" /\ d[d[r].to].in[1] = "grant"
    /\ d[d[d[r].to].in].by = d[r].by
    /\ d[d[d[r].to].in].in = d[r].in

SuccessionInv(d) == \A r \in DOMAIN d : r[1] = "replacement" => Follows(d, r)

\* Only entries of the sections X differ, but for rooms, which stay where they are.
Changes(d, e, X) ==
    /\ \A k : k[1] \notin X /\ k[1] /= "room" =>
                 (k \in DOMAIN d <=> k \in DOMAIN e) /\ (k \in DOMAIN d => e[k] = d[k])
    /\ \A k \in DOMAIN d : k[1] = "room" => k \in DOMAIN e
    /\ \A k \in DOMAIN d : k[1] \in Lasting => k \in DOMAIN e /\ SameLinks(d[k], e[k])
    /\ \A r \in DOMAIN e : r[1] = "replacement" => r \in DOMAIN d \/ Follows(e, r)

\* e is a document made of d.
Makes(d, e, X, U) == Shaped(e, U) /\ Changes(d, e, X)

\* The level of every section.
LEMMA LevelIs ==
  /\ Level("account") = 2 /\ Level("company") = 1 /\ Level("human") = 2 /\ Level("rate") = 5
  /\ Level("audit") = 2
  /\ Level("workspace") = 2 /\ Level("master") = 2 /\ Level("humancred") = 2 /\ Level("setup") = 2
  /\ Level("recovery") = 2 /\ Level("proof") = 2 /\ Level("authority") = 2 /\ Level("session") = 3
  /\ Level("intent") = 2 /\ Level("exportreceipt") = 2 /\ Level("request") = 2
  /\ Level("identity") = 2 /\ Level("invite") = 2 /\ Level("grant") = 2
  /\ Level("replacement") = 2 /\ Level("pairrequest") = 2 /\ Level("pairing") = 2
  /\ Level("project") = 3 /\ Level("room") = 3 /\ Level("knowledge") = 3 /\ Level("link") = 3
  /\ Level("device") = 3 /\ Level("syncmemory") = 3 /\ Level("agent") = 3 /\ Level("package") = 3
  /\ Level("memory") = 3 /\ Level("review") = 3 /\ Level("message") = 3 /\ Level("idem") = 3
  /\ Level("token") = 3 /\ Level("credential") = 3 /\ Level("rotation") = 3
  /\ Level("meeting") = 4 /\ Level("routing") = 4 /\ Level("read") = 4 /\ Level("mention") = 4
  /\ Level("revision") = 4 /\ Level("syncreceipt") = 4 /\ Level("record") = 4
  /\ Level("uaihead") = 4 /\ Level("notification") = 4 /\ Level("policy") = 4
  /\ Level("server") = 4 /\ Level("context") = 4 /\ Level("goal") = 4 /\ Level("game") = 4
  /\ Level("claim") = 5 /\ Level("receipt") = 5 /\ Level("recordrevision") = 5
  /\ Level("approval") = 5 /\ Level("check") = 5 /\ Level("task") = 5 /\ Level("gamesession") = 5
  /\ Level("nobody") = 0 /\ Level(Nobody[1]) = 0
BY NobodyIsNoKey DEF Level

\* The statuses that entries are given are statuses.
LEMMA StatusesAre ==
  /\ "active" \in EntryStatuses /\ "allowed" \in EntryStatuses /\ "applied" \in EntryStatuses
  /\ "approval_required" \in EntryStatuses /\ "approved" \in EntryStatuses /\ "authorization_code_expired" \in EntryStatuses
  /\ "authorization_code_issued" \in EntryStatuses /\ "autonomous" \in EntryStatuses /\ "blank" \in EntryStatuses
  /\ "blocked" \in EntryStatuses /\ "canceled" \in EntryStatuses /\ "cancelled" \in EntryStatuses
  /\ "chosen" \in EntryStatuses /\ "cited" \in EntryStatuses /\ "closed" \in EntryStatuses
  /\ "complete" \in EntryStatuses /\ "completed" \in EntryStatuses /\ "confirmed" \in EntryStatuses
  /\ "conflict" \in EntryStatuses /\ "consumed" \in EntryStatuses /\ "current" \in EntryStatuses
  /\ "denied" \in EntryStatuses /\ "disabled" \in EntryStatuses /\ "disconnected" \in EntryStatuses
  /\ "exchanged" \in EntryStatuses /\ "expired" \in EntryStatuses /\ "human_required" \in EntryStatuses
  /\ "issued" \in EntryStatuses /\ "kept" \in EntryStatuses /\ "none" \in EntryStatuses
  /\ "open" \in EntryStatuses /\ "pending" \in EntryStatuses /\ "pending_activation" \in EntryStatuses
  /\ "pending_human_approval" \in EntryStatuses /\ "prepared" \in EntryStatuses /\ "promoted" \in EntryStatuses
  /\ "quarantined" \in EntryStatuses /\ "read" \in EntryStatuses /\ "ready" \in EntryStatuses
  /\ "recorded" \in EntryStatuses /\ "redeemed" \in EntryStatuses /\ "rejected" \in EntryStatuses
  /\ "released" \in EntryStatuses /\ "reviewed" \in EntryStatuses /\ "revoked" \in EntryStatuses
  /\ "sent" \in EntryStatuses /\ "setup_required" \in EntryStatuses /\ "soft_deleted" \in EntryStatuses
  /\ "superseded" \in EntryStatuses /\ "tombstoned" \in EntryStatuses /\ "tracked" \in EntryStatuses
  /\ "unread" \in EntryStatuses /\ "unreviewed" \in EntryStatuses /\ "written" \in EntryStatuses
BY DEF EntryStatuses

\* A level is one of six numbers.
LEMMA LevelType == \A s : Level(s) \in 0..5
BY DEF Level

\* What a put changes: the one key.
LEMMA PutIs ==
  ASSUME NEW d, NEW k, NEW x
  PROVE  /\ DOMAIN Put(d, k, x) = DOMAIN d \cup {k}
         /\ Put(d, k, x)[k] = x
         /\ \A j \in DOMAIN d : j /= k => Put(d, k, x)[j] = d[j]
BY DEF Put

\* What several puts at once change: their keys.
LEMMA WithIs ==
  ASSUME NEW d, NEW f
  PROVE  /\ DOMAIN With(d, f) = DOMAIN d \cup DOMAIN f
         /\ \A j \in DOMAIN f : With(d, f)[j] = f[j]
         /\ \A j \in DOMAIN d \ DOMAIN f : With(d, f)[j] = d[j]
BY DEF With

\* What is dropped goes, the rest stays as it is.
LEMMA DropIs ==
  ASSUME NEW d, NEW K
  PROVE  /\ DOMAIN Drop(d, K) = DOMAIN d \ K
         /\ \A j \in DOMAIN d \ K : Drop(d, K)[j] = d[j]
BY DEF Drop

\* What is marked gets the status, the rest stays as it is.
LEMMA MarkIs ==
  ASSUME NEW d, NEW K, NEW s
  PROVE  /\ DOMAIN Mark(d, K, s) = DOMAIN d
         /\ \A j \in DOMAIN d \ K : Mark(d, K, s)[j] = d[j]
         /\ \A j \in DOMAIN d \cap K : Mark(d, K, s)[j] = [d[j] EXCEPT !.status = s]
BY DEF Mark

\* A new entry is an entry.
LEMMA NewIs ==
  ASSUME NEW s \in EntryStatuses, NEW p
  PROVE  /\ IsEntry(New(s, p))
         /\ New(s, p).status = s /\ New(s, p).in = p /\ New(s, p).by = Nobody
         /\ New(s, p).to = Nobody /\ New(s, p).rev = 0 /\ New(s, p).val = <<>>
BY DEF New, IsEntry

\* Marking an entry changes its status and nothing else.
LEMMA MarkedEntry ==
  ASSUME NEW x, IsEntry(x), NEW s
  PROVE  LET y == [x EXCEPT !.status = s]
         IN /\ y = [status |-> s, in |-> x.in, by |-> x.by, to |-> x.to, rev |-> x.rev, val |-> x.val]
            /\ y.status = s /\ y.in = x.in /\ y.by = x.by /\ y.to = x.to /\ y.rev = x.rev
            /\ y.val = x.val
BY DEF IsEntry

\* A marked entry sits where it sat.
LEMMA MarkSits ==
  ASSUME NEW k, NEW x, NEW U, NEW s \in EntryStatuses, Sits(k, x, U)
  PROVE  Sits(k, [x EXCEPT !.status = s], U)
<1>. DEFINE y == [x EXCEPT !.status = s]
<1>1. /\ y = [status |-> s, in |-> x.in, by |-> x.by, to |-> x.to, rev |-> x.rev, val |-> x.val]
      /\ y.status = s /\ y.in = x.in /\ y.by = x.by /\ y.to = x.to /\ y.rev = x.rev /\ y.val = x.val
  BY MarkedEntry DEF Sits
<1>. HIDE DEF y
<1>2. IsEntry(y)
  BY <1>1 DEF Sits, IsEntry
<1>3. Lies(k, y.in) /\ Holding(k, y) /\ Unused(k, y, U)
  BY <1>1 DEF Sits, Holding, Unused
<1>. QED  BY <1>2, <1>3 DEF Sits, y

\* A replacement names a successor as long as grants and tokens keep their links.
LEMMA FollowsStays ==
  ASSUME NEW e, NEW f, \A k \in DOMAIN e : k[1] \in Lasting => k \in DOMAIN f /\ SameLinks(e[k], f[k]),
         NEW r \in DOMAIN e, r[1] = "replacement", Follows(e, r)
  PROVE  Follows(f, r)
<1>. DEFINE t == e[r].to
            g == e[t].in
<1>1. r[1] \in Lasting /\ t[1] \in Lasting /\ g[1] \in Lasting
  BY DEF Lasting, Follows
<1>2. t \in DOMAIN e /\ g \in DOMAIN e
  BY DEF Follows
<1>3. SameLinks(e[r], f[r]) /\ t \in DOMAIN f /\ SameLinks(e[t], f[t]) /\ g \in DOMAIN f
      /\ SameLinks(e[g], f[g])
  BY <1>1, <1>2
<1>4. f[r].to = t /\ f[t].in = g
  BY <1>3 DEF SameLinks
<1>5. f[g].by = e[g].by /\ f[g].in = e[g].in /\ f[r].by = e[r].by /\ f[r].in = e[r].in
  BY <1>3 DEF SameLinks
<1>. QED  BY <1>3, <1>4, <1>5 DEF Follows

\* Every replacement of a document that was made names a successor.
LEMMA SuccessionStays ==
  ASSUME NEW d, NEW e, NEW X, NEW U, Makes(d, e, X, U), SuccessionInv(d)
  PROVE  SuccessionInv(e)
<1>. SUFFICES ASSUME NEW r \in DOMAIN e, r[1] = "replacement", r \in DOMAIN d PROVE Follows(e, r)
  BY DEF SuccessionInv, Makes, Changes
<1>. QED  BY FollowsStays DEF SuccessionInv, Makes, Changes

\* A document with other entries for some keys of the sections X.
LEMMA Remake ==
  ASSUME NEW d, NEW e, NEW f, NEW X, NEW U, Makes(d, e, X, U),
         \A k \in DOMAIN e : k[1] \notin X => k \in DOMAIN f,
         \A k \in DOMAIN f : \/ k \in DOMAIN e /\ f[k] = e[k]
                             \/ (k[1] \in X \/ k[1] = "room") /\ Sits(k, f[k], U),
         \A k \in DOMAIN e : k[1] = "room" => k \in DOMAIN f,
         \A k \in DOMAIN e : k[1] \in Lasting => k \in DOMAIN f /\ SameLinks(e[k], f[k]),
         \A r \in DOMAIN f : r[1] = "replacement" => r \in DOMAIN e \/ Follows(f, r),
         \A k \in DOMAIN e \cap DOMAIN f : k[1] \notin X /\ k[1] /= "room" => f[k] = e[k]
  PROVE  Makes(d, f, X, U)
<1>1. Shaped(f, U)
  <2>. SUFFICES ASSUME NEW k \in DOMAIN f PROVE Sits(k, f[k], U)
    BY DEF Shaped
  <2>1. CASE k \in DOMAIN e /\ f[k] = e[k]
    <3>1. Sits(k, e[k], U)
      BY <2>1 DEF Makes, Shaped
    <3>. QED  BY <2>1, <3>1
  <2>. QED  BY <2>1
<1>2. ASSUME NEW k, k[1] \notin X, k[1] /= "room"
      PROVE  (k \in DOMAIN d <=> k \in DOMAIN f) /\ (k \in DOMAIN d => f[k] = d[k])
  <2>1. (k \in DOMAIN d <=> k \in DOMAIN e) /\ (k \in DOMAIN d => e[k] = d[k])
    BY <1>2 DEF Makes, Changes
  <2>2. k \in DOMAIN f <=> k \in DOMAIN e
    BY <1>2
  <2>3. k \in DOMAIN e => f[k] = e[k]
    BY <1>2, <2>2
  <2>. QED  BY <2>1, <2>2, <2>3
<1>3. \A k \in DOMAIN d : k[1] = "room" => k \in DOMAIN f
  BY DEF Makes, Changes
<1>4. ASSUME NEW k \in DOMAIN d, k[1] \in Lasting PROVE k \in DOMAIN f /\ SameLinks(d[k], f[k])
  <2>1. k \in DOMAIN e /\ SameLinks(d[k], e[k])
    BY <1>4 DEF Makes, Changes
  <2>. QED  BY <1>4, <2>1 DEF SameLinks
<1>5. ASSUME NEW r \in DOMAIN f, r[1] = "replacement" PROVE r \in DOMAIN d \/ Follows(f, r)
  <2>1. CASE r \in DOMAIN e /\ Follows(e, r)
    BY <1>5, <2>1, FollowsStays
  <2>. QED  BY <1>5, <2>1 DEF Makes, Changes
<1>. QED  BY <1>1, <1>2, <1>3, <1>4, <1>5 DEF Makes, Changes

\* A document is made of itself.
LEMMA MakesSelf ==
  ASSUME NEW d, NEW X, NEW U, Shaped(d, U)
  PROVE  Makes(d, d, X, U)
BY DEF Makes, Changes, SameLinks

\* One more entry that sits where it is put makes a document.
LEMMA MakesPut ==
  ASSUME NEW d, NEW e, NEW X, NEW U, Makes(d, e, X, U), NEW k, NEW x, Sits(k, x, U), k[1] \in X,
         k[1] \in {"grant", "token"} => k \notin DOMAIN e, k[1] /= "replacement"
  PROVE  Makes(d, Put(e, k, x), X, U)
<1>. DEFINE f == Put(e, k, x)
<1>1. /\ DOMAIN f = DOMAIN e \cup {k} /\ f[k] = x
      /\ \A j \in DOMAIN e : j /= k => f[j] = e[j]
  BY DEF Put
<1>. HIDE DEF f
<1>2. \A j \in DOMAIN e : j[1] \in Lasting => j \in DOMAIN f /\ SameLinks(e[j], f[j])
  BY <1>1 DEF SameLinks, Lasting
<1>3. Makes(d, f, X, U)
  BY <1>1, <1>2, Remake
<1>. QED  BY <1>3 DEF f

\* Entries that nothing lasting needs may be dropped.
LEMMA MakesDrop ==
  ASSUME NEW d, NEW e, NEW X, NEW U, Makes(d, e, X, U), NEW K,
         \A k \in K : k \in DOMAIN e => k[1] \in X /\ k[1] \notin {"room", "grant", "token", "replacement"}
  PROVE  Makes(d, Drop(e, K), X, U)
<1>. DEFINE f == Drop(e, K)
<1>1. DOMAIN f = DOMAIN e \ K /\ \A j \in DOMAIN f : f[j] = e[j]
  BY DEF Drop
<1>. HIDE DEF f
<1>2. \A j \in DOMAIN e : j[1] \in Lasting => j \in DOMAIN f /\ SameLinks(e[j], f[j])
  BY <1>1 DEF SameLinks, Lasting
<1>3. Makes(d, f, X, U)
  BY <1>1, <1>2, Remake
<1>. QED  BY <1>3 DEF f

\* Entries may be marked.
LEMMA MakesMark ==
  ASSUME NEW d, NEW e, NEW X, NEW U, Makes(d, e, X, U), NEW K, NEW s \in EntryStatuses,
         \A k \in K : k \in DOMAIN e => k[1] \in X
  PROVE  Makes(d, Mark(e, K, s), X, U)
<1>. DEFINE f == Mark(e, K, s)
<1>1. /\ DOMAIN f = DOMAIN e
      /\ \A j \in DOMAIN f \ K : f[j] = e[j]
      /\ \A j \in DOMAIN f \cap K : f[j] = [e[j] EXCEPT !.status = s]
  BY DEF Mark
<1>. HIDE DEF f
<1>2. ASSUME NEW j \in DOMAIN e PROVE Sits(j, e[j], U) /\ IsEntry(e[j])
  BY DEF Makes, Shaped, Sits
<1>3. ASSUME NEW j \in DOMAIN f \cap K PROVE Sits(j, f[j], U) /\ SameLinks(e[j], f[j])
  <2>1. Sits(j, f[j], U)
    BY <1>1, <1>2, MarkSits
  <2>3. f[j] = [e[j] EXCEPT !.status = s] /\ IsEntry(e[j])
    BY <1>1, <1>2
  <2>4. LET y == [e[j] EXCEPT !.status = s] IN y.in = e[j].in /\ y.by = e[j].by /\ y.to = e[j].to
    BY <2>3, MarkedEntry
  <2>2. SameLinks(e[j], f[j])
    BY <2>3, <2>4 DEF SameLinks
  <2>. QED  BY <2>1, <2>2
<1>4. \A j \in DOMAIN e : j[1] \in Lasting => j \in DOMAIN f /\ SameLinks(e[j], f[j])
  BY <1>1, <1>3 DEF SameLinks
<1>5. Makes(d, f, X, U)
  BY <1>1, <1>3, <1>4, Remake
<1>. QED  BY <1>5 DEF f

\* One entry is changed in place.
LEMMA MakesChange ==
  ASSUME NEW d, NEW e, NEW X, NEW U, Makes(d, e, X, U), NEW f, NEW k,
         DOMAIN f = DOMAIN e, \A j \in DOMAIN e : j /= k => f[j] = e[j],
         k \in DOMAIN e => k[1] \in X /\ k[1] \notin {"grant", "token", "replacement"} /\ Sits(k, f[k], U)
  PROVE  Makes(d, f, X, U)
<1>1. \A j \in DOMAIN e : j[1] \in Lasting => j \in DOMAIN f /\ SameLinks(e[j], f[j])
  BY DEF SameLinks, Lasting
<1>. QED  BY <1>1, Remake

\* A document that avoids some numbers and changes some sections avoids fewer and changes more.
LEMMA MakesFewer ==
  ASSUME NEW d, NEW e, NEW X, NEW Y, NEW U, NEW V, V \subseteq U, X \subseteq Y, Makes(d, e, X, U)
  PROVE  Makes(d, e, Y, V)
<1>1. ASSUME NEW k \in DOMAIN e PROVE Sits(k, e[k], V)
  <2>1. Sits(k, e[k], U)
    BY DEF Makes, Shaped
  <2>. QED  BY <2>1 DEF Sits, Unused
<1>. QED  BY <1>1 DEF Makes, Shaped, Changes

\* A document that avoids some numbers avoids fewer.
LEMMA FewerUnused ==
  ASSUME NEW d, NEW U, NEW V, V \subseteq U, Shaped(d, U)
  PROVE  Shaped(d, V)
<1>. SUFFICES ASSUME NEW k \in DOMAIN d PROVE Sits(k, d[k], V)
  BY DEF Shaped
<1>1. Sits(k, d[k], U)
  BY DEF Shaped
<1>. QED  BY <1>1 DEF Sits, Unused

\* Most entries sit when they lie under something of a lower level and are new.
LEMMA SitsIs ==
  ASSUME NEW k, NEW x, NEW U, IsKey(k), IsEntry(x), Level(k[1]) >= 1, Lies(k, x.in),
         k[1] \notin {"company", "session", "room", "grant", "token", "request", "invite", "replacement",
                    "credential", "rotation", "pairrequest", "pairing"},
         k[1] \in Generated => Number(k) \notin U
  PROVE  Sits(k, x, U)
BY DEF Sits, Holding, Unused

\* What a key of a shaped document tells.
LEMMA ShapeIs ==
  ASSUME NEW d, NEW U, Shaped(d, U)
  PROVE  /\ Nobody \notin DOMAIN d
         /\ \A k \in DOMAIN d : IsKey(k) /\ IsEntry(d[k]) /\ Lies(k, d[k].in)
         /\ \A k : Lies(k, In(d, k))
         /\ \A k : IsKey(k) => Lies(k, In(d, k))
<1>1. Nobody \notin DOMAIN d
  BY LevelIs DEF Shaped, Sits
<1>2. \A k \in DOMAIN d : IsKey(k) /\ IsEntry(d[k]) /\ Lies(k, d[k].in)
  BY DEF Shaped, Sits
<1>. QED  BY <1>1, <1>2 DEF In, Lies

\* The sections that no promise about records is about.
Free == {"account", "company", "human", "audit", "workspace", "master", "humancred", "setup",
    "recovery", "proof", "authority", "session", "intent", "exportreceipt", "request", "identity",
    "invite", "grant", "replacement", "pairrequest", "pairing", "project", "knowledge", "link",
    "device", "agent", "idem", "token", "credential", "rotation", "read", "mention", "syncreceipt",
    "policy", "context", "goal", "game", "check", "task", "gamesession"}

\* The numbers of U are not this call's.
Sent(c, U) ==
    c.n \in Nat /\ c.n \notin U /\ IsKey(c.in) /\ IsKey(c.as) /\ IsKey(c.of) /\ IsKey(c.to)

\* The default rooms of a workspace may be added.
LEMMA MakesRooms ==
  ASSUME NEW d, NEW e, NEW X, NEW U, Makes(d, e, X, U), NEW w, w[1] = "workspace", IsKey(w)
  PROVE  Makes(d, _ensure_default_meeting_rooms(e, w), X, U)
<1>. DEFINE missing == {Room(w, s) : s \in _default_meeting_room_specs(e, w)} \ DOMAIN e
            f == _ensure_default_meeting_rooms(e, w)
<1>1. /\ DOMAIN f = DOMAIN e \cup missing
      /\ \A j \in missing : f[j] = New("active", w)
      /\ \A j \in DOMAIN e \ missing : f[j] = e[j]
  BY DEF _ensure_default_meeting_rooms, With
<1>2. ASSUME NEW k \in missing PROVE k[1] = "room" /\ Sits(k, New("active", w), U)
  <2>1. PICK s : k = <<"room", <<w, s>>>>
    BY DEF Room
  <2>2. IsKey(k) /\ k[1] = "room" /\ k[2][1] = w
    BY <2>1 DEF IsKey
  <2>. QED
    BY <2>2, NewIs, StatusesAre, LevelIs DEF Sits, Lies, Holding, Ref, Unused, Generated
<1>3. missing \cap DOMAIN e = {}
  OBVIOUS
<1>. HIDE DEF f, missing
<1>5. \A j \in DOMAIN e : j[1] \in Lasting => j \in DOMAIN f /\ SameLinks(e[j], f[j])
  BY <1>1, <1>3 DEF SameLinks
<1>4. Makes(d, f, X, U)
  BY <1>1, <1>2, <1>3, <1>5, Remake
<1>. QED  BY <1>4 DEF f

\* meeting_rooms changes entries of rooms only, each of which sits where it should.
LEMMA meeting_roomsMakes ==
  ASSUME NEW d, NEW c, NEW U, Shaped(d, U), Sent(c, U), c.in[1] = "workspace",
         meeting_rooms(d, c) /= Refused
  PROVE  Makes(d, meeting_rooms(d, c), {}, U)
BY MakesSelf, MakesRooms DEF meeting_rooms, Sent

\* create_meeting_room changes entries of goal, task, game, gamesession only, each of which
\* sits where it should.
LEMMA create_meeting_roomMakes ==
  ASSUME NEW d, NEW c, NEW U, Shaped(d, U), Sent(c, U), c.in[1] = "workspace"
  PROVE  Makes(d, create_meeting_room(d, c), {"goal", "task", "game", "gamesession"}, U)
<1>. DEFINE X == {"goal", "task", "game", "gamesession"}
            e == _ensure_default_meeting_rooms(d, c.in)
            room == Room(c.in, c.of)
            f == Put(e, room, New("active", c.in))
            projects == Under(d, "project", c.in)
            parent == IF c.to /= Nobody THEN c.to
                      ELSE IF projects /= {} THEN CHOOSE p \in projects : TRUE ELSE c.in
            g == Put(f, c.of, New("active", parent))
<1>1. Makes(d, e, X, U)
  BY MakesSelf, MakesRooms DEF Sent
<1>2. Makes(d, f, X, U)
  <2>1. IsKey(room) /\ room[1] = "room" /\ room[2][1] = c.in
    BY DEF Room, IsKey
  <2>2. Sits(room, New("active", c.in), U)
    BY <2>1, NewIs, StatusesAre, LevelIs DEF Sits, Lies, Holding, Ref, Unused, Generated, Sent
  <2>3. /\ DOMAIN f = DOMAIN e \cup {room} /\ f[room] = New("active", c.in)
        /\ \A j \in DOMAIN e : j /= room => f[j] = e[j]
    BY DEF Put
  <2>. HIDE DEF f, e, room, X
  <2>4. \A j \in DOMAIN e : j[1] \in Lasting => j \in DOMAIN f /\ SameLinks(e[j], f[j])
    BY <2>1, <2>3 DEF SameLinks, Lasting
  <2>. QED  BY <1>1, <2>1, <2>2, <2>3, <2>4, Remake
<1>3. ASSUME c.of[1] \in DOMAIN ParentRules, parent[1] \in ParentRules[c.of[1]] PROVE Makes(d, g, X, U)
  <2>1. \A p \in projects : IsKey(p) /\ p[1] = "project"
    BY ShapeIs DEF Under, Section
  <2>2. IsKey(parent)
    BY <2>1 DEF Sent
  <2>3. c.of[1] \in X /\ Level(parent[1]) >= 1 /\ Level(parent[1]) < Level(c.of[1])
    BY <1>3, LevelIs DEF ParentRules
  <2>. HIDE DEF parent, f
  <2>4. Sits(c.of, New("active", parent), U)
    BY <2>2, <2>3, SitsIs, NewIs, StatusesAre, LevelIs DEF Lies, Sent, Generated
  <2>. QED  BY <1>2, <2>3, <2>4, MakesPut
<1>. QED  BY <1>2, <1>3 DEF create_meeting_room

\* mark_meeting_room_read changes entries of read only, each of which sits where it should.
LEMMA mark_meeting_room_readMakes ==
  ASSUME NEW d, NEW c, NEW U, Shaped(d, U), Sent(c, U), c.in[1] = "workspace", c.of[1] = "room",
         mark_meeting_room_read(d, c) /= Refused
  PROVE  Makes(d, mark_meeting_room_read(d, c), {"read"}, U)
<1>. DEFINE e == _ensure_default_meeting_rooms(d, c.in)
            k == <<"read", <<c.of, c.as>>>>
<1>1. Makes(d, e, {"read"}, U)
  BY MakesSelf, MakesRooms DEF Sent
<1>2. PICK s : mark_meeting_room_read(d, c)
               = Put(e, k, [New("read", c.of) EXCEPT !.by = c.as, !.to = s])
  BY DEF mark_meeting_room_read
<1>0. PICK x : x = [New("read", c.of) EXCEPT !.by = c.as, !.to = s]
  OBVIOUS
<1>3. IsEntry(x) /\ x.in = c.of
  BY <1>0, StatusesAre DEF New, IsEntry
<1>4. IsKey(k) /\ k[1] = "read"
  BY DEF IsKey
<1>. HIDE DEF k, e
<1>5. Sits(k, x, U)
  BY <1>3, <1>4, SitsIs, LevelIs DEF Lies, Sent, Generated
<1>. QED  BY <1>0, <1>1, <1>2, <1>4, <1>5, MakesPut

\* upsert_project changes entries of project only, each of which sits where it should.
LEMMA upsert_projectMakes ==
  ASSUME NEW d, NEW c, NEW U, Shaped(d, U), Sent(c, U), c.in[1] = "workspace", c.of[1] = "project",
         c.of[2] \notin U, upsert_project(d, c) /= Refused
  PROVE  Makes(d, upsert_project(d, c), {"project"}, U)
<1>1. IsEntry(New("active", c.in)) /\ New("active", c.in).in = c.in
  BY NewIs, StatusesAre
<1>2. Sits(c.of, New("active", c.in), U)
  BY <1>1, SitsIs, LevelIs DEF Lies, Sent, Number
<1>3. Makes(d, Put(d, c.of, New("active", c.in)), {"project"}, U)
  BY <1>2, MakesSelf, MakesPut
<1>. QED  BY <1>3, MakesRooms DEF upsert_project, Sent

\* upsert_knowledge_document changes entries of knowledge only, each of which sits where it
\* should.
LEMMA upsert_knowledge_documentMakes ==
  ASSUME NEW d, NEW c, NEW U, Shaped(d, U), Sent(c, U), c.in[1] = "workspace",
         c.of[1] = "knowledge", upsert_knowledge_document(d, c) /= Refused
  PROVE  Makes(d, upsert_knowledge_document(d, c), {"knowledge"}, U)
<1>. DEFINE status == IF c.to = Nobody THEN "current" ELSE "superseded"
<1>0. PICK x : x = [New(status, c.in) EXCEPT !.by = c.as, !.to = c.to]
  OBVIOUS
<1>1. upsert_knowledge_document(d, c) = Put(d, c.of, x)
  BY <1>0 DEF upsert_knowledge_document
<1>2. IsEntry(x) /\ x.in = c.in
  BY <1>0, StatusesAre DEF New, IsEntry
<1>3. Sits(c.of, x, U)
  BY <1>2, SitsIs, LevelIs DEF Lies, Sent, Generated
<1>. QED  BY <1>1, <1>3, MakesSelf, MakesPut

\* upsert_external_link changes entries of link, mention only, each of which sits where it
\* should.
LEMMA upsert_external_linkMakes ==
  ASSUME NEW d, NEW c, NEW U, Shaped(d, U), Sent(c, U), c.in[1] = "workspace",
         c.of[1] = "link", c.how \in DOMAIN ReviewRank, upsert_external_link(d, c) /= Refused
  PROVE  Makes(d, upsert_external_link(d, c), {"link", "mention"}, U)
<1>. DEFINE known == IF c.of \in DOMAIN d THEN d[c.of] ELSE New("unreviewed", c.in)
            status == _merge_external_link_review_status(known.status, c.how)
            k == <<"mention", <<c.of, c.to>>>>
<1>0. PICK v : upsert_external_link(d, c)
               \in {LET e == Put(d, c.of, [known EXCEPT !.status = status, !.val = v]) IN e,
                    LET e == Put(d, c.of, [known EXCEPT !.status = status, !.val = v])
                    IN Put(e, k, [New("cited", c.of) EXCEPT !.to = c.to])}
  BY DEF upsert_external_link
<1>1. PICK x : x = [known EXCEPT !.status = status, !.val = v]
  OBVIOUS
<1>2. PICK y : y = [New("cited", c.of) EXCEPT !.to = c.to]
  OBVIOUS
<1>3. IsEntry(known) /\ Lies(c.of, known.in)
  <2>1. IsEntry(New("unreviewed", c.in)) /\ New("unreviewed", c.in).in = c.in
    BY NewIs, StatusesAre
  <2>. QED  BY <2>1, ShapeIs, LevelIs DEF Lies, Sent
<1>4. status \in EntryStatuses
  BY <1>3, StatusesAre DEF _merge_external_link_review_status, IsEntry, ReviewRank
<1>. HIDE DEF known, status
<1>5. IsEntry(x) /\ x.in = known.in
  BY <1>1, <1>3, <1>4 DEF IsEntry
<1>6. IsEntry(y) /\ y.in = c.of
  BY <1>2, StatusesAre DEF New, IsEntry
<1>7. Sits(c.of, x, U)
  BY <1>3, <1>5, SitsIs, LevelIs DEF Sent, Generated
<1>8. IsKey(k) /\ k[1] = "mention"
  BY DEF IsKey
<1>. HIDE DEF k
<1>9. Sits(k, y, U)
  BY <1>6, <1>8, SitsIs, LevelIs DEF Sent, Generated, Lies
<1>10. Makes(d, Put(d, c.of, x), {"link", "mention"}, U)
  BY <1>7, MakesSelf, MakesPut
<1>11. Makes(d, Put(Put(d, c.of, x), k, y), {"link", "mention"}, U)
  BY <1>8, <1>9, <1>10, MakesPut
<1>. QED  BY <1>0, <1>1, <1>2, <1>10, <1>11

\* register_sync_device changes entries of device only, each of which sits where it should.
LEMMA register_sync_deviceMakes ==
  ASSUME NEW d, NEW c, NEW U, Shaped(d, U), Sent(c, U), c.in[1] = "workspace",
         c.of[1] = "device"
  PROVE  Makes(d, register_sync_device(d, c), {"device"}, U)
<1>1. CASE c.of \in DOMAIN d
  <2>1. PICK e : e = [d EXCEPT ![c.of].status = "active", ![c.of].by = c.as]
    OBVIOUS
  <2>2. PICK y : y = [[d[c.of] EXCEPT !.status = "active"] EXCEPT !.by = c.as]
    OBVIOUS
  <2>3. DOMAIN e = DOMAIN d /\ e[c.of] = y /\ \A j \in DOMAIN d : j /= c.of => e[j] = d[j]
    BY <1>1, <2>1, <2>2
  <2>4. IsEntry(y) /\ Lies(c.of, y.in)
    <3>1. IsEntry(d[c.of]) /\ Lies(c.of, d[c.of].in)
      BY <1>1, ShapeIs
    <3>2. y = [status |-> "active", in |-> d[c.of].in, by |-> c.as, to |-> d[c.of].to,
               rev |-> d[c.of].rev, val |-> d[c.of].val]
      BY <2>2, <3>1 DEF IsEntry
    <3>. QED  BY <3>1, <3>2, StatusesAre DEF IsEntry
  <2>5. Sits(c.of, y, U)
    BY <2>4, SitsIs, LevelIs DEF Sent, Generated
  <2>6. Makes(d, e, {"device"}, U)
    BY <2>3, <2>5, MakesSelf, MakesChange
  <2>. QED  BY <1>1, <2>1, <2>6 DEF register_sync_device
<1>2. CASE c.of \notin DOMAIN d
  <2>1. PICK x : x = [New("active", c.in) EXCEPT !.by = c.as, !.rev = 1]
    OBVIOUS
  <2>2. IsEntry(x) /\ x.in = c.in
    BY <2>1, StatusesAre DEF New, IsEntry
  <2>3. Sits(c.of, x, U)
    BY <2>2, SitsIs, LevelIs DEF Lies, Sent, Generated
  <2>. QED  BY <1>2, <2>1, <2>3, MakesSelf, MakesPut DEF register_sync_device
<1>. QED  BY <1>1, <1>2

\* rotate_sync_device changes entries of device only, each of which sits where it should.
LEMMA rotate_sync_deviceMakes ==
  ASSUME NEW d, NEW c, NEW U, Shaped(d, U), Sent(c, U), c.of[1] = "device",
         rotate_sync_device(d, c) /= Refused
  PROVE  Makes(d, rotate_sync_device(d, c), {"device"}, U)
<1>1. PICK e : e = [d EXCEPT ![c.of].rev = @ + 1]
  OBVIOUS
<1>2. PICK y : y = [d[c.of] EXCEPT !.rev = @ + 1]
  OBVIOUS
<1>0. c.of \in DOMAIN d /\ rotate_sync_device(d, c) = e
  BY <1>1 DEF rotate_sync_device, Status
<1>3. DOMAIN e = DOMAIN d /\ e[c.of] = y /\ \A j \in DOMAIN d : j /= c.of => e[j] = d[j]
  BY <1>0, <1>1, <1>2
<1>4. IsEntry(y) /\ Lies(c.of, y.in)
  BY <1>0, <1>2, ShapeIs DEF IsEntry
<1>5. Sits(c.of, y, U)
  BY <1>4, SitsIs, LevelIs DEF Sent, Generated
<1>. QED  BY <1>0, <1>3, <1>5, MakesSelf, MakesChange

\* revoke_sync_device changes entries of device only, each of which sits where it should.
LEMMA revoke_sync_deviceMakes ==
  ASSUME NEW d, NEW c, NEW U, Shaped(d, U), c.of[1] = "device",
         revoke_sync_device(d, c) /= Refused
  PROVE  Makes(d, revoke_sync_device(d, c), {"device"}, U)
BY MakesSelf, MakesMark, StatusesAre DEF revoke_sync_device

\* register_agent changes entries of agent only, each of which sits where it should.
LEMMA register_agentMakes ==
  ASSUME NEW d, NEW c, NEW U, Shaped(d, U), Sent(c, U), c.in[1] = "workspace", c.as[1] = "agent"
  PROVE  Makes(d, register_agent(d, c), {"agent"}, U)
<1>1. IsEntry(New("active", c.in)) /\ New("active", c.in).in = c.in
  BY NewIs, StatusesAre
<1>2. Sits(c.as, New("active", c.in), U)
  BY <1>1, SitsIs, LevelIs DEF Lies, Sent, Generated
<1>. QED  BY <1>2, MakesSelf, MakesPut DEF register_agent

\* record_audit changes entries of audit only, each of which sits where it should.
LEMMA record_auditMakes ==
  ASSUME NEW d, NEW c, NEW U, Shaped(d, U)
  PROVE  Makes(d, record_audit(d, c), {"audit"}, U)
<1>. DEFINE k == <<"audit", c.n>>
<1>1. IsEntry(New("written", Nobody)) /\ New("written", Nobody).in = Nobody
  BY NewIs, StatusesAre
<1>2. IsKey(k) /\ k[1] = "audit"
  BY DEF IsKey
<1>. HIDE DEF k
<1>3. Sits(k, New("written", Nobody), U)
  BY <1>1, <1>2, SitsIs, LevelIs DEF Lies, Generated
<1>. QED  BY <1>2, <1>3, MakesSelf, MakesPut DEF record_audit, audit, k

---------------------------------------------------------------------------
(* Idempotency, policies and checks.                                        *)

\* claim_idempotency changes entries of idem only, each of which sits where it should.
LEMMA claim_idempotencyMakes ==
  ASSUME NEW d, NEW c, NEW U, Shaped(d, U), IsKey(c.key), c.key[1] = "idem",
         claim_idempotency(d, c) /= Refused
  PROVE  Makes(d, claim_idempotency(d, c), {"idem"}, U)
<1>0. PICK x : x = [New("pending", Nobody) EXCEPT !.by = <<"call", c.n>>, !.val = <<c.body>>]
  OBVIOUS
<1>1. IsEntry(x) /\ x.in = Nobody
  BY <1>0, StatusesAre DEF New, IsEntry
<1>2. Sits(c.key, x, U)
  BY <1>1, SitsIs, LevelIs DEF Lies, Generated
<1>. QED  BY <1>0, <1>2, MakesSelf, MakesPut DEF claim_idempotency

\* release_idempotency_claim changes entries of idem only, each of which sits where it should.
LEMMA release_idempotency_claimMakes ==
  ASSUME NEW d, NEW c, NEW U, Shaped(d, U), c.key[1] = "idem",
         release_idempotency_claim(d, c) /= Refused
  PROVE  Makes(d, release_idempotency_claim(d, c), {"idem"}, U)
BY MakesSelf, MakesDrop DEF release_idempotency_claim

\* record_idempotency changes entries of idem only, each of which sits where it should.
LEMMA record_idempotencyMakes ==
  ASSUME NEW d, NEW c, NEW U, Shaped(d, U), c.key[1] = "idem",
         record_idempotency(d, c) /= Refused
  PROVE  Makes(d, record_idempotency(d, c), {"idem"}, U)
BY MakesSelf, MakesMark, StatusesAre DEF record_idempotency

\* set_outbound_mcp_project_policy changes entries of policy only, each of which sits where it
\* should.
LEMMA set_outbound_mcp_project_policyMakes ==
  ASSUME NEW d, NEW c, NEW U, Shaped(d, U), Sent(c, U), c.to[1] = "project",
         c.how \in DOMAIN Strictness, set_outbound_mcp_project_policy(d, c) /= Refused
  PROVE  Makes(d, set_outbound_mcp_project_policy(d, c), {"policy"}, U)
<1>. DEFINE current == normalize_project_policy(d, c)
<1>1. PICK x : x = [New(c.how, c.to) EXCEPT !.by = c.as, !.rev = current.rev + 1]
  OBVIOUS
<1>2. IsKey(PolicyKey(c)) /\ PolicyKey(c)[1] = "policy"
  BY DEF IsKey, PolicyKey
<1>3. current.rev \in Nat
  <2>1. New("autonomous", c.to).rev = 0
    BY NewIs, StatusesAre
  <2>. QED  BY <2>1, ShapeIs DEF normalize_project_policy, IsEntry
<1>. HIDE DEF current
<1>4. IsEntry(x) /\ x.in = c.to
  <2>1. c.how \in EntryStatuses
    BY StatusesAre DEF Strictness
  <2>2. PICK r \in Nat : r = current.rev + 1
    BY <1>3
  <2>. QED  BY <1>1, <2>1, <2>2 DEF New, IsEntry
<1>5. Sits(PolicyKey(c), x, U)
  BY <1>2, <1>4, SitsIs, LevelIs DEF Lies, Generated, Sent
<1>. QED  BY <1>1, <1>2, <1>5, MakesSelf, MakesPut DEF set_outbound_mcp_project_policy, current

\* record_outbound_mcp_authorization_decision changes entries of check only, each of which sits
\* where it should.
LEMMA record_outbound_mcp_authorization_decisionMakes ==
  ASSUME NEW d, NEW c, NEW U, Shaped(d, U), Sent(c, U), c.of[1] = "server",
         record_outbound_mcp_authorization_decision(d, c) /= Refused
  PROVE  Makes(d, record_outbound_mcp_authorization_decision(d, c), {"check"}, U)
<1>. DEFINE k == <<"check", c.n>>
            x == New(authorization_decision(c), c.of)
<1>1. record_outbound_mcp_authorization_decision(d, c) = Put(d, k, x)
  BY DEF record_outbound_mcp_authorization_decision
<1>2. authorization_decision(c) \in EntryStatuses
  BY StatusesAre DEF authorization_decision
<1>3. IsEntry(x) /\ x.in = c.of
  BY <1>2, NewIs
<1>4. IsKey(k) /\ k[1] = "check" /\ k[2] = c.n
  BY DEF IsKey
<1>. HIDE DEF k, x
<1>5. Sits(k, x, U)
  BY <1>3, <1>4, SitsIs, LevelIs DEF Lies, Generated, Sent, Number
<1>. QED  BY <1>1, <1>4, <1>5, MakesSelf, MakesPut

\* An entry of the first level.
Root(o) == o = Nobody \/ (IsKey(o) /\ Level(o[1]) = 1)

\* An entry sits where it sat with another revision.
LEMMA RevSits ==
  ASSUME NEW k, NEW x, NEW U, NEW r \in Nat, Sits(k, x, U)
  PROVE  Sits(k, [x EXCEPT !.rev = r], U)
<1>0. PICK y : y = [x EXCEPT !.rev = r]
  OBVIOUS
<1>1. y = [status |-> x.status, in |-> x.in, by |-> x.by, to |-> x.to, rev |-> r, val |-> x.val]
  BY <1>0 DEF Sits, IsEntry
<1>2. IsEntry(y)
  BY <1>1 DEF Sits, IsEntry
<1>3. y.in = x.in /\ y.by = x.by /\ y.to = x.to /\ y.val = x.val
  BY <1>1
<1>4. Lies(k, y.in) /\ Holding(k, y) /\ Unused(k, y, U)
  BY <1>3 DEF Sits, Holding, Ref, Unused
<1>. QED  BY <1>0, <1>2, <1>4 DEF Sits

\* One entry may get another revision.
LEMMA MakesRev ==
  ASSUME NEW d, NEW e, NEW X, NEW U, Makes(d, e, X, U), NEW k, k[1] \in X, k[1] \notin {"grant", "token", "replacement"},
         NEW r \in Nat
  PROVE  Makes(d, [e EXCEPT ![k].rev = r], X, U)
<1>0. PICK f : f = [e EXCEPT ![k].rev = r]
  OBVIOUS
<1>1. DOMAIN f = DOMAIN e /\ \A j \in DOMAIN e : j /= k => f[j] = e[j]
  BY <1>0
<1>2. ASSUME k \in DOMAIN e PROVE Sits(k, f[k], U)
  <2>1. f[k] = [e[k] EXCEPT !.rev = r]
    BY <1>0, <1>2
  <2>2. Sits(k, e[k], U)
    BY <1>2 DEF Makes, Shaped
  <2>. QED  BY <2>1, <2>2, RevSits
<1>3. Makes(d, f, X, U)
  BY <1>1, <1>2, MakesChange
<1>. QED  BY <1>0, <1>3

\* What the entries below a company lie under is a company or nothing.
LEMMA RootIs ==
  ASSUME NEW d, NEW U, Shaped(d, U)
  PROVE  /\ \A k \in DOMAIN d : Level(k[1]) = 2 => Root(d[k].in)
         /\ \A k : Level(k[1]) = 2 => Root(In(d, k))
         /\ Root(In(d, Nobody))
         /\ \A k \in DOMAIN d : k[1] = "session" => Root(In(d, d[k].by))
<1>1. \A k \in DOMAIN d : Level(k[1]) = 2 => Root(d[k].in)
  BY ShapeIs, LevelType DEF Root, Lies
<1>2. Root(In(d, Nobody))
  BY ShapeIs DEF Root, In
<1>3. \A k : Level(k[1]) = 2 => Root(In(d, k))
  BY <1>1 DEF Root, In
<1>4. ASSUME NEW k \in DOMAIN d, k[1] = "session" PROVE Root(In(d, d[k].by))
  <2>1. d[k].by = Nobody \/ d[k].by[1] = "authority"
    BY <1>4 DEF Shaped, Sits, Holding, Ref
  <2>. QED  BY <2>1, <1>2, <1>3, LevelIs
<1>. QED  BY <1>1, <1>2, <1>3, <1>4

\* The company that a session manages is a company or nothing.
LEMMA ManagedIs ==
  ASSUME NEW d, NEW U, Shaped(d, U), NEW s \in DOMAIN d, s[1] \in {"session", "recovery"}
  PROVE  Root(ManagedCompany(d, s))
<1>1. CASE s[1] = "session"
  BY <1>1, RootIs DEF ManagedCompany
<1>2. CASE s[1] = "recovery"
  BY <1>2, RootIs, LevelIs DEF ManagedCompany
<1>. QED  BY <1>1, <1>2

---------------------------------------------------------------------------
\* The entries of a new account, each of which sits where it is put.
LEMMA AccountGraphIs ==
  ASSUME NEW x, NEW m, NEW h, NEW U, IsKey(m), IsKey(h), m[1] = "master", h[1] = "humancred",
         x \notin U, m[2] \notin U, h[2] \notin U
  PROVE  /\ DOMAIN AccountGraph(x, m, h)
              = {<<"account", x>>, <<"company", x>>, <<"project", x>>, <<"workspace", x>>, m, h}
         /\ \A k \in DOMAIN AccountGraph(x, m, h) :
               k[1] \in Free /\ Sits(k, AccountGraph(x, m, h)[k], U) /\ k[1] \notin Lasting
<1>. DEFINE g == AccountGraph(x, m, h)
            o == <<"company", x>>
            w == <<"workspace", x>>
            company == [New("active", Nobody) EXCEPT !.by = <<"account", x>>, !.val = <<"on", "none">>]
<1>1. DOMAIN g = {<<"account", x>>, o, <<"project", x>>, w, m, h}
  BY DEF AccountGraph
<1>2. /\ m /= <<"account", x>> /\ m /= o /\ m /= <<"project", x>>
      /\ h /= <<"account", x>> /\ h /= o /\ h /= <<"project", x>>
  BY DEF IsKey
<1>3. /\ g[o] = company /\ g[w] = New("active", o) /\ g[m] = New("active", o)
      /\ g[h] = New("active", o)
      /\ g[<<"account", x>>] = New("active", Nobody) /\ g[<<"project", x>>] = New("active", w)
  BY <1>2 DEF AccountGraph
<1>4. \A p : IsEntry(New("active", p)) /\ New("active", p).in = p
  BY NewIs, StatusesAre
<1>5. /\ IsKey(o) /\ o[1] = "company" /\ o[2] = x /\ IsKey(w) /\ w[1] = "workspace" /\ w[2] = x
  BY DEF IsKey
<1>6. Sits(o, company, U)
  <2>0. PICK y : y = company
    OBVIOUS
  <2>1. IsEntry(y) /\ y.in = Nobody /\ y.val = <<"on", "none">>
    BY <2>0, StatusesAre DEF New, IsEntry
  <2>2. y.val = <<y.val[1], y.val[2]>> /\ y.val[2] \in EntryStatuses
    BY <2>1, StatusesAre
  <2>3. Holding(o, y) /\ Unused(o, y, U) /\ Lies(o, y.in)
    BY <1>5, <2>1, <2>2 DEF Holding, Ref, Unused, Lies, Number
  <2>4. Sits(o, y, U)
    BY <1>5, <2>1, <2>3, LevelIs DEF Sits
  <2>. QED  BY <2>0, <2>4
<1>. HIDE DEF o, w, company, g
<1>7. Sits(w, New("active", o), U)
  BY <1>4, <1>5, SitsIs, LevelIs DEF Lies, Number
<1>8. Sits(m, New("active", o), U) /\ Sits(h, New("active", o), U)
  BY <1>4, <1>5, SitsIs, LevelIs DEF Lies, Number
<1>9. Sits(<<"account", x>>, New("active", Nobody), U)
  <2>. DEFINE k == <<"account", x>>
  <2>1. IsKey(k) /\ k[1] = "account" /\ k[2] = x
    BY DEF IsKey
  <2>. HIDE DEF k
  <2>2. Sits(k, New("active", Nobody), U)
    BY <1>4, <2>1, SitsIs, LevelIs DEF Lies, Number
  <2>. QED  BY <2>2 DEF k
<1>10. Sits(<<"project", x>>, New("active", w), U)
  <2>. DEFINE k == <<"project", x>>
  <2>1. IsKey(k) /\ k[1] = "project" /\ k[2] = x
    BY DEF IsKey
  <2>. HIDE DEF k
  <2>2. Sits(k, New("active", w), U)
    BY <1>4, <1>5, <2>1, SitsIs, LevelIs DEF Lies, Number
  <2>. QED  BY <2>2 DEF k
<1>11. \A k \in DOMAIN g : k[1] \in Free /\ Sits(k, g[k], U) /\ k[1] \notin Lasting
  <2>1. \A k \in DOMAIN g : Sits(k, g[k], U)
    BY <1>1, <1>3, <1>6, <1>7, <1>8, <1>9, <1>10
  <2>2. \A k \in DOMAIN g : k[1] \in Free /\ k[1] \notin Lasting
    BY <1>1, <1>5 DEF Free, Lasting
  <2>. QED  BY <2>1, <2>2
<1>. QED  BY <1>1, <1>11 DEF g, o, w

\* Several entries that sit where they are put make a document.
LEMMA MakesWith ==
  ASSUME NEW d, NEW e, NEW X, NEW U, Makes(d, e, X, U), NEW g,
         \A k \in DOMAIN g : k[1] \in X /\ Sits(k, g[k], U) /\ k[1] \notin Lasting
  PROVE  Makes(d, With(e, g), X, U)
<1>. DEFINE f == With(e, g)
<1>1. /\ DOMAIN f = DOMAIN e \cup DOMAIN g
      /\ \A j \in DOMAIN g : f[j] = g[j]
      /\ \A j \in DOMAIN e \ DOMAIN g : f[j] = e[j]
  BY DEF With
<1>. HIDE DEF f
<1>3. \A j \in DOMAIN e : j[1] \in Lasting => j \in DOMAIN f /\ SameLinks(e[j], f[j])
  BY <1>1 DEF SameLinks
<1>4. \A r \in DOMAIN f : r[1] = "replacement" => r \in DOMAIN e
  BY <1>1 DEF Lasting
<1>2. Makes(d, f, X, U)
  BY <1>1, <1>3, <1>4, Remake
<1>. QED  BY <1>2 DEF f

\* create_free_account changes entries of free sections only, each of which sits where it
\* should.
LEMMA create_free_accountMakes ==
  ASSUME NEW d, NEW c, NEW U, Shaped(d, U), Sent(c, U)
  PROVE  Makes(d, create_free_account(d, c), Free, U)
<1>. DEFINE m == <<"master", c.n>>
            h == <<"humancred", c.n>>
            w == <<"workspace", c.n>>
<1>1. /\ IsKey(m) /\ m[1] = "master" /\ m[2] = c.n /\ IsKey(h) /\ h[1] = "humancred" /\ h[2] = c.n
      /\ IsKey(w) /\ w[1] = "workspace"
  BY DEF IsKey
<1>2. create_free_account(d, c) = _ensure_default_meeting_rooms(With(d, AccountGraph(c.n, m, h)), w)
  BY DEF create_free_account
<1>. HIDE DEF m, h, w
<1>3. Makes(d, With(d, AccountGraph(c.n, m, h)), Free, U)
  BY <1>1, AccountGraphIs, MakesSelf, MakesWith DEF Sent
<1>. QED  BY <1>1, <1>2, <1>3, MakesRooms

\* create_bootstrap_account changes entries of free sections only, each of which sits where it
\* should.
LEMMA create_bootstrap_accountMakes ==
  ASSUME NEW d, NEW c, NEW U, Shaped(d, U), Sent(c, U), c.of[1] = "setup", c.of[2] \notin U,
         c.body \notin U, _create_bootstrap_account_file_locked(d, c) /= Refused
  PROVE  Makes(d, _create_bootstrap_account_file_locked(d, c), Free, U)
<1>. DEFINE x == c.of[2]
            m == <<"master", c.body>>
            h == <<"humancred", c.body>>
            w == <<"workspace", x>>
            o == <<"company", x>>
            e == _ensure_default_meeting_rooms(With(d, AccountGraph(x, m, h)), w)
<1>0. PICK y : y = [New("complete", o) EXCEPT !.by = c.key, !.val = <<c.body>>]
  OBVIOUS
<1>1. /\ IsKey(m) /\ m[1] = "master" /\ m[2] = c.body /\ IsKey(h) /\ h[1] = "humancred"
      /\ h[2] = c.body /\ IsKey(w) /\ w[1] = "workspace" /\ IsKey(o) /\ o[1] = "company"
  BY DEF IsKey
<1>2. _create_bootstrap_account_file_locked(d, c) = Put(e, c.of, y)
  BY <1>0 DEF _create_bootstrap_account_file_locked
<1>3. IsEntry(y) /\ y.in = o
  BY <1>0, StatusesAre DEF New, IsEntry
<1>. HIDE DEF m, h, w, o, x
<1>4. Makes(d, e, Free, U)
  <2>1. x \notin U
    BY DEF x
  <2>2. Makes(d, With(d, AccountGraph(x, m, h)), Free, U)
    BY <1>1, <2>1, AccountGraphIs, MakesSelf, MakesWith DEF Sent
  <2>. QED  BY <1>1, <2>2, MakesRooms
<1>. HIDE DEF e
<1>5. Sits(c.of, y, U)
  BY <1>1, <1>3, SitsIs, LevelIs DEF Lies, Sent, Generated
<1>6. c.of[1] \in Free
  BY DEF Free
<1>. QED  BY <1>2, <1>4, <1>5, <1>6, MakesPut

\* bootstrap_company_master_token changes entries of master only, each of which sits where it
\* should.
LEMMA bootstrap_company_master_tokenMakes ==
  ASSUME NEW d, NEW c, NEW U, Shaped(d, U), Sent(c, U), c.of[1] = "company",
         bootstrap_company_master_token(d, c) /= Refused
  PROVE  Makes(d, bootstrap_company_master_token(d, c), {"master"}, U)
<1>. DEFINE m == <<"master", c.n>>
<1>1. IsKey(m) /\ m[1] = "master" /\ m[2] = c.n
  BY DEF IsKey
<1>2. bootstrap_company_master_token(d, c) = Put(d, m, New("active", c.of))
  BY DEF bootstrap_company_master_token
<1>. HIDE DEF m
<1>3. Sits(m, New("active", c.of), U)
  BY <1>1, NewIs, StatusesAre, SitsIs, LevelIs DEF Lies, Sent, Number
<1>. QED  BY <1>1, <1>2, <1>3, MakesSelf, MakesPut

\* What the two ways of adding a master key put into the document.
LEMMA MasterPutMakes ==
  ASSUME NEW d, NEW c, NEW U, Shaped(d, U), Sent(c, U), c.in[1] = "workspace",
         c.of[1] = "master", c.of[2] \notin U, NEW o, Root(o), NEW r, IsKey(r), r[1] = "idem"
  PROVE  Makes(d, Put(Put(d, c.of, [New("active", o) EXCEPT !.by = c.as]),
                      r, [New("recorded", c.in) EXCEPT !.by = c.of]), {"master", "idem"}, U)
<1>0. PICK x : x = [New("active", o) EXCEPT !.by = c.as]
  OBVIOUS
<1>1. PICK y : y = [New("recorded", c.in) EXCEPT !.by = c.of]
  OBVIOUS
<1>2. IsEntry(x) /\ x.in = o
  BY <1>0, StatusesAre DEF New, IsEntry
<1>3. IsEntry(y) /\ y.in = c.in
  BY <1>1, StatusesAre DEF New, IsEntry
<1>4. Sits(c.of, x, U)
  BY <1>2, SitsIs, LevelIs DEF Lies, Sent, Number, Root
<1>5. Sits(r, y, U)
  BY <1>3, SitsIs, LevelIs DEF Lies, Sent, Generated
<1>. QED  BY <1>0, <1>1, <1>4, <1>5, MakesSelf, MakesPut

\* delegate_company_master_credential changes entries of master, idem only, each of which sits
\* where it should.
LEMMA delegate_company_master_credentialMakes ==
  ASSUME NEW d, NEW c, NEW U, Shaped(d, U), Sent(c, U), c.in[1] = "workspace",
         c.of[1] = "master", c.of[2] \notin U, c.as[1] = "master",
         delegate_company_master_credential(d, c) /= Refused
  PROVE  Makes(d, delegate_company_master_credential(d, c), {"master", "idem"}, U)
<1>. DEFINE o == In(d, c.as)
            r == <<"idem", <<"delegate", c.as, c.key>>>>
<1>1. IsKey(r) /\ r[1] = "idem"
  BY DEF IsKey
<1>2. Root(o)
  BY RootIs, LevelIs
<1>3. delegate_company_master_credential(d, c)
        = Put(Put(d, c.of, [New("active", o) EXCEPT !.by = c.as]),
              r, [New("recorded", c.in) EXCEPT !.by = c.of])
  BY DEF delegate_company_master_credential
<1>. HIDE DEF o, r
<1>. QED  BY <1>1, <1>2, <1>3, MasterPutMakes

\* register_top_level_agent_company_master_credential changes entries of master, idem only,
\* each of which sits where it should.
LEMMA register_top_level_agent_company_master_credentialMakes ==
  ASSUME NEW d, NEW c, NEW U, Shaped(d, U), Sent(c, U), c.in[1] = "workspace",
         c.of[1] = "master", c.of[2] \notin U, c.as[1] = "token",
         register_top_level_agent_company_master_credential(d, c) /= Refused
  PROVE  Makes(d, register_top_level_agent_company_master_credential(d, c), {"master", "idem"}, U)
<1>. DEFINE grant == In(d, c.as)
            o == In(d, grant)
            r == <<"idem", <<"register", c.as, c.key>>>>
<1>1. IsKey(r) /\ r[1] = "idem"
  BY DEF IsKey
<1>2. Root(o)
  <2>1. Lies(c.as, grant)
    BY ShapeIs
  <2>2. grant = Nobody \/ Level(grant[1]) \in {1, 2}
    BY <2>1, LevelIs, LevelType DEF Lies
  <2>3. CASE grant = Nobody
    BY <2>3, RootIs
  <2>4. CASE grant /= Nobody
    <3>1. Lies(grant, o)
      BY ShapeIs
    <3>. QED  BY <2>2, <2>4, <3>1, LevelType DEF Lies, Root
  <2>. QED  BY <2>3, <2>4
<1>3. register_top_level_agent_company_master_credential(d, c)
        = Put(Put(d, c.of, [New("active", o) EXCEPT !.by = c.as]),
              r, [New("recorded", c.in) EXCEPT !.by = c.of])
  BY DEF register_top_level_agent_company_master_credential
<1>. HIDE DEF o, r
<1>. QED  BY <1>1, <1>2, <1>3, MasterPutMakes

---------------------------------------------------------------------------
\* A new entry of level two under the company o.
LEMMA UnderRoot ==
  ASSUME NEW d, NEW e, NEW X, NEW U, Makes(d, e, X, U), NEW k, IsKey(k), k[1] \in X,
         k[1] \in {"recovery", "proof", "authority", "intent", "exportreceipt", "identity"},
         Number(k) \notin U, NEW x, IsEntry(x), Root(x.in)
  PROVE  Makes(d, Put(e, k, x), X, U)
<1>1. Level(k[1]) = 2
  BY LevelIs
<1>2. Sits(k, x, U)
  BY <1>1, SitsIs, LevelType DEF Lies, Root
<1>. QED  BY <1>2, MakesPut

\* create_human_session changes entries of recovery only, each of which sits where it should.
LEMMA create_human_sessionMakes ==
  ASSUME NEW d, NEW c, NEW U, Shaped(d, U), Sent(c, U), NEW V, Shaped(c.seen[1], V),
         c.as[1] = "humancred"
  PROVE  Makes(d, create_human_session(d, c), {"recovery"}, U)
<1>. DEFINE k == <<"recovery", c.n>>
            o == In(c.seen[1], c.as)
<1>0. PICK x : x = [New("active", o) EXCEPT !.by = c.as]
  OBVIOUS
<1>1. IsKey(k) /\ k[1] = "recovery" /\ Number(k) \notin U
  BY DEF IsKey, Number, Sent
<1>2. IsEntry(x) /\ x.in = o
  BY <1>0, StatusesAre DEF New, IsEntry
<1>3. Root(o)
  BY RootIs, LevelIs
<1>4. create_human_session(d, c) = Put(d, k, x)
  BY <1>0 DEF create_human_session
<1>. HIDE DEF k, o
<1>. QED  BY <1>1, <1>2, <1>3, <1>4, MakesSelf, UnderRoot

\* reauthenticate_human_session changes entries of recovery only, each of which sits where it
\* should.
LEMMA reauthenticate_human_sessionMakes ==
  ASSUME NEW d, NEW c, NEW U, Shaped(d, U), c.of[1] = "recovery",
         reauthenticate_human_session(d, c) /= Refused
  PROVE  Makes(d, reauthenticate_human_session(d, c), {"recovery"}, U)
<1>1. PICK r \in Nat : r = 1
  OBVIOUS
<1>2. reauthenticate_human_session(d, c) = [d EXCEPT ![c.of].rev = r]
  BY <1>1 DEF reauthenticate_human_session
<1>3. Makes(d, [d EXCEPT ![c.of].rev = r], {"recovery"}, U)
  <2>1. Makes(d, d, {"recovery"}, U)
    BY MakesSelf
  <2>2. c.of[1] \in {"recovery"}
    OBVIOUS
  <2>. QED  BY <2>1, <2>2, MakesRev
<1>. QED  BY <1>2, <1>3

\* revoke_human_session changes entries of recovery only, each of which sits where it should.
LEMMA revoke_human_sessionMakes ==
  ASSUME NEW d, NEW c, NEW U, Shaped(d, U), c.of[1] = "recovery",
         revoke_human_session(d, c) /= Refused
  PROVE  Makes(d, revoke_human_session(d, c), {"recovery"}, U)
BY MakesSelf, MakesMark, StatusesAre DEF revoke_human_session

\* create_company_master_proof changes entries of proof only, each of which sits where it
\* should.
LEMMA create_company_master_proofMakes ==
  ASSUME NEW d, NEW c, NEW U, Shaped(d, U), Sent(c, U), NEW V, Shaped(c.seen[1], V),
         c.as[1] = "master"
  PROVE  Makes(d, create_company_master_proof(d, c), {"proof"}, U)
<1>. DEFINE k == <<"proof", c.n>>
            o == In(c.seen[1], c.as)
<1>0. PICK x : x = [New("issued", o) EXCEPT !.by = c.as]
  OBVIOUS
<1>1. IsKey(k) /\ k[1] = "proof" /\ Number(k) \notin U
  BY DEF IsKey, Number, Sent
<1>2. IsEntry(x) /\ x.in = o
  BY <1>0, StatusesAre DEF New, IsEntry
<1>3. Root(o)
  BY RootIs, LevelIs
<1>4. create_company_master_proof(d, c) = Put(d, k, x)
  BY <1>0 DEF create_company_master_proof
<1>. HIDE DEF k, o
<1>. QED  BY <1>1, <1>2, <1>3, <1>4, MakesSelf, UnderRoot

\* A proof that is found expired is marked as such.
LEMMA ProofExpiredMakes ==
  ASSUME NEW d, NEW c, NEW U, NEW X, Shaped(d, U), NEW p, p[1] = "proof", "proof" \in X,
         ProofExpired(d, c, p) /= Refused
  PROVE  Makes(d, ProofExpired(d, c, p), X, U)
BY MakesSelf, MakesMark, StatusesAre DEF ProofExpired

\* A proof that is consumed makes an authority.
LEMMA AuthorityMadeMakes ==
  ASSUME NEW d, NEW e, NEW c, NEW U, Makes(d, e, Free, U), Sent(c, U), NEW p, p[1] = "proof",
         p \in DOMAIN e, NEW human, NEW role
  PROVE  Makes(d, AuthorityMade(e, c, p, human, role), Free, U)
<1>. DEFINE k == <<"authority", c.n>>
<1>0. PICK x : x = [New("active", e[p].in) EXCEPT !.by = human, !.to = p, !.val = <<role>>]
  OBVIOUS
<1>1. IsKey(k) /\ k[1] = "authority" /\ Number(k) \notin U
  BY DEF IsKey, Number, Sent
<1>2. IsEntry(x) /\ x.in = e[p].in
  BY <1>0, StatusesAre DEF New, IsEntry
<1>3. Root(x.in)
  BY <1>2, RootIs, LevelIs DEF Makes
<1>4. AuthorityMade(e, c, p, human, role) = Mark(Put(e, k, x), {p}, "consumed")
  BY <1>0 DEF AuthorityMade
<1>5. "authority" \in Free /\ "proof" \in Free
  BY DEF Free
<1>. HIDE DEF k
<1>6. Makes(d, Put(e, k, x), Free, U)
  BY <1>1, <1>2, <1>3, <1>5, UnderRoot
<1>. QED  BY <1>4, <1>5, <1>6, MakesMark, StatusesAre

\* create_human_account changes entries of free sections only, each of which sits where it
\* should.
LEMMA create_human_accountMakes ==
  ASSUME NEW d, NEW c, NEW U, Shaped(d, U), Sent(c, U), c.as[1] = "proof",
         create_human_account(d, c) /= Refused
  PROVE  Makes(d, create_human_account(d, c), Free, U)
<1>1. CASE ProofAccepted(d, c, c.as) /\ ~UsernameTaken(d, c.how)
  <2>. DEFINE k == <<"human", c.n>>
              e == AccountMade(d, c)
  <2>0. PICK x : x = [New("active", Nobody) EXCEPT !.val = <<c.how>>]
    OBVIOUS
  <2>1. IsEntry(x) /\ x.in = Nobody
    BY <2>0, StatusesAre DEF New, IsEntry
  <2>2. IsKey(k) /\ k[1] = "human" /\ k[2] = c.n
    BY DEF IsKey
  <2>3. e = Put(d, k, x)
    BY <2>0 DEF AccountMade
  <2>4. create_human_account(d, c) = AuthorityMade(e, c, c.as, k, "owner")
    BY <1>1 DEF create_human_account
  <2>. HIDE DEF k, e
  <2>5. Sits(k, x, U) /\ k[1] \in Free
    BY <2>1, <2>2, SitsIs, LevelIs DEF Lies, Number, Sent, Free
  <2>6. Makes(d, e, Free, U)
    BY <2>2, <2>3, <2>5, MakesSelf, MakesPut
  <2>7. c.as \in DOMAIN e
    BY <1>1, <2>3 DEF Put, ProofAccepted, Status
  <2>. QED  BY <2>4, <2>6, <2>7, AuthorityMadeMakes
<1>2. CASE ~(ProofAccepted(d, c, c.as) /\ ~UsernameTaken(d, c.how))
  BY <1>2, ProofExpiredMakes DEF create_human_account, Free
<1>. QED  BY <1>1, <1>2

\* A new session.
LEMMA SessionPutMakes ==
  ASSUME NEW d, NEW e, NEW U, Makes(d, e, Free, U), NEW n, n \notin U, NEW h, IsKey(h), h[1] = "human"
  PROVE  Makes(d, Put(e, <<"session", n>>, SessionOf(h)), Free, U)
<1>. DEFINE k == <<"session", n>>
<1>1. IsKey(k) /\ k[1] = "session" /\ k[2] = n
  BY DEF IsKey
<1>2. IsEntry(SessionOf(h)) /\ SessionOf(h).in = h /\ SessionOf(h).by = Nobody
  BY NewIs, StatusesAre DEF SessionOf
<1>. HIDE DEF k
<1>3. Sits(k, SessionOf(h), U)
  BY <1>1, <1>2, LevelIs DEF Sits, Lies, Holding, Ref, Unused, Number
<1>4. k[1] \in Free
  BY <1>1 DEF Free
<1>5. Makes(d, Put(e, k, SessionOf(h)), Free, U)
  BY <1>1, <1>3, <1>4, MakesPut
<1>. QED  BY <1>5 DEF k

\* create_human_account_with_session changes entries of free sections only, each of which sits
\* where it should.
LEMMA create_human_account_with_sessionMakes ==
  ASSUME NEW d, NEW c, NEW U, Shaped(d, U), Sent(c, U), c.as[1] = "proof",
         create_human_account_with_session(d, c) /= Refused
  PROVE  Makes(d, create_human_account_with_session(d, c), Free, U)
<1>. DEFINE e == create_human_account(d, c)
            h == <<"human", c.n>>
<1>1. CASE ProofAccepted(d, c, c.as) /\ ~UsernameTaken(d, c.how)
  <2>0. IsKey(h) /\ h[1] = "human"
    BY DEF IsKey
  <2>1. e /= Refused => Makes(d, e, Free, U)
    BY create_human_accountMakes
  <2>2. Makes(d, e, Free, U)
    <3>. DEFINE k == <<"human", c.n>>
                a == AccountMade(d, c)
    <3>0. PICK x : x = [New("active", Nobody) EXCEPT !.val = <<c.how>>]
      OBVIOUS
    <3>1. IsEntry(x) /\ x.in = Nobody
      BY <3>0, StatusesAre DEF New, IsEntry
    <3>2. IsKey(k) /\ k[1] = "human" /\ k[2] = c.n
      BY DEF IsKey
    <3>3. a = Put(d, k, x)
      BY <3>0 DEF AccountMade
    <3>4. e = AuthorityMade(a, c, c.as, k, "owner")
      BY <1>1 DEF create_human_account
    <3>. HIDE DEF k, a, e, h
    <3>5. Sits(k, x, U) /\ k[1] \in Free
      BY <3>1, <3>2, SitsIs, LevelIs DEF Lies, Number, Sent, Free
    <3>6. Makes(d, a, Free, U)
      BY <3>2, <3>3, <3>5, MakesSelf, MakesPut
    <3>7. c.as \in DOMAIN a
      BY <1>1, <3>3 DEF Put, ProofAccepted, Status
    <3>. QED  BY <3>4, <3>6, <3>7, AuthorityMadeMakes
  <2>3. create_human_account_with_session(d, c) = Put(e, <<"session", c.n>>, SessionOf(h))
    BY <1>1 DEF create_human_account_with_session
  <2>. HIDE DEF e, h
  <2>. QED  BY <2>0, <2>2, <2>3, SessionPutMakes DEF Sent
<1>2. CASE ~(ProofAccepted(d, c, c.as) /\ ~UsernameTaken(d, c.how))
  <2>1. create_human_account_with_session(d, c) = create_human_account(d, c)
    BY <1>2 DEF create_human_account_with_session
  <2>. QED  BY <2>1, create_human_accountMakes
<1>. QED  BY <1>1, <1>2

\* login_human_account changes entries of free sections only, each of which sits where it
\* should.
LEMMA login_human_accountMakes ==
  ASSUME NEW d, NEW c, NEW U, Shaped(d, U), Sent(c, U), NEW V, Shaped(c.seen[1], V),
         login_human_account(d, c) /= Refused
  PROVE  Makes(d, login_human_account(d, c), Free, U)
<1>1. PICK h \in Section(c.seen[1], "human") :
         login_human_account(d, c) = Put(d, <<"session", c.n>>, SessionOf(h))
  BY DEF login_human_account
<1>2. IsKey(h) /\ h[1] = "human"
  BY ShapeIs DEF Section
<1>. QED  BY <1>1, <1>2, MakesSelf, SessionPutMakes DEF Sent

\* open_host_local_human_session changes entries of free sections only, each of which sits
\* where it should.
LEMMA open_host_local_human_sessionMakes ==
  ASSUME NEW d, NEW c, NEW U, Shaped(d, U), Sent(c, U),
         open_host_local_human_session(d, c) /= Refused
  PROVE  Makes(d, open_host_local_human_session(d, c), Free, U)
<1>1. PICK h \in Section(d, "human") :
         open_host_local_human_session(d, c) = Put(d, <<"session", c.n>>, SessionOf(h))
  BY DEF open_host_local_human_session
<1>2. IsKey(h) /\ h[1] = "human"
  BY ShapeIs DEF Section
<1>. QED  BY <1>1, <1>2, MakesSelf, SessionPutMakes DEF Sent

\* reauthenticate_human_account_session changes entries of session only, each of which sits
\* where it should.
LEMMA reauthenticate_human_account_sessionMakes ==
  ASSUME NEW d, NEW c, NEW U, Shaped(d, U), c.as[1] = "session",
         reauthenticate_human_account_session(d, c) /= Refused
  PROVE  Makes(d, reauthenticate_human_account_session(d, c), {"session"}, U)
<1>1. PICK r \in Nat : r = 1
  OBVIOUS
<1>2. reauthenticate_human_account_session(d, c) = [d EXCEPT ![c.as].rev = r]
  BY <1>1 DEF reauthenticate_human_account_session
<1>3. Makes(d, [d EXCEPT ![c.as].rev = r], {"session"}, U)
  <2>1. Makes(d, d, {"session"}, U)
    BY MakesSelf
  <2>2. c.as[1] \in {"session"}
    OBVIOUS
  <2>. QED  BY <2>1, <2>2, MakesRev
<1>. QED  BY <1>2, <1>3

\* logout_human_account changes entries of session only, each of which sits where it should.
LEMMA logout_human_accountMakes ==
  ASSUME NEW d, NEW c, NEW U, Shaped(d, U), c.as[1] = "session",
         logout_human_account(d, c) /= Refused
  PROVE  Makes(d, logout_human_account(d, c), {"session"}, U)
BY MakesSelf, MakesMark, StatusesAre DEF logout_human_account

\* A session's successor.
LEMMA SuccessorMakes ==
  ASSUME NEW d, NEW c, NEW U, Shaped(d, U), Sent(c, U), c.as[1] = "session", c.as \in DOMAIN d,
         NEW a, a = Nobody \/ a[1] = "authority", NEW r \in Nat
  PROVE  Makes(d, Successor(d, c, a, r), Free, U)
<1>. DEFINE k == <<"session", c.n>>
            e == Mark(d, {c.as}, "revoked")
<1>0. PICK x : x = [d[c.as] EXCEPT !.status = "active", !.by = a, !.to = c.as, !.rev = r]
  OBVIOUS
<1>1. IsKey(k) /\ k[1] = "session" /\ k[2] = c.n
  BY DEF IsKey
<1>2. Successor(d, c, a, r) = Put(e, k, x)
  BY <1>0 DEF Successor
<1>3. IsEntry(x) /\ x.in = d[c.as].in /\ x.by = a
  <2>1. IsEntry(d[c.as])
    BY ShapeIs
  <2>2. x = [status |-> "active", in |-> d[c.as].in, by |-> a, to |-> c.as, rev |-> r,
             val |-> d[c.as].val]
    BY <1>0, <2>1 DEF IsEntry
  <2>. QED  BY <2>2, StatusesAre DEF IsEntry
<1>4. Lies(c.as, d[c.as].in)
  BY ShapeIs
<1>. HIDE DEF k, e
<1>5. Sits(k, x, U) /\ k[1] \in Free
  BY <1>1, <1>3, <1>4, LevelIs DEF Sits, Lies, Holding, Ref, Unused, Number, Sent, Free
<1>6. Makes(d, e, Free, U)
  BY MakesSelf, MakesMark, StatusesAre DEF e, Free
<1>. QED  BY <1>1, <1>2, <1>5, <1>6, MakesPut

\* reauthenticate_and_rotate_human_account_session changes entries of free sections only, each
\* of which sits where it should.
LEMMA reauthenticate_and_rotate_human_account_sessionMakes ==
  ASSUME NEW d, NEW c, NEW U, Shaped(d, U), Sent(c, U), c.as[1] = "session",
         reauthenticate_and_rotate_human_account_session(d, c) /= Refused
  PROVE  Makes(d, reauthenticate_and_rotate_human_account_session(d, c), Free, U)
<1>1. /\ c.as \in DOMAIN d
      /\ reauthenticate_and_rotate_human_account_session(d, c) = Successor(d, c, d[c.as].by, 1)
  BY DEF reauthenticate_and_rotate_human_account_session, Live, Status
<1>2. d[c.as].by = Nobody \/ d[c.as].by[1] = "authority"
  BY <1>1 DEF Shaped, Sits, Holding, Ref
<1>. QED  BY <1>1, <1>2, SuccessorMakes

\* select_human_company_membership changes entries of free sections only, each of which sits
\* where it should.
LEMMA select_human_company_membershipMakes ==
  ASSUME NEW d, NEW c, NEW U, Shaped(d, U), Sent(c, U), c.as[1] = "session", c.of[1] = "authority",
         select_human_company_membership(d, c) /= Refused
  PROVE  Makes(d, select_human_company_membership(d, c), Free, U)
<1>1. /\ c.as \in DOMAIN d
      /\ select_human_company_membership(d, c) = Successor(d, c, c.of, d[c.as].rev)
  BY DEF select_human_company_membership
<1>2. d[c.as].rev \in Nat
  BY <1>1, ShapeIs DEF IsEntry
<1>. QED  BY <1>1, <1>2, SuccessorMakes

\* prove_and_link_company_master changes entries of free sections only, each of which sits
\* where it should.
LEMMA prove_and_link_company_masterMakes ==
  ASSUME NEW d, NEW c, NEW U, Shaped(d, U), Sent(c, U), c.of[1] = "proof",
         prove_and_link_company_master(d, c) /= Refused
  PROVE  Makes(d, prove_and_link_company_master(d, c), Free, U)
<1>1. CASE prove_and_link_company_master(d, c) = ProofExpired(d, c, c.of)
  BY <1>1, ProofExpiredMakes DEF Free
<1>2. CASE /\ ProofAccepted(d, c, c.of)
           /\ \E human : prove_and_link_company_master(d, c) = AuthorityMade(d, c, c.of, human, c.how)
  <2>1. c.of \in DOMAIN d
    BY <1>2 DEF ProofAccepted, Status
  <2>. QED  BY <1>2, <2>1, MakesSelf, AuthorityMadeMakes
<1>. QED  BY <1>1, <1>2 DEF prove_and_link_company_master

\* An entry of the first level is given another value.
LEMMA MakesRootVal ==
  ASSUME NEW d, NEW e, NEW U, Makes(d, e, Free, U), NEW o, Level(o[1]) = 1, NEW a,
         NEW v \in EntryStatuses
  PROVE  Makes(d, [e EXCEPT ![o].val = <<a, v>>], Free, U)
<1>0. PICK f : f = [e EXCEPT ![o].val = <<a, v>>]
  OBVIOUS
<1>1. DOMAIN f = DOMAIN e /\ \A j \in DOMAIN e : j /= o => f[j] = e[j]
  BY <1>0
<1>2. ASSUME o \in DOMAIN e PROVE Sits(o, f[o], U)
  <2>0. Sits(o, e[o], U)
    BY <1>2 DEF Makes, Shaped
  <2>1. PICK x : x = e[o]
    OBVIOUS
  <2>2. f[o] = [x EXCEPT !.val = <<a, v>>]
    BY <1>0, <1>2, <2>1
  <2>3. PICK y : y = f[o]
    OBVIOUS
  <2>4. y = [status |-> x.status, in |-> x.in, by |-> x.by, to |-> x.to, rev |-> x.rev, val |-> <<a, v>>]
    BY <2>0, <2>1, <2>2, <2>3 DEF Sits, IsEntry
  <2>5. IsEntry(y) /\ y.in = x.in /\ y.val = <<a, v>>
    BY <2>0, <2>1, <2>4 DEF Sits, IsEntry
  <2>6. o[1] = "company"
    BY LevelType DEF Level
  <2>7. y.val = <<y.val[1], y.val[2]>> /\ y.val[2] = v
    BY <2>5
  <2>8. Holding(o, y) /\ Unused(o, y, U)
    BY <2>0, <2>1, <2>5, <2>6, <2>7 DEF Sits, Holding, Ref, Unused
  <2>. QED  BY <2>0, <2>1, <2>3, <2>5, <2>8 DEF Sits
<1>3. o[1] \in Free /\ o[1] = "company"
  BY LevelType, LevelIs DEF Level, Free
<1>4. Makes(d, f, Free, U)
  BY <1>1, <1>2, <1>3, MakesChange
<1>. QED  BY <1>0, <1>4

\* The free sections, and that no lasting link is among those that calls may drop.
LEMMA FreeIs == \A s \in Free : s \notin {"room"}
BY DEF Free

\* set_human_top_level_agent_master_credential_setting changes entries of free sections only,
\* each of which sits where it should.
LEMMA set_human_top_level_agent_master_credential_settingMakes ==
  ASSUME NEW d, NEW c, NEW U, Shaped(d, U), c.of[1] = "company",
         set_human_top_level_agent_master_credential_setting(d, c) /= Refused
  PROVE  Makes(d, set_human_top_level_agent_master_credential_setting(d, c), Free, U)
<1>1. PICK v : v = d[c.of].val[2]
  OBVIOUS
<1>2. set_human_top_level_agent_master_credential_setting(d, c) = [d EXCEPT ![c.of].val = <<c.how, v>>]
      /\ c.of \in DOMAIN d
  BY <1>1 DEF set_human_top_level_agent_master_credential_setting
<1>3. v \in EntryStatuses
  BY <1>1, <1>2 DEF Shaped, Sits, Holding, Ref
<1>4. Makes(d, d, Free, U)
  BY MakesSelf
<1>5. Level(c.of[1]) = 1
  BY LevelIs
<1>6. Makes(d, [d EXCEPT ![c.of].val = <<c.how, v>>], Free, U)
  BY <1>3, <1>4, <1>5, MakesRootVal
<1>. QED  BY <1>2, <1>6

\* human_operational_context changes entries of free sections only, each of which sits where it
\* should.
LEMMA human_operational_contextMakes ==
  ASSUME NEW d, NEW c, NEW U, Shaped(d, U), Sent(c, U), c.as[1] = "session",
         human_operational_context(d, c) /= Refused
  PROVE  Makes(d, human_operational_context(d, c), Free, U)
<1>. DEFINE k == ContextKey(c.as)
            o == ManagedCompany(d, c.as)
<1>0. PICK x : x = [New("blank", o) EXCEPT !.by = d[c.as].by, !.rev = c.n]
  OBVIOUS
<1>1. human_operational_context(d, c) = Put(d, k, x) /\ c.as \in DOMAIN d
  BY <1>0 DEF human_operational_context, _human_operational_session_data, SessionAccepted, Live, Status
<1>2. IsEntry(x) /\ x.in = o
  BY <1>0, StatusesAre DEF New, IsEntry, Sent
<1>3. Root(o)
  BY <1>1, ManagedIs
<1>4. IsKey(k) /\ k[1] = "context"
  BY DEF ContextKey, IsKey
<1>. HIDE DEF k, o
<1>5. Sits(k, x, U) /\ k[1] \in Free
  BY <1>2, <1>3, <1>4, SitsIs, LevelIs DEF Root, Lies, Generated, Free
<1>. QED  BY <1>1, <1>4, <1>5, MakesSelf, MakesPut

\* transition_human_operational_context changes entries of free sections only, each of which
\* sits where it should.
LEMMA transition_human_operational_contextMakes ==
  ASSUME NEW d, NEW c, NEW U, Shaped(d, U), Sent(c, U), c.as[1] = "session", c.of[1] = "project",
         transition_human_operational_context(d, c) /= Refused
  PROVE  Makes(d, transition_human_operational_context(d, c), Free, U)
<1>. DEFINE k == ContextKey(<<"session", c.n>>)
            e == Successor(d, c, d[c.as].by, d[c.as].rev)
<1>0. PICK x : x = [New("chosen", c.of) EXCEPT !.by = d[c.as].by, !.rev = c.n]
  OBVIOUS
<1>1. transition_human_operational_context(d, c) = Put(e, k, x)
  BY <1>0 DEF transition_human_operational_context
<1>2. c.as \in DOMAIN d /\ c.of \in DOMAIN d /\ d[c.of].in = c.in
  BY DEF transition_human_operational_context, _human_operational_session_data, SessionAccepted,
         Live, Status
<1>3. IsEntry(x) /\ x.in = c.of
  BY <1>0, StatusesAre DEF New, IsEntry, Sent
<1>4. IsKey(k) /\ k[1] = "context"
  BY DEF ContextKey, IsKey
<1>5. d[c.as].rev \in Nat /\ (d[c.as].by = Nobody \/ d[c.as].by[1] = "authority")
  BY <1>2 DEF Shaped, Sits, Holding, Ref, IsEntry
<1>6. Makes(d, e, Free, U)
  BY <1>2, <1>5, SuccessorMakes
<1>. HIDE DEF k, e
<1>7. Sits(k, x, U) /\ k[1] \in Free
  BY <1>3, <1>4, SitsIs, LevelIs DEF Lies, Generated, Free, Sent
<1>. QED  BY <1>1, <1>4, <1>6, <1>7, MakesPut

---------------------------------------------------------------------------
\* The company that a session manages, as the first section read it.
LEMMA RootOfSession ==
  ASSUME NEW d, NEW V, Shaped(d, V), NEW s, s \in DOMAIN d, s[1] \in {"session", "recovery"}
  PROVE  Root(ManagedCompany(d, s)) /\ (ManagedCompany(d, s) /= Nobody => Level(ManagedCompany(d, s)[1]) = 1)
BY ManagedIs DEF Root

\* record_company_export_receipt changes entries of free sections only, each of which sits
\* where it should.
LEMMA record_company_export_receiptMakes ==
  ASSUME NEW d, NEW c, NEW U, Shaped(d, U), Sent(c, U), NEW V, Shaped(c.seen[1], V),
         record_company_export_receipt(d, c) /= Refused
  PROVE  Makes(d, record_company_export_receipt(d, c), Free, U)
<1>. DEFINE k == <<"exportreceipt", c.n>>
            o == ManagedCompany(c.seen[1], c.as)
<1>1. record_company_export_receipt(d, c) = Put(d, k, New("kept", o))
  BY DEF record_company_export_receipt
<1>2. c.as \in DOMAIN c.seen[1] /\ c.as[1] = "session"
  BY DEF record_company_export_receipt, _management_human_session, SessionAccepted, Live, Status, Then
<1>3. Root(o)
  BY <1>2, ManagedIs
<1>4. IsKey(k) /\ k[1] = "exportreceipt" /\ Number(k) \notin U
  BY DEF IsKey, Number, Sent
<1>5. IsEntry(New("kept", o)) /\ New("kept", o).in = o
  BY NewIs, StatusesAre
<1>6. Makes(d, d, Free, U) /\ "exportreceipt" \in Free
  BY MakesSelf DEF Free
<1>. HIDE DEF k, o
<1>. QED  BY <1>1, <1>3, <1>4, <1>5, <1>6, UnderRoot

\* create_company_closure_intent changes entries of free sections only, each of which sits
\* where it should.
LEMMA create_company_closure_intentMakes ==
  ASSUME NEW d, NEW c, NEW U, Shaped(d, U), Sent(c, U), NEW V, Shaped(c.seen[1], V),
         create_company_closure_intent(d, c) /= Refused
  PROVE  Makes(d, create_company_closure_intent(d, c), Free, U)
<1>. DEFINE k == <<"intent", c.n>>
            o == ManagedCompany(c.seen[1], c.as)
<1>0. PICK x : x = [New("pending", o) EXCEPT !.by = c.as, !.val = <<c.how>>]
  OBVIOUS
<1>1. create_company_closure_intent(d, c) = Put(d, k, x)
  BY <1>0 DEF create_company_closure_intent
<1>2. c.as \in DOMAIN c.seen[1] /\ c.as[1] \in {"session", "recovery"}
  BY DEF create_company_closure_intent, _management_human_session, _recovery_closure_human_session,
         SessionAccepted, Live, Status, Then
<1>3. Root(o)
  BY <1>2, ManagedIs
<1>4. IsKey(k) /\ k[1] = "intent" /\ Number(k) \notin U
  BY DEF IsKey, Number, Sent
<1>5. IsEntry(x) /\ x.in = o
  BY <1>0, StatusesAre DEF New, IsEntry
<1>6. Makes(d, d, Free, U) /\ "intent" \in Free
  BY MakesSelf DEF Free
<1>. HIDE DEF k, o
<1>. QED  BY <1>1, <1>3, <1>4, <1>5, <1>6, UnderRoot

\* Marks of what ends with a company and of its scopes.
LEMMA ScopesFree ==
  ASSUME NEW d, NEW o, Level(o[1]) = 1
  PROVE  \A k \in Scopes(d, o) : k[1] \in Free
<1>1. o[1] \in Free
  BY LevelType, LevelIs DEF Level, Free
<1>. QED  BY <1>1 DEF Scopes, Within, Section, Free

\* What ends at a closure belongs to the free sections.
LEMMA EndsFree ==
  ASSUME NEW d, NEW o
  PROVE  \A k \in EndsAtClosure(d, o) : k[1] \in Free
BY DEF EndsAtClosure, Within, Section, Free

\* Who manages a company has a session in the document.
LEMMA ManagementIs ==
  ASSUME NEW d, NEW c, _management_human_session(d, Then(c))
  PROVE  c.as \in DOMAIN d /\ c.as[1] = "session"
BY DEF _management_human_session, SessionAccepted, Live, Status, Then

\* Who may close a company was read with its session.
LEMMA MayCloseIs ==
  ASSUME NEW c, MayClose(c)
  PROVE  c.as \in DOMAIN c.seen[1] /\ c.as[1] \in {"session", "recovery"}
BY DEF MayClose, _management_human_session, _recovery_closure_human_session,
       SessionAccepted, Live, Status, Then

\* close_company changes entries of free sections only, each of which sits where it should.
LEMMA close_companyMakes ==
  ASSUME NEW d, NEW c, NEW U, Shaped(d, U), Sent(c, U), NEW V, Shaped(c.seen[1], V),
         c.of[1] = "intent", close_company(d, c) /= Refused
  PROVE  Makes(d, close_company(d, c), Free, U)
<1>. DEFINE o == ManagedCompany(c.seen[1], c.as)
            e == Mark(d, EndsAtClosure(d, o), "revoked")
            f == Mark(e, Scopes(d, o), "closed")
<1>1. close_company(d, c) = Mark(f, {c.of}, "consumed") /\ MayClose(c) /\ o \in DOMAIN d
  BY DEF close_company
<1>2. Root(o) /\ o /= Nobody
  BY <1>1, MayCloseIs, ManagedIs, ShapeIs
<1>3. Level(o[1]) = 1 /\ c.of[1] \in Free
  BY <1>2 DEF Root, Free
<1>. HIDE DEF o
<1>4. Makes(d, d, Free, U)
  BY MakesSelf
<1>5. Makes(d, e, Free, U)
  BY <1>4, EndsFree, MakesMark, StatusesAre
<1>. HIDE DEF e
<1>6. Makes(d, f, Free, U)
  BY <1>3, <1>5, ScopesFree, MakesMark, StatusesAre
<1>. HIDE DEF f
<1>. QED  BY <1>1, <1>3, <1>6, MakesMark, StatusesAre

\* soft_delete_company changes entries of free sections only, each of which sits where it
\* should.
LEMMA soft_delete_companyMakes ==
  ASSUME NEW d, NEW c, NEW U, Shaped(d, U), Sent(c, U), NEW V, Shaped(c.seen[1], V),
         c.of[1] = "intent", soft_delete_company(d, c) /= Refused
  PROVE  Makes(d, soft_delete_company(d, c), Free, U)
<1>. DEFINE o == ManagedCompany(c.seen[1], c.as)
            f == Mark(d, Scopes(d, o), "soft_deleted")
            e == Mark(f, {c.of}, "consumed")
<1>0. PICK a : a = e[o].val[1]
  OBVIOUS
<1>7. PICK v : v = d[o].status
  OBVIOUS
<1>1. /\ soft_delete_company(d, c) = [e EXCEPT ![o].val = <<a, v>>]
      /\ _management_human_session(c.seen[1], Then(c)) /\ o \in DOMAIN d
  BY <1>0, <1>7 DEF soft_delete_company
<1>2. c.as \in DOMAIN c.seen[1] /\ c.as[1] = "session"
  BY <1>1 DEF _management_human_session, SessionAccepted, Live, Status, Then
<1>3. Root(o) /\ o /= Nobody
  BY <1>1, <1>2, ManagedIs, ShapeIs
<1>4. Level(o[1]) = 1 /\ c.of[1] \in Free
  BY <1>3 DEF Root, Free
<1>. HIDE DEF o
<1>5. Makes(d, d, Free, U)
  BY MakesSelf
<1>6. Makes(d, f, Free, U)
  BY <1>4, <1>5, ScopesFree, MakesMark, StatusesAre
<1>. HIDE DEF f
<1>8. Makes(d, e, Free, U)
  BY <1>4, <1>6, MakesMark, StatusesAre
<1>. HIDE DEF e
<1>9. v \in EntryStatuses
  BY <1>1, <1>7, ShapeIs DEF IsEntry
<1>10. Makes(d, [e EXCEPT ![o].val = <<a, v>>], Free, U)
  BY <1>4, <1>8, <1>9, MakesRootVal
<1>. QED  BY <1>1, <1>10

\* restore_company changes entries of free sections only, each of which sits where it should.
LEMMA restore_companyMakes ==
  ASSUME NEW d, NEW c, NEW U, Shaped(d, U), Sent(c, U), NEW V, Shaped(c.seen[1], V),
         restore_company(d, c) /= Refused
  PROVE  Makes(d, restore_company(d, c), Free, U)
<1>. DEFINE o == ManagedCompany(c.seen[1], c.as)
            prior == IF d[o].val[2] = "none" THEN "active" ELSE d[o].val[2]
            e == Mark(d, Scopes(d, o), prior)
<1>0. PICK a : a = e[o].val[1]
  OBVIOUS
<1>7. PICK v : v = "none"
  OBVIOUS
<1>1. /\ restore_company(d, c) = [e EXCEPT ![o].val = <<a, v>>]
      /\ _management_human_session(c.seen[1], Then(c)) /\ o \in DOMAIN d
  BY <1>0, <1>7 DEF restore_company, Status
<1>2. c.as \in DOMAIN c.seen[1] /\ c.as[1] = "session"
  BY <1>1, ManagementIs
<1>3. Root(o) /\ o /= Nobody
  BY <1>1, <1>2, ManagedIs, ShapeIs
<1>4. Level(o[1]) = 1 /\ o[1] = "company"
  BY <1>3, LevelType DEF Root, Level
<1>. HIDE DEF o
<1>5. prior \in EntryStatuses
  BY <1>1, <1>4, StatusesAre DEF Shaped, Sits, Holding, Ref
<1>6. Makes(d, d, Free, U)
  BY MakesSelf
<1>. HIDE DEF prior
<1>8. Makes(d, e, Free, U)
  BY <1>4, <1>5, <1>6, ScopesFree, MakesMark
<1>. HIDE DEF e
<1>9. v \in EntryStatuses
  BY <1>7, StatusesAre
<1>10. Makes(d, [e EXCEPT ![o].val = <<a, v>>], Free, U)
  BY <1>4, <1>8, <1>9, MakesRootVal
<1>. QED  BY <1>1, <1>10

\* A grant and the token under it.
LEMMA GrantPutMakes ==
  ASSUME NEW d, NEW e, NEW U, Makes(d, e, Free, U), NEW n, n \notin U, NEW x, IsEntry(x),
         Root(x.in), Ref(x.by, "token"), <<"grant", n>> \notin DOMAIN e
  PROVE  Makes(d, Put(e, <<"grant", n>>, x), Free, U)
<1>. DEFINE k == <<"grant", n>>
<1>1. IsKey(k) /\ k[1] = "grant" /\ k[2] = n
  BY DEF IsKey
<1>. HIDE DEF k
<1>2. Sits(k, x, U) /\ k[1] \in Free
  BY <1>1, LevelIs DEF Sits, Lies, Root, Holding, Unused, Number, Free
<1>3. Makes(d, Put(e, k, x), Free, U)
  BY <1>2, MakesPut DEF k
<1>. QED  BY <1>3 DEF k

\* A token under a grant may be put.
LEMMA TokenPutMakes ==
  ASSUME NEW d, NEW e, NEW U, Makes(d, e, Free, U), NEW k, IsKey(k), k[1] = "token",
         k[2] \notin U, NEW x, IsEntry(x), IsKey(x.in), x.in[1] = "grant",
         k \notin DOMAIN e
  PROVE  Makes(d, Put(e, k, x), Free, U)
<1>2. Sits(k, x, U) /\ k[1] \in Free
  BY LevelIs DEF Sits, Lies, Holding, Unused, Number, Free
<1>. QED  BY <1>2, MakesPut

\* A mark of free entries.
LEMMA MarkFree ==
  ASSUME NEW d, NEW e, NEW U, Makes(d, e, Free, U), NEW K, NEW s \in EntryStatuses,
         \A k \in K : k[1] \in Free \/ k \notin DOMAIN e
  PROVE  Makes(d, Mark(e, K, s), Free, U)
BY MakesMark

\* An entry that a token or a replacement lies under or names is free.
LEMMA AgentsFree ==
  ASSUME NEW d, NEW U, Shaped(d, U)
  PROVE  /\ \A t \in DOMAIN d : t[1] = "token" => d[t].in[1] = "grant" /\ IsKey(d[t].in)
         /\ \A g \in DOMAIN d : g[1] = "grant" => Ref(d[g].by, "token")
         /\ \A r \in DOMAIN d : r[1] = "replacement" => Ref(d[r].by, "token") /\ Ref(d[r].to, "token")
         /\ \A i \in DOMAIN d : i[1] = "invite" => Ref(d[i].to, "request")
         /\ \A q \in DOMAIN d : q[1] = "request" =>
               Ref(d[q].to, "token") /\ Ref(d[q].by, "invite") /\ IsKey(d[q].val[2])
<1>1. \A t \in DOMAIN d : t[1] = "token" => d[t].in[1] = "grant" /\ Lies(t, d[t].in)
  BY DEF Shaped, Sits, Holding
<1>2. \A t \in DOMAIN d : t[1] = "token" => d[t].in[1] = "grant" /\ IsKey(d[t].in)
  BY <1>1, LevelIs DEF Lies
<1>. QED  BY <1>2 DEF Shaped, Sits, Holding

\* A reference to a free section names nothing of another one.
LEMMA NobodyFree ==
  ASSUME NEW d, NEW U, Shaped(d, U), NEW p, NEW s \in Free, Ref(p, s)
  PROVE  p[1] \in Free \/ p \notin DOMAIN d
BY ShapeIs DEF Ref

---------------------------------------------------------------------------
\* request_agent_access changes entries of free sections only, each of which sits where it
\* should.
LEMMA request_agent_accessMakes ==
  ASSUME NEW d, NEW c, NEW U, Shaped(d, U), Sent(c, U), c.in[1] = "company",
         c.to = Nobody \/ c.to[1] = "token", request_agent_access(d, c) /= Refused
  PROVE  Makes(d, request_agent_access(d, c), Free, U)
<1>. DEFINE k == <<"request", c.n>>
<1>0. PICK x : x = [New("pending", c.in) EXCEPT !.to = c.to, !.val = <<c.how, c.of>>]
  OBVIOUS
<1>1. request_agent_access(d, c) = Put(d, k, x)
  BY <1>0 DEF request_agent_access
<1>2. IsEntry(x) /\ x.in = c.in /\ x.to = c.to /\ x.by = Nobody /\ x.val[2] = c.of
  BY <1>0, StatusesAre DEF New, IsEntry
<1>3. IsKey(k) /\ k[1] = "request" /\ k[2] = c.n
  BY DEF IsKey
<1>. HIDE DEF k
<1>4. Sits(k, x, U) /\ k[1] \in Free
  BY <1>2, <1>3, LevelIs DEF Sits, Lies, Holding, Ref, Unused, Number, Free, Sent
<1>. QED  BY <1>1, <1>3, <1>4, MakesSelf, MakesPut

\* An identity in a company may be put.
LEMMA IdentityPutMakes ==
  ASSUME NEW d, NEW e, NEW U, Makes(d, e, Free, U), NEW n, n \notin U, NEW o, Root(o), NEW v
  PROVE  Makes(d, Put(e, <<"identity", n>>, [New("active", o) EXCEPT !.val = v]), Free, U)
<1>. DEFINE k == <<"identity", n>>
<1>0. PICK x : x = [New("active", o) EXCEPT !.val = v]
  OBVIOUS
<1>1. IsKey(k) /\ k[1] = "identity" /\ Number(k) \notin U /\ "identity" \in Free
  BY DEF IsKey, Number, Free
<1>2. IsEntry(x) /\ x.in = o
  BY <1>0, StatusesAre DEF New, IsEntry
<1>. HIDE DEF k
<1>3. Makes(d, Put(e, k, x), Free, U)
  BY <1>1, <1>2, UnderRoot
<1>. QED  BY <1>0, <1>3 DEF k

\* decide_agent_access_request changes entries of free sections only, each of which sits where
\* it should.
LEMMA decide_agent_access_requestMakes ==
  ASSUME NEW d, NEW c, NEW U, Shaped(d, U), Sent(c, U), NEW V, Shaped(c.seen[1], V),
         c.as[1] = "master", c.of[1] = "request", decide_agent_access_request(d, c) /= Refused
  PROVE  Makes(d, decide_agent_access_request(d, c), Free, U)
<1>. DEFINE o == OfMaster(c)
            name == d[c.of].val[1]
            e == IF Named(d, o, name) /= {} THEN d
                 ELSE Put(d, <<"identity", c.n>>, [New("active", o) EXCEPT !.val = <<name>>])
<1>1. decide_agent_access_request(d, c) \in {Mark(d, {c.of}, "denied"), Mark(e, {c.of}, "approved")}
  BY DEF decide_agent_access_request
<1>2. Root(o)
  BY RootIs, LevelIs DEF OfMaster
<1>3. Makes(d, d, Free, U) /\ c.of[1] \in Free
  BY MakesSelf DEF Free
<1>4. Makes(d, e, Free, U)
  BY <1>2, <1>3, IdentityPutMakes DEF Sent
<1>. HIDE DEF e
<1>. QED  BY <1>1, <1>3, <1>4, MarkFree, StatusesAre

\* deny_agent_access_request changes entries of free sections only, each of which sits where it
\* should.
LEMMA deny_agent_access_requestMakes ==
  ASSUME NEW d, NEW c, NEW U, Shaped(d, U), c.of[1] = "request",
         deny_agent_access_request(d, c) /= Refused
  PROVE  Makes(d, deny_agent_access_request(d, c), Free, U)
<1>1. c.of[1] \in Free
  BY DEF Free
<1>. QED  BY <1>1, MakesSelf, MarkFree, StatusesAre DEF deny_agent_access_request

\* register_scope_node changes entries of free sections only, each of which sits where it
\* should.
LEMMA register_scope_nodeMakes ==
  ASSUME NEW d, NEW c, NEW U, Shaped(d, U), Sent(c, U), c.of[1] \in DOMAIN ParentRules,
         register_scope_node(d, c) /= Refused
  PROVE  Makes(d, register_scope_node(d, c), Free, U)
<1>1. CASE c.of \in DOMAIN d
  BY <1>1, MakesSelf DEF register_scope_node
<1>2. CASE c.of \notin DOMAIN d
  <2>1. /\ register_scope_node(d, c) = Put(d, c.of, New("active", c.to))
        /\ c.to[1] \in ParentRules[c.of[1]]
    BY <1>2 DEF register_scope_node
  <2>2. c.of[1] \in {"goal", "task", "game", "gamesession"}
    BY DEF ParentRules
  <2>3. Level(c.to[1]) >= 1 /\ Level(c.to[1]) < Level(c.of[1])
    BY <2>1, <2>2, LevelIs DEF ParentRules
  <2>4. Sits(c.of, New("active", c.to), U) /\ c.of[1] \in Free
    BY <2>2, <2>3, SitsIs, NewIs, StatusesAre, LevelIs DEF Lies, Sent, Generated, Free
  <2>. QED  BY <2>1, <2>2, <2>4, MakesSelf, MakesPut
<1>. QED  BY <1>1, <1>2

---------------------------------------------------------------------------
\* A request that names its invite.
LEMMA RequestNames ==
  ASSUME NEW d, NEW e, NEW U, Makes(d, e, Free, U), NEW q, q[1] = "request", NEW i, i[1] = "invite"
  PROVE  Makes(d, [e EXCEPT ![q].by = i], Free, U)
<1>0. PICK f : f = [e EXCEPT ![q].by = i]
  OBVIOUS
<1>1. DOMAIN f = DOMAIN e /\ \A j \in DOMAIN e : j /= q => f[j] = e[j]
  BY <1>0
<1>2. ASSUME q \in DOMAIN e PROVE Sits(q, f[q], U)
  <2>0. Sits(q, e[q], U)
    BY <1>2 DEF Makes, Shaped
  <2>1. PICK x : x = e[q]
    OBVIOUS
  <2>2. f[q] = [x EXCEPT !.by = i]
    BY <1>0, <1>2, <2>1
  <2>3. PICK y : y = f[q]
    OBVIOUS
  <2>4. y = [status |-> x.status, in |-> x.in, by |-> i, to |-> x.to, rev |-> x.rev, val |-> x.val]
    BY <2>0, <2>1, <2>2, <2>3 DEF Sits, IsEntry
  <2>5. IsEntry(y) /\ y.in = x.in /\ y.by = i /\ y.to = x.to /\ y.val = x.val
    BY <2>0, <2>1, <2>4 DEF Sits, IsEntry
  <2>8. Holding(q, y) /\ Unused(q, y, U)
    BY <2>0, <2>1, <2>5 DEF Sits, Holding, Ref, Unused
  <2>. QED  BY <2>0, <2>1, <2>3, <2>5, <2>8 DEF Sits
<1>3. q[1] \in Free
  BY DEF Free
<1>4. Makes(d, f, Free, U)
  BY <1>1, <1>2, <1>3, MakesChange
<1>. QED  BY <1>0, <1>4

\* issue_agent_invite changes entries of free sections only, each of which sits where it
\* should.
LEMMA issue_agent_inviteMakes ==
  ASSUME NEW d, NEW c, NEW U, Shaped(d, U), Sent(c, U), NEW V, Shaped(c.seen[1], V),
         c.as[1] = "master", c.of[1] = "request", issue_agent_invite(d, c) /= Refused
  PROVE  Makes(d, issue_agent_invite(d, c), Free, U)
<1>. DEFINE o == OfMaster(c)
            prior == d[c.of].by
            scope == d[c.of].val[2]
            w == EntryWorkspace(d, o, scope)
            e == _select_agent_invite_onboarding_data(d, o, scope)
            k == <<"invite", c.n>>
            f == Drop(e, {prior})
<1>0. PICK x : x = [New("issued", o) EXCEPT !.to = c.of, !.val = <<Room(w, scope)>>]
  OBVIOUS
<1>1. /\ issue_agent_invite(d, c) = [Put(f, k, x) EXCEPT ![c.of].by = k]
      /\ c.of \in DOMAIN d /\ e /= Refused
  BY <1>0 DEF issue_agent_invite, Status
<1>2. Root(o)
  BY RootIs, LevelIs DEF OfMaster
<1>3. w[1] = "workspace" /\ IsKey(w)
  <2>1. e /= Refused => Cardinality(Entry(d, o, scope)) = 1
    BY DEF _select_agent_invite_onboarding_data
  <2>0. Cardinality({}) = 0
    BY FS_EmptySet
  <2>2. Entry(d, o, scope) /= {}
    <3>. SUFFICES ASSUME Entry(d, o, scope) = {} PROVE FALSE
      OBVIOUS
    <3>1. Cardinality(Entry(d, o, scope)) = 0
      BY <2>0, Zenon
    <3>. HIDE DEF o, scope
    <3>. QED  BY <1>1, <2>1, <3>1
  <2>3. w \in Entry(d, o, scope)
    BY <2>2 DEF EntryWorkspace
  <2>4. w[1] = "workspace" /\ w \in DOMAIN d
    BY <2>3 DEF Entry, Section, Live, Status
  <2>. QED  BY <2>4, ShapeIs
<1>4. e = _ensure_default_meeting_rooms(d, w)
  BY <1>1 DEF _select_agent_invite_onboarding_data
<1>5. Makes(d, e, Free, U)
  BY <1>3, <1>4, MakesSelf, MakesRooms
<1>6. Ref(prior, "invite")
  BY <1>1, AgentsFree
<1>. HIDE DEF e, o, w, scope
<1>7. Makes(d, f, Free, U)
  <2>1. prior \in DOMAIN e => prior[1] \in Free /\ prior[1] = "invite"
    BY <1>5, <1>6, ShapeIs DEF Ref, Makes, Free
  <2>. QED  BY <1>5, <2>1, MakesDrop
<1>8. IsKey(k) /\ k[1] = "invite" /\ k[2] = c.n
  BY DEF IsKey
<1>9. IsEntry(x) /\ x.in = o /\ x.to = c.of
  BY <1>0, StatusesAre DEF New, IsEntry
<1>. HIDE DEF k, f, prior
<1>10. Sits(k, x, U) /\ k[1] \in Free
  BY <1>2, <1>8, <1>9, LevelIs DEF Sits, Lies, Root, Holding, Ref, Unused, Number, Free, Sent
<1>11. Makes(d, Put(f, k, x), Free, U)
  BY <1>7, <1>8, <1>10, MakesPut
<1>12. PICK g : g = Put(f, k, x)
  OBVIOUS
<1>13. Makes(d, [g EXCEPT ![c.of].by = k], Free, U)
  BY <1>8, <1>11, <1>12, RequestNames
<1>. QED  BY <1>1, <1>12, <1>13

\* revoke_agent_invite changes entries of free sections only, each of which sits where it
\* should.
LEMMA revoke_agent_inviteMakes ==
  ASSUME NEW d, NEW c, NEW U, Shaped(d, U), c.of[1] = "invite",
         revoke_agent_invite(d, c) /= Refused
  PROVE  Makes(d, revoke_agent_invite(d, c), Free, U)
<1>1. c.of[1] \in Free
  BY DEF Free
<1>. QED  BY <1>1, MakesSelf, MarkFree, StatusesAre DEF revoke_agent_invite

\* An invite that is redeemed.
LEMMA InviteRedeemed ==
  ASSUME NEW d, NEW e, NEW U, Makes(d, e, Free, U), NEW i, i[1] = "invite", NEW key
  PROVE  Makes(d, [e EXCEPT ![i].status = "redeemed", ![i].by = key], Free, U)
<1>0. PICK f : f = [e EXCEPT ![i].status = "redeemed", ![i].by = key]
  OBVIOUS
<1>1. DOMAIN f = DOMAIN e /\ \A j \in DOMAIN e : j /= i => f[j] = e[j]
  BY <1>0
<1>2. ASSUME i \in DOMAIN e PROVE Sits(i, f[i], U)
  <2>0. Sits(i, e[i], U)
    BY <1>2 DEF Makes, Shaped
  <2>1. PICK x : x = e[i]
    OBVIOUS
  <2>2. f[i] = [x EXCEPT !.status = "redeemed", !.by = key]
    BY <1>0, <1>2, <2>1
  <2>3. PICK y : y = f[i]
    OBVIOUS
  <2>4. y = [status |-> "redeemed", in |-> x.in, by |-> key, to |-> x.to, rev |-> x.rev, val |-> x.val]
    BY <2>0, <2>1, <2>2, <2>3 DEF Sits, IsEntry
  <2>5. IsEntry(y) /\ y.in = x.in /\ y.to = x.to
    BY <2>0, <2>1, <2>4, StatusesAre DEF Sits, IsEntry
  <2>8. Holding(i, y) /\ Unused(i, y, U)
    BY <2>0, <2>1, <2>5 DEF Sits, Holding, Ref, Unused
  <2>. QED  BY <2>0, <2>1, <2>3, <2>5, <2>8 DEF Sits
<1>3. i[1] \in Free
  BY DEF Free
<1>4. Makes(d, f, Free, U)
  BY <1>1, <1>2, <1>3, MakesChange
<1>. QED  BY <1>0, <1>4

\* A key is the first of its ancestors; the others lie in the document.
LEMMA AncestorsKeys ==
  ASSUME NEW d, NEW U, Shaped(d, U), NEW k, IsKey(k)
  PROVE  \A a \in Ancestors(d, k) : IsKey(a)
<1>1. \A j : In(d, j) = Nobody \/ IsKey(In(d, j))
  BY ShapeIs DEF Lies
<1>. QED  BY <1>1 DEF Ancestors, Parent

\* An agent in a workspace may be put.
LEMMA AgentPutMakes ==
  ASSUME NEW d, NEW e, NEW U, Makes(d, e, Free, U), NEW name, NEW w, IsKey(w), w[1] = "workspace"
  PROVE  Makes(d, Put(e, <<"agent", name>>, New("active", w)), Free, U)
<1>. DEFINE k == <<"agent", name>>
<1>1. IsKey(k) /\ k[1] = "agent"
  BY DEF IsKey
<1>. HIDE DEF k
<1>2. Sits(k, New("active", w), U) /\ k[1] \in Free
  BY <1>1, NewIs, StatusesAre, SitsIs, LevelIs DEF Lies, Generated, Free
<1>3. Makes(d, Put(e, k, New("active", w)), Free, U)
  BY <1>1, <1>2, MakesPut
<1>. QED  BY <1>3 DEF k

\* redeem_agent_invite changes entries of free sections only, each of which sits where it
\* should.
LEMMA redeem_agent_inviteMakes ==
  ASSUME NEW d, NEW c, NEW U, Shaped(d, U), Sent(c, U), c.of[1] = "invite", c.to[1] = "token",
         c.to[2] \notin U, <<"grant", c.n>> \notin DOMAIN d, redeem_agent_invite(d, c) /= Refused
  PROVE  Makes(d, redeem_agent_invite(d, c), Free, U)
<1>. DEFINE o == d[c.of].in
            request == d[c.of].to
            identity == CHOOSE k \in Named(d, o, d[request].val[1]) : TRUE
            scope == d[request].val[2]
            old == d[request].to
            grant == <<"grant", c.n>>
            first == Put(d, grant, [New("active", o) EXCEPT !.to = scope, !.by = old])
            made == Put(first, c.to, [New("active", grant) EXCEPT !.by = identity])
            ended == IF old = Nobody THEN made ELSE Mark(made, {old, d[old].in}, "revoked")
            done == [ended EXCEPT ![c.of].status = "redeemed", ![c.of].by = c.key]
            places == {a \in Ancestors(d, scope) : a[1] = "workspace"}
            name == d[identity].val[1]
<1>1. Makes(d, d, Free, U) /\ c.of[1] \in Free
  BY MakesSelf DEF Free
<1>2. \/ redeem_agent_invite(d, c) = Mark(d, {c.of}, "expired")
      \/ /\ c.of \in DOMAIN d /\ request \in DOMAIN d
         /\ old /= Nobody => old \in DOMAIN d
         /\ c.to \notin DOMAIN d
         /\ redeem_agent_invite(d, c)
              = IF places = {} THEN done
                ELSE Put(done, <<"agent", name>>, New("active", CHOOSE w \in places : TRUE))
  BY DEF redeem_agent_invite, Live, Status
<1>3. CASE redeem_agent_invite(d, c) = Mark(d, {c.of}, "expired")
  BY <1>1, <1>3, MarkFree, StatusesAre
<1>4. CASE /\ c.of \in DOMAIN d /\ request \in DOMAIN d
           /\ old /= Nobody => old \in DOMAIN d
           /\ c.to \notin DOMAIN d
         /\ c.to \notin DOMAIN d
           /\ redeem_agent_invite(d, c)
                = IF places = {} THEN done
                  ELSE Put(done, <<"agent", name>>, New("active", CHOOSE w \in places : TRUE))
  <2>1. Root(o)
    BY <1>4, RootIs, LevelIs
  <2>2. Ref(request, "request") /\ request /= Nobody
    BY <1>4, AgentsFree, ShapeIs
  <2>3. Ref(old, "token") /\ IsKey(scope)
    BY <1>4, <2>2, AgentsFree DEF Ref
  <2>4. PICK x : x = [New("active", o) EXCEPT !.to = scope, !.by = old]
    OBVIOUS
  <2>5. PICK y : y = [New("active", grant) EXCEPT !.by = identity]
    OBVIOUS
  <2>6. IsEntry(x) /\ x.in = o /\ x.by = old
    BY <2>4, StatusesAre DEF New, IsEntry
  <2>7. IsEntry(y) /\ y.in = grant
    BY <2>5, StatusesAre DEF New, IsEntry
  <2>8. IsKey(grant) /\ grant[1] = "grant"
    BY DEF IsKey
  <2>9. Makes(d, first, Free, U)
    BY <1>1, <2>1, <2>3, <2>4, <2>6, GrantPutMakes DEF Sent
  <2>15. c.to \notin DOMAIN first
    BY <1>4, <2>8 DEF Put
  <2>. HIDE DEF grant, first, identity
  <2>10. Makes(d, made, Free, U)
    BY <2>5, <2>7, <2>8, <2>9, <2>15, TokenPutMakes DEF Sent
  <2>11. old /= Nobody => old[1] \in Free /\ d[old].in[1] \in Free
    BY <1>4, <2>3, AgentsFree DEF Ref, Free
  <2>. HIDE DEF made, old, scope
  <2>12. Makes(d, ended, Free, U)
    BY <2>10, <2>11, MarkFree, StatusesAre
  <2>. HIDE DEF ended
  <2>13. Makes(d, done, Free, U)
    BY <2>12, InviteRedeemed
  <2>14. places /= {} => LET w == CHOOSE w \in places : TRUE IN IsKey(w) /\ w[1] = "workspace"
    BY <2>3, AncestorsKeys
  <2>. HIDE DEF done, places, name
  <2>. QED  BY <1>4, <2>13, <2>14, AgentPutMakes
<1>. QED  BY <1>2, <1>3, <1>4

---------------------------------------------------------------------------
\* revoke_agent_token changes entries of free sections only, each of which sits where it
\* should.
LEMMA revoke_agent_tokenMakes ==
  ASSUME NEW d, NEW c, NEW U, Shaped(d, U), c.of[1] = "token",
         revoke_agent_token(d, c) /= Refused
  PROVE  Makes(d, revoke_agent_token(d, c), Free, U)
<1>1. /\ revoke_agent_token(d, c) = Mark(d, {c.of, d[c.of].in}, "revoked")
      /\ c.of \in DOMAIN d
  BY DEF revoke_agent_token, Live, Status
<1>2. c.of[1] \in Free /\ d[c.of].in[1] \in Free
  BY <1>1, AgentsFree DEF Free
<1>3. Makes(d, d, Free, U)
  BY MakesSelf
<1>. QED  BY <1>1, <1>2, <1>3, MarkFree, StatusesAre

\* A successor with its grant may be put.
LEMMA SuccessorMadeMakes ==
  ASSUME NEW d, NEW e, NEW c, NEW U, Makes(d, e, Free, U), Sent(c, U), NEW t, t[1] = "token",
         t \in DOMAIN e, e[t].in \in DOMAIN e, {<<"grant", c.n>>, <<"token", c.n>>} \cap DOMAIN e = {}
  PROVE  Makes(d, SuccessorMade(e, c, t), Free, U)
<1>. DEFINE g == <<"grant", c.n>>
            k == <<"token", c.n>>
            o == e[e[t].in].in
<1>1. PICK x : x = [New("pending_activation", o) EXCEPT !.to = e[e[t].in].to, !.by = t]
  OBVIOUS
<1>2. PICK y : y = [New("active", g) EXCEPT !.by = e[t].by]
  OBVIOUS
<1>3. SuccessorMade(e, c, t) = Put(Put(e, g, x), k, y)
  BY <1>1, <1>2 DEF SuccessorMade
<1>4. IsEntry(x) /\ x.in = o /\ x.by = t
  BY <1>1, StatusesAre DEF New, IsEntry
<1>5. IsEntry(y) /\ y.in = g
  BY <1>2, StatusesAre DEF New, IsEntry
<1>6. Shaped(e, U)
  BY DEF Makes
<1>7. Root(o)
  <2>1. e[t].in[1] = "grant"
    BY <1>6, AgentsFree
  <2>. QED  BY <1>6, <2>1, RootIs, LevelIs
<1>8. IsKey(g) /\ g[1] = "grant" /\ IsKey(k) /\ k[1] = "token" /\ k[2] = c.n
  BY DEF IsKey
<1>9. Makes(d, Put(e, g, x), Free, U)
  BY <1>4, <1>7, GrantPutMakes DEF Sent, Ref
<1>11. k \notin DOMAIN Put(e, g, x)
  BY <1>8 DEF Put
<1>. HIDE DEF g, k, o
<1>10. Makes(d, Put(Put(e, g, x), k, y), Free, U)
  BY <1>5, <1>8, <1>9, <1>11, TokenPutMakes DEF Sent
<1>. QED  BY <1>3, <1>10

\* prepare_agent_token_replacement changes entries of free sections only, each of which sits
\* where it should.
LEMMA prepare_agent_token_replacementMakes ==
  ASSUME NEW d, NEW c, NEW U, Shaped(d, U), Sent(c, U), c.of[1] = "token",
         {<<"grant", c.n>>, <<"token", c.n>>} \cap DOMAIN d = {},
         prepare_agent_token_replacement(d, c) /= Refused
  PROVE  Makes(d, prepare_agent_token_replacement(d, c), Free, U)
<1>1. /\ prepare_agent_token_replacement(d, c) = SuccessorMade(d, c, c.of)
      /\ c.of \in DOMAIN d /\ d[c.of].in \in DOMAIN d
  BY DEF prepare_agent_token_replacement, Replaceable, Live, Status
<1>2. Makes(d, d, Free, U)
  BY MakesSelf
<1>. QED  BY <1>1, <1>2, SuccessorMadeMakes

\* A successor that is not confirmed lapses.
LEMMA LapsedMakes ==
  ASSUME NEW d, NEW U, Shaped(d, U), NEW t, t[1] = "token", t \in DOMAIN d
  PROVE  Makes(d, Lapsed(d, t), Free, U)
<1>. DEFINE e == Mark(d, {t}, "revoked")
<1>1. t[1] \in Free /\ d[t].in[1] \in Free
  BY AgentsFree DEF Free
<1>2. Makes(d, d, Free, U)
  BY MakesSelf
<1>3. Makes(d, e, Free, U)
  BY <1>1, <1>2, MarkFree, StatusesAre
<1>. HIDE DEF e
<1>4. Makes(d, Mark(e, {d[t].in}, "expired"), Free, U)
  BY <1>1, <1>3, MarkFree, StatusesAre
<1>. QED  BY <1>4 DEF Lapsed, e

\* A successor takes the place of its predecessor.
LEMMA SuccessorActiveMakes ==
  ASSUME NEW d, NEW U, Shaped(d, U), NEW t, t[1] = "token", t \in DOMAIN d, d[t].in \in DOMAIN d,
         d[d[t].in].by \in DOMAIN d
  PROVE  Makes(d, SuccessorActive(d, t), Free, U)
<1>. DEFINE old == d[d[t].in].by
            e == Mark(d, {d[t].in}, "active")
            f == Mark(e, {old}, "revoked")
<1>1. d[t].in[1] = "grant" /\ old /= Nobody
  BY AgentsFree, ShapeIs
<1>2. old[1] = "token"
  BY <1>1, AgentsFree DEF Ref
<1>3. d[t].in[1] \in Free /\ old[1] \in Free /\ d[old].in[1] \in Free
  BY <1>1, <1>2, AgentsFree DEF Free
<1>. HIDE DEF old
<1>4. Makes(d, d, Free, U)
  BY MakesSelf
<1>5. Makes(d, e, Free, U)
  BY <1>3, <1>4, MarkFree, StatusesAre
<1>. HIDE DEF e
<1>6. Makes(d, f, Free, U)
  BY <1>3, <1>5, MarkFree, StatusesAre
<1>. HIDE DEF f
<1>7. Makes(d, Mark(f, {d[old].in}, "superseded"), Free, U)
  BY <1>3, <1>6, MarkFree, StatusesAre
<1>. QED  BY <1>7 DEF SuccessorActive, f, e, old

\* confirm_agent_token_replacement changes entries of free sections only, each of which sits
\* where it should.
LEMMA confirm_agent_token_replacementMakes ==
  ASSUME NEW d, NEW c, NEW U, Shaped(d, U), c.as[1] = "token",
         confirm_agent_token_replacement(d, c) /= Refused
  PROVE  Makes(d, confirm_agent_token_replacement(d, c), Free, U)
<1>1. /\ confirm_agent_token_replacement(d, c) \in {Lapsed(d, c.as), SuccessorActive(d, c.as)}
      /\ c.as \in DOMAIN d /\ d[c.as].in \in DOMAIN d /\ d[d[c.as].in].by \in DOMAIN d
  BY DEF confirm_agent_token_replacement, Live, Status, In
<1>. QED  BY <1>1, LapsedMakes, SuccessorActiveMakes

\* cancel_agent_token_replacement changes entries of free sections only, each of which sits
\* where it should.
LEMMA cancel_agent_token_replacementMakes ==
  ASSUME NEW d, NEW c, NEW U, Shaped(d, U), c.of[1] = "token",
         cancel_agent_token_replacement(d, c) /= Refused
  PROVE  Makes(d, cancel_agent_token_replacement(d, c), Free, U)
<1>. DEFINE grant == In(d, c.of)
            e == Mark(d, {c.of}, "revoked")
<1>1. /\ cancel_agent_token_replacement(d, c) = Mark(e, {grant}, "cancelled")
      /\ grant \in DOMAIN d
  BY DEF cancel_agent_token_replacement, Status
<1>2. c.of[1] \in Free /\ grant[1] \in Free
  <2>1. c.of \in DOMAIN d /\ grant = d[c.of].in
    BY <1>1, ShapeIs DEF In
  <2>. QED  BY <2>1, AgentsFree DEF Free
<1>3. Makes(d, d, Free, U)
  BY MakesSelf
<1>4. Makes(d, e, Free, U)
  BY <1>2, <1>3, MarkFree, StatusesAre
<1>. HIDE DEF e, grant
<1>. QED  BY <1>1, <1>2, <1>4, MarkFree, StatusesAre

\* expire_pending_agent_token_replacements changes entries of free sections only, each of which
\* sits where it should.
LEMMA expire_pending_agent_token_replacementsMakes ==
  ASSUME NEW d, NEW c, NEW U, Shaped(d, U),
         expire_pending_agent_token_replacements(d, c) /= Refused
  PROVE  Makes(d, expire_pending_agent_token_replacements(d, c), Free, U)
<1>. DEFINE over == {g \in Section(d, "grant") \cap c.late : d[g].status = "pending_activation"}
            theirs == {t \in Section(d, "token") : d[t].in \in over}
            e == Mark(d, over, "expired")
<1>1. expire_pending_agent_token_replacements(d, c) = Mark(e, theirs, "revoked")
  BY DEF expire_pending_agent_token_replacements
<1>2. (\A k \in over : k[1] \in Free) /\ \A k \in theirs : k[1] \in Free
  BY DEF Section, Free
<1>3. Makes(d, d, Free, U)
  BY MakesSelf
<1>. HIDE DEF over, theirs
<1>4. Makes(d, e, Free, U)
  BY <1>2, <1>3, MarkFree, StatusesAre
<1>. HIDE DEF e
<1>. QED  BY <1>1, <1>2, <1>4, MarkFree, StatusesAre

\* Several successors lapse at once.
LEMMA LapsedAllMakes ==
  ASSUME NEW d, NEW U, Shaped(d, U), NEW R, \A r \in R : r[1] = "replacement" /\ r \in DOMAIN d
  PROVE  Makes(d, LapsedAll(d, R), Free, U)
<1>. DEFINE tokens == {d[r].to : r \in R} \cap DOMAIN d
            grants == {d[t].in : t \in tokens} \cap DOMAIN d
            e == Mark(d, R, "expired")
            f == Mark(e, tokens, "revoked")
<1>1. \A t \in tokens : t[1] = "token"
  BY AgentsFree, ShapeIs DEF Ref
<1>2. \A g \in grants : g[1] = "grant"
  BY <1>1, AgentsFree
<1>3. /\ \A r \in R : r[1] \in Free
      /\ \A t \in tokens : t[1] \in Free
      /\ \A g \in grants : g[1] \in Free
  BY <1>1, <1>2 DEF Free
<1>4. Makes(d, d, Free, U)
  BY MakesSelf
<1>5. LapsedAll(d, R) = Mark(f, grants, "expired")
  BY DEF LapsedAll
<1>. HIDE DEF tokens, grants
<1>6. Makes(d, e, Free, U)
  BY <1>3, <1>4, MarkFree, StatusesAre
<1>. HIDE DEF e
<1>7. Makes(d, f, Free, U)
  BY <1>3, <1>6, MarkFree, StatusesAre
<1>. HIDE DEF f
<1>. QED  BY <1>3, <1>5, <1>7, MarkFree, StatusesAre

\* Marking entries keeps all their links.
LEMMA MarkKeeps ==
  ASSUME NEW d, NEW K, NEW s \in EntryStatuses, \A k \in DOMAIN d : IsEntry(d[k])
  PROVE  LET e == Mark(d, K, s)
         IN /\ DOMAIN e = DOMAIN d
            /\ \A k \in DOMAIN d : /\ IsEntry(e[k]) /\ e[k].in = d[k].in /\ e[k].by = d[k].by
                                    /\ e[k].to = d[k].to /\ e[k].rev = d[k].rev /\ e[k].val = d[k].val
<1>. DEFINE e == Mark(d, K, s)
<1>1. /\ DOMAIN e = DOMAIN d
      /\ \A k \in DOMAIN d : e[k] = IF k \in K THEN [d[k] EXCEPT !.status = s] ELSE d[k]
  BY DEF Mark
<1>. HIDE DEF e
<1>2. ASSUME NEW k \in DOMAIN d
      PROVE  /\ IsEntry(e[k]) /\ e[k].in = d[k].in /\ e[k].by = d[k].by
             /\ e[k].to = d[k].to /\ e[k].rev = d[k].rev /\ e[k].val = d[k].val
  <2>1. CASE k \notin K
    BY <1>1, <2>1
  <2>2. CASE k \in K
    <3>1. PICK y : y = e[k]
      OBVIOUS
    <3>2. y = [d[k] EXCEPT !.status = s]
      BY <1>1, <2>2, <3>1
    <3>3. /\ y = [status |-> s, in |-> d[k].in, by |-> d[k].by, to |-> d[k].to, rev |-> d[k].rev,
                  val |-> d[k].val]
          /\ y.status = s /\ y.in = d[k].in /\ y.by = d[k].by /\ y.to = d[k].to
          /\ y.rev = d[k].rev /\ y.val = d[k].val
      BY <3>2, MarkedEntry
    <3>4. IsEntry(y)
      BY <3>3 DEF IsEntry
    <3>. QED  BY <3>1, <3>3, <3>4
  <2>. QED  BY <2>1, <2>2
<1>. QED  BY <1>1, <1>2 DEF e

\* A lapse keeps what every entry lies under.
LEMMA LapsedAllKeeps ==
  ASSUME NEW d, NEW R, \A k \in DOMAIN d : IsEntry(d[k])
  PROVE  /\ DOMAIN LapsedAll(d, R) = DOMAIN d
         /\ \A k \in DOMAIN d : LapsedAll(d, R)[k].in = d[k].in
<1>. DEFINE tokens == {d[r].to : r \in R} \cap DOMAIN d
            grants == {d[t].in : t \in tokens} \cap DOMAIN d
            e == Mark(d, R, "expired")
            f == Mark(e, tokens, "revoked")
            g == Mark(f, grants, "expired")
<1>1. LapsedAll(d, R) = g
  BY DEF LapsedAll
<1>. HIDE DEF tokens, grants
<1>2. DOMAIN e = DOMAIN d /\ \A k \in DOMAIN d : IsEntry(e[k]) /\ e[k].in = d[k].in
  BY MarkKeeps, StatusesAre
<1>. HIDE DEF e
<1>3. DOMAIN f = DOMAIN e /\ \A k \in DOMAIN e : IsEntry(f[k]) /\ f[k].in = e[k].in
  BY <1>2, MarkKeeps, StatusesAre
<1>. HIDE DEF f
<1>4. DOMAIN g = DOMAIN f /\ \A k \in DOMAIN f : IsEntry(g[k]) /\ g[k].in = f[k].in
  BY <1>2, <1>3, MarkKeeps, StatusesAre
<1>. HIDE DEF g
<1>. QED  BY <1>1, <1>2, <1>3, <1>4

\* Who manages credentials was read with its session.
LEMMA ManagesIs ==
  ASSUME NEW c, ManagesCredentials(c)
  PROVE  c.as \in DOMAIN c.seen[1] /\ c.as[1] = "session"
BY DEF ManagesCredentials, _credential_management_human_session, SessionAccepted, Live, Status, Then

\* prepare_human_agent_token_replacement changes entries of free sections only, each of which
\* sits where it should.
LEMMA prepare_human_agent_token_replacementMakes ==
  ASSUME NEW d, NEW c, NEW U, Shaped(d, U), Sent(c, U), NEW V, Shaped(c.seen[1], V),
         c.of[1] = "token",
         {<<"grant", c.n>>, <<"token", c.n>>, <<"replacement", c.n>>} \cap DOMAIN d = {},
         prepare_human_agent_token_replacement(d, c) /= Refused
  PROVE  Makes(d, prepare_human_agent_token_replacement(d, c), Free, U)
<1>. DEFINE o == ManagedCompany(c.seen[1], c.as)
            over == Waiting(d, c.of) \cap c.late
            e == LapsedAll(d, over)
            f == SuccessorMade(e, c, c.of)
            k == <<"replacement", c.n>>
            t == <<"token", c.n>>
<1>0. PICK x : x = [New("prepared", o) EXCEPT !.by = c.of, !.to = t, !.val = <<c.key>>]
  OBVIOUS
<1>1. /\ prepare_human_agent_token_replacement(d, c) = Put(f, k, x)
      /\ ManagesCredentials(c) /\ c.of \in DOMAIN d /\ d[c.of].in \in DOMAIN d
  BY <1>0 DEF prepare_human_agent_token_replacement, Replaceable, Live, Status
<1>2. Root(o)
  BY <1>1, ManagesIs, ManagedIs
<1>3. \A r \in over : r[1] = "replacement" /\ r \in DOMAIN d
  BY DEF Waiting, Section
<1>4. Makes(d, e, Free, U)
  BY <1>3, LapsedAllMakes
<1>5. c.of \in DOMAIN e /\ e[c.of].in \in DOMAIN e /\ DOMAIN e = DOMAIN d
  BY <1>1, LapsedAllKeeps, ShapeIs
<1>6. IsEntry(x) /\ x.in = o /\ x.by = c.of /\ x.to = t
  BY <1>0, StatusesAre DEF New, IsEntry
<1>7. IsKey(k) /\ k[1] = "replacement" /\ k[2] = c.n /\ t[1] = "token"
  BY DEF IsKey
<1>10. k \notin DOMAIN f
  BY <1>5, <1>7 DEF SuccessorMade, Put
<1>11. d[d[c.of].in].in = o
  BY <1>1 DEF prepare_human_agent_token_replacement, Replaceable, In
<1>12. e[e[c.of].in].in = o
  BY <1>1, <1>11, LapsedAllKeeps, ShapeIs
<1>13. Follows(Put(f, k, x), k)
  <2>. DEFINE g == <<"grant", c.n>>
              h == Put(f, k, x)
  <2>1. PICK y : y = [New("pending_activation", e[e[c.of].in].in) EXCEPT !.to = e[e[c.of].in].to, !.by = c.of]
    OBVIOUS
  <2>2. PICK z : z = [New("active", g) EXCEPT !.by = e[c.of].by]
    OBVIOUS
  <2>3. f = Put(Put(e, g, y), t, z)
    BY <2>1, <2>2 DEF SuccessorMade
  <2>4. y.in = o /\ y.by = c.of /\ z.in = g
    BY <1>12, <2>1, <2>2 DEF New
  <2>5. h[k] = x /\ t \in DOMAIN h /\ h[t] = z /\ g \in DOMAIN h /\ h[g] = y
    BY <2>3 DEF Put
  <2>6. g[1] = "grant"
    OBVIOUS
  <2>. HIDE DEF g, h, f, o, e, k, t
  <2>. QED  BY <1>6, <1>7, <2>4, <2>5, <2>6 DEF Follows, h
<1>. HIDE DEF o, e, k, t
<1>8. Makes(d, f, Free, U)
  BY <1>4, <1>5, SuccessorMadeMakes
<1>. HIDE DEF f
<1>9. Sits(k, x, U) /\ k[1] \in Free
  BY <1>2, <1>6, <1>7, LevelIs DEF Sits, Lies, Root, Holding, Ref, Unused, Number, Free, Sent
<1>14. PICK h : h = Put(f, k, x)
  OBVIOUS
<1>15. /\ DOMAIN h = DOMAIN f \cup {k} /\ h[k] = x
       /\ \A j \in DOMAIN f : h[j] = f[j]
  BY <1>10, <1>14 DEF Put
<1>16. /\ \A j \in DOMAIN f : j[1] \in Lasting => j \in DOMAIN h /\ SameLinks(f[j], h[j])
       /\ \A r \in DOMAIN h : r[1] = "replacement" => r \in DOMAIN f \/ Follows(h, r)
  BY <1>13, <1>14, <1>15 DEF SameLinks
<1>17. Makes(d, h, Free, U)
  BY <1>7, <1>8, <1>9, <1>15, <1>16, Remake DEF Free
<1>. QED  BY <1>1, <1>14, <1>17

\* human_agent_token_replacement_status changes entries of free sections only, each of which
\* sits where it should.
LEMMA human_agent_token_replacement_statusMakes ==
  ASSUME NEW d, NEW c, NEW U, Shaped(d, U), c.of[1] = "replacement",
         human_agent_token_replacement_status(d, c) /= Refused
  PROVE  Makes(d, human_agent_token_replacement_status(d, c), Free, U)
<1>1. human_agent_token_replacement_status(d, c) = LapsedAll(d, {c.of}) /\ c.of \in DOMAIN d
  BY DEF human_agent_token_replacement_status, Status
<1>2. \A r \in {c.of} : r[1] = "replacement" /\ r \in DOMAIN d
  BY <1>1
<1>. QED  BY <1>1, <1>2, LapsedAllMakes

\* confirm_human_agent_token_replacement changes entries of free sections only, each of which
\* sits where it should.
LEMMA confirm_human_agent_token_replacementMakes ==
  ASSUME NEW d, NEW c, NEW U, Shaped(d, U), SuccessionInv(d), c.of[1] = "replacement",
         confirm_human_agent_token_replacement(d, c) /= Refused
  PROVE  Makes(d, confirm_human_agent_token_replacement(d, c), Free, U)
<1>. DEFINE t == d[c.of].to
            e == SuccessorActive(d, t)
<1>1. c.of \in DOMAIN d
  BY DEF confirm_human_agent_token_replacement, Status
<1>2. t \in DOMAIN d /\ d[t].in \in DOMAIN d /\ d[d[t].in].by = d[c.of].by
  BY <1>1 DEF SuccessionInv, Follows
<1>3. t[1] = "token"
  BY <1>1, <1>2, AgentsFree, ShapeIs DEF Ref
<1>4. \/ confirm_human_agent_token_replacement(d, c) = LapsedAll(d, {c.of})
      \/ /\ confirm_human_agent_token_replacement(d, c) = Mark(e, {c.of}, "confirmed")
         /\ d[c.of].by \in DOMAIN d
  BY DEF confirm_human_agent_token_replacement, Live, Status
<1>5. c.of[1] \in Free
  BY DEF Free
<1>6. ASSUME d[c.of].by \in DOMAIN d PROVE Makes(d, Mark(e, {c.of}, "confirmed"), Free, U)
  <2>. HIDE DEF t
  <2>1. Makes(d, e, Free, U)
    BY <1>2, <1>3, <1>6, SuccessorActiveMakes
  <2>. HIDE DEF e
  <2>. QED  BY <1>5, <2>1, MarkFree, StatusesAre
<1>7. Makes(d, LapsedAll(d, {c.of}), Free, U)
  BY <1>1, LapsedAllMakes
<1>. QED  BY <1>4, <1>6, <1>7

\* cancel_human_agent_token_replacement changes entries of free sections only, each of which
\* sits where it should.
LEMMA cancel_human_agent_token_replacementMakes ==
  ASSUME NEW d, NEW c, NEW U, Shaped(d, U), SuccessionInv(d), c.of[1] = "replacement",
         cancel_human_agent_token_replacement(d, c) /= Refused
  PROVE  Makes(d, cancel_human_agent_token_replacement(d, c), Free, U)
<1>. DEFINE t == d[c.of].to
            e == Mark(d, {t}, "revoked")
            f == Mark(e, {d[t].in}, "cancelled")
<1>1. c.of \in DOMAIN d /\ cancel_human_agent_token_replacement(d, c) = Mark(f, {c.of}, "canceled")
  BY DEF cancel_human_agent_token_replacement, Status
<1>2. t \in DOMAIN d /\ t[1] = "token"
  BY <1>1 DEF Follows, SuccessionInv
<1>3. c.of[1] \in Free /\ t[1] \in Free /\ d[t].in[1] \in Free
  BY <1>2, AgentsFree DEF Free
<1>. HIDE DEF t
<1>4. Makes(d, d, Free, U)
  BY MakesSelf
<1>5. Makes(d, e, Free, U)
  BY <1>3, <1>4, MarkFree, StatusesAre
<1>. HIDE DEF e
<1>6. Makes(d, f, Free, U)
  BY <1>3, <1>5, MarkFree, StatusesAre
<1>. HIDE DEF f
<1>. QED  BY <1>1, <1>3, <1>6, MarkFree, StatusesAre

\* The entries of a pairing refer to each other within the free sections.
LEMMA ConnectorsFree ==
  ASSUME NEW d, NEW U, Shaped(d, U)
  PROVE  /\ \A k \in DOMAIN d : k[1] = "credential" => d[k].in[1] = "pairing" /\ IsKey(d[k].in)
         /\ \A k \in DOMAIN d : k[1] = "rotation" =>
               /\ d[k].in[1] = "pairing" /\ IsKey(d[k].in)
               /\ Ref(d[k].by, "credential") /\ Ref(d[k].to, "credential")
         /\ \A k \in DOMAIN d : k[1] = "pairing" =>
               Ref(d[k].by, "credential") /\ Ref(d[k].to, "pairrequest")
<1>1. \A k \in DOMAIN d : k[1] = "credential" => d[k].in[1] = "pairing" /\ Lies(k, d[k].in)
  BY DEF Shaped, Sits, Holding
<1>2. \A k \in DOMAIN d : k[1] = "rotation" => d[k].in[1] = "pairing" /\ Lies(k, d[k].in)
  BY DEF Shaped, Sits, Holding
<1>3. \A k \in DOMAIN d : k[1] \in {"credential", "rotation"} => IsKey(d[k].in)
  BY <1>1, <1>2, LevelIs DEF Lies
<1>4. \A k \in DOMAIN d : k[1] = "rotation" => Ref(d[k].by, "credential") /\ Ref(d[k].to, "credential")
  BY DEF Shaped, Sits, Holding
<1>5. \A k \in DOMAIN d : k[1] = "pairing" => Ref(d[k].by, "credential") /\ Ref(d[k].to, "pairrequest")
  BY DEF Shaped, Sits, Holding
<1>. QED  BY <1>1, <1>2, <1>3, <1>4, <1>5

\* Pairing requests, pairings and rotations expire.
LEMMA ExpiredMakes ==
  ASSUME NEW d, NEW U, Shaped(d, U), NEW over
  PROVE  Makes(d, Expired(d, over), Free, U)
<1>. DEFINE pairings == RunOut(d, "pairing", {"pending_activation"}, over)
            rotations == RunOut(d, "rotation", {"pending_activation"}, over)
            credentials == {k \in Section(d, "credential") :
                              /\ d[k].status = "pending_activation"
                              /\ d[k].in \in pairings \/ \E r \in rotations : d[r].to = k}
            codes == RunOut(d, "pairrequest", Unclaimed, over)
            requests == RunOut(d, "pairrequest", Unapproved, over)
            e == Mark(d, codes, "authorization_code_expired")
            all == pairings \cup rotations \cup credentials \cup requests
<1>1. Expired(d, over) = Mark(e, all, "expired")
  BY DEF Expired
<1>2. (\A k \in codes : k[1] \in Free) /\ \A k \in all : k[1] \in Free
  BY DEF RunOut, Section, Free
<1>3. Makes(d, d, Free, U)
  BY MakesSelf
<1>. HIDE DEF codes, all
<1>4. Makes(d, e, Free, U)
  BY <1>2, <1>3, MarkFree, StatusesAre
<1>. HIDE DEF e
<1>. QED  BY <1>1, <1>2, <1>4, MarkFree, StatusesAre

\* expire_connector_pairings changes entries of free sections only, each of which sits where it
\* should.
LEMMA expire_connector_pairingsMakes ==
  ASSUME NEW d, NEW c, NEW U, Shaped(d, U), expire_connector_pairings(d, c) /= Refused
  PROVE  Makes(d, expire_connector_pairings(d, c), Free, U)
BY ExpiredMakes DEF expire_connector_pairings

\* purge_abandoned_connector_pairings changes entries of free sections only, each of which sits
\* where it should.
LEMMA purge_abandoned_connector_pairingsMakes ==
  ASSUME NEW d, NEW c, NEW U, Shaped(d, U), purge_abandoned_connector_pairings(d, c) /= Refused
  PROVE  Makes(d, purge_abandoned_connector_pairings(d, c), Free, U)
<1>. DEFINE over == RunOut(d, "pairing", {"canceled", "expired"}, c.late)
            theirs == {k \in Section(d, "credential") \cup Section(d, "rotation") : d[k].in \in over}
            K == over \cup theirs \cup {d[k].to : k \in over}
<1>1. purge_abandoned_connector_pairings(d, c) = Drop(d, K)
  BY DEF purge_abandoned_connector_pairings
<1>2. \A k \in over : k \in DOMAIN d /\ k[1] = "pairing"
  BY DEF RunOut, Section
<1>3. \A k \in theirs : k[1] \in {"credential", "rotation"}
  BY DEF Section
<1>4. \A k \in over : d[k].to \in DOMAIN d => d[k].to[1] = "pairrequest"
  BY <1>2, ConnectorsFree, ShapeIs DEF Ref
<1>. HIDE DEF over, theirs
<1>5. \A k \in K : k \in DOMAIN d => k[1] \in {"pairing", "credential", "rotation", "pairrequest"}
  BY <1>2, <1>3, <1>4
<1>. HIDE DEF K
<1>6. \A k \in K : k \in DOMAIN d => k[1] \in Free /\ k[1] \notin {"room", "grant", "token", "replacement"}
  BY <1>5 DEF Free
<1>7. Makes(d, d, Free, U)
  BY MakesSelf
<1>. QED  BY <1>1, <1>6, <1>7, MakesDrop

---------------------------------------------------------------------------
\* create_connector_pairing_request changes entries of free sections only, each of which sits
\* where it should.
LEMMA create_connector_pairing_requestMakes ==
  ASSUME NEW d, NEW c, NEW U, Shaped(d, U), Sent(c, U),
         create_connector_pairing_request(d, c) /= Refused
  PROVE  Makes(d, create_connector_pairing_request(d, c), Free, U)
<1>. DEFINE k == <<"pairrequest", c.n>>
<1>0. PICK x : x = [New("pending_human_approval", Nobody) EXCEPT !.by = c.key, !.val = <<c.how, FALSE>>]
  OBVIOUS
<1>1. create_connector_pairing_request(d, c) = Put(d, k, x)
  BY <1>0 DEF create_connector_pairing_request
<1>2. IsEntry(x) /\ x.in = Nobody /\ x.to = Nobody /\ x.val = <<c.how, FALSE>>
  BY <1>0, StatusesAre DEF New, IsEntry
<1>3. IsKey(k) /\ k[1] = "pairrequest" /\ k[2] = c.n
  BY DEF IsKey
<1>4. Nobody[1] /= "workspace"
  BY NobodyIsNoKey
<1>. HIDE DEF k
<1>5. Holding(k, x)
  BY <1>2, <1>3 DEF Holding, IsWorkspace
<1>6. Unused(k, x, U)
  BY <1>2, <1>3, <1>4 DEF Unused, Number, Sent
<1>7. Sits(k, x, U) /\ k[1] \in Free
  BY <1>2, <1>3, <1>5, <1>6, LevelIs DEF Sits, Lies, Free
<1>. QED  BY <1>1, <1>3, <1>7, MakesSelf, MakesPut

\* approve_connector_pairing_request changes entries of free sections only, each of which sits
\* where it should.
LEMMA approve_connector_pairing_requestMakes ==
  ASSUME NEW d, NEW c, NEW U, Shaped(d, U), Sent(c, U), NEW V, Shaped(c.seen[1], V),
         c.of[1] = "pairrequest", c.in = Nobody \/ c.in[1] = "workspace",
         approve_connector_pairing_request(d, c) /= Refused
  PROVE  Makes(d, approve_connector_pairing_request(d, c), Free, U)
<1>. DEFINE o == ManagedCompany(c.seen[1], c.as)
            chosen == IF c.in = Nobody THEN <<"workspace", c.n>> ELSE c.in
            free == c.in = Nobody
<1>1. Makes(d, d, Free, U) /\ c.of[1] \in Free
  BY MakesSelf DEF Free
<1>2. CASE approve_connector_pairing_request(d, c) = Mark(d, {c.of}, "expired")
  BY <1>1, <1>2, MarkFree, StatusesAre
<1>3. CASE approve_connector_pairing_request(d, c) /= Mark(d, {c.of}, "expired")
  <2>1. /\ approve_connector_pairing_request(d, c)
              = [d EXCEPT ![c.of].status = "approved", ![c.of].in = o, ![c.of].to = chosen,
                          ![c.of].val = <<@[1], free>>]
        /\ ManagesCredentials(c) /\ c.of \in DOMAIN d
        /\ c.in = Nobody \/ c.in \in DOMAIN d
    BY <1>3 DEF approve_connector_pairing_request, Status, Live
  <2>2. Root(o)
    BY <2>1, ManagesIs, ManagedIs
  <2>3. IsKey(chosen) /\ chosen[1] = "workspace" /\ chosen[2] \notin U
    <3>1. CASE c.in = Nobody
      BY <3>1 DEF IsKey, Sent
    <3>2. CASE c.in /= Nobody
      <4>1. Sits(c.in, d[c.in], U) /\ c.in[1] = "workspace"
        BY <2>1, <3>2 DEF Shaped
      <4>. QED  BY <3>2, <4>1 DEF Sits, Unused, Generated, Number
    <3>. QED  BY <3>1, <3>2
  <2>4. free \in BOOLEAN
    OBVIOUS
  <2>. HIDE DEF o, chosen, free
  <2>5. PICK x : x = d[c.of]
    OBVIOUS
  <2>6. PICK f : f = [d EXCEPT ![c.of].status = "approved", ![c.of].in = o, ![c.of].to = chosen,
                                ![c.of].val = <<@[1], free>>]
    OBVIOUS
  <2>7. DOMAIN f = DOMAIN d /\ \A j \in DOMAIN d : j /= c.of => f[j] = d[j]
    BY <2>6
  <2>8. PICK y : y = f[c.of]
    OBVIOUS
  <2>9. Sits(c.of, x, U)
    BY <2>1, <2>5 DEF Shaped
  <2>10. y = [status |-> "approved", in |-> o, by |-> x.by, to |-> chosen, rev |-> x.rev,
              val |-> <<x.val[1], free>>]
    BY <2>1, <2>5, <2>6, <2>8, <2>9 DEF Sits, IsEntry
  <2>11. IsEntry(y) /\ y.in = o /\ y.to = chosen /\ y.val = <<x.val[1], free>>
    BY <2>9, <2>10, StatusesAre DEF Sits, IsEntry
  <2>12. Holding(c.of, y)
    BY <2>3, <2>4, <2>11 DEF Holding, IsWorkspace
  <2>13. Unused(c.of, y, U)
    BY <2>3, <2>9, <2>11 DEF Sits, Unused
  <2>14. Lies(c.of, y.in)
    BY <2>2, <2>11, LevelIs DEF Root, Lies
  <2>15. Sits(c.of, f[c.of], U)
    BY <2>8, <2>9, <2>11, <2>12, <2>13, <2>14 DEF Sits
  <2>16. Makes(d, f, Free, U)
    BY <1>1, <2>7, <2>15, MakesChange
  <2>. QED  BY <2>1, <2>6, <2>16
<1>. QED  BY <1>2, <1>3

\* claim_connector_authorization_code changes entries of free sections only, each of which sits
\* where it should.
LEMMA claim_connector_authorization_codeMakes ==
  ASSUME NEW d, NEW c, NEW U, Shaped(d, U), c.of[1] = "pairrequest",
         claim_connector_authorization_code(d, c) /= Refused
  PROVE  Makes(d, claim_connector_authorization_code(d, c), Free, U)
<1>1. claim_connector_authorization_code(d, c) \in
        {Mark(d, {c.of}, "expired"), Mark(d, {c.of}, "authorization_code_expired"),
         Mark(d, {c.of}, "authorization_code_issued")}
  <2>. DEFINE A == Status(d, c.of) = "pending_human_approval" /\ c.of \in c.late
              B == Status(d, c.of) \in Unclaimed /\ c.of \in c.late
              C == Status(d, c.of) = "approved" /\ c.of \notin c.late
  <2>1. claim_connector_authorization_code(d, c)
        = CASE A -> Mark(d, {c.of}, "expired")
            [] B -> Mark(d, {c.of}, "authorization_code_expired")
            [] C -> Mark(d, {c.of}, "authorization_code_issued")
            [] OTHER -> Refused
    BY DEF claim_connector_authorization_code
  <2>2. ~(A /\ B) /\ ~(B /\ C) /\ ~(A /\ C)
    BY DEF Unclaimed
  <2>. HIDE DEF A, B, C
  <2>. QED  BY <2>1, <2>2, Zenon
<1>2. Makes(d, d, Free, U) /\ c.of[1] \in Free
  BY MakesSelf DEF Free
<1>. QED  BY <1>1, <1>2, MarkFree, StatusesAre

\* exchange_connector_authorization_code changes entries of free sections only, each of which
\* sits where it should.
LEMMA exchange_connector_authorization_codeMakes ==
  ASSUME NEW d, NEW c, NEW U, Shaped(d, U), Sent(c, U), c.of[1] = "pairrequest",
         exchange_connector_authorization_code(d, c) /= Refused
  PROVE  Makes(d, exchange_connector_authorization_code(d, c), Free, U)
<1>. DEFINE p == <<"pairing", c.n>>
            k == <<"credential", c.n>>
            r == d[c.of]
            e == Mark(d, {c.of}, "exchanged")
            f == Put(e, k, New("pending_activation", p))
<1>0. PICK x : x = [New("pending_activation", r.in)
                      EXCEPT !.to = c.of, !.by = k, !.val = <<r.to, r.val[1], r.val[2], Nobody>>]
  OBVIOUS
<1>1. Makes(d, d, Free, U) /\ c.of[1] \in Free
  BY MakesSelf DEF Free
<1>2. CASE exchange_connector_authorization_code(d, c) = Mark(d, {c.of}, "authorization_code_expired")
  BY <1>1, <1>2, MarkFree, StatusesAre
<1>3. CASE exchange_connector_authorization_code(d, c) /= Mark(d, {c.of}, "authorization_code_expired")
  <2>1. /\ exchange_connector_authorization_code(d, c) = Put(f, p, x)
        /\ c.of \in DOMAIN d
    BY <1>0, <1>3 DEF exchange_connector_authorization_code, Status
  <2>2. /\ IsEntry(x) /\ x.in = r.in /\ x.to = c.of /\ x.by = k
        /\ x.val = <<r.to, r.val[1], r.val[2], Nobody>>
    BY <1>0, StatusesAre DEF New, IsEntry
  <2>3. /\ IsKey(p) /\ p[1] = "pairing" /\ p[2] = c.n
        /\ IsKey(k) /\ k[1] = "credential" /\ k[2] = c.n
    BY DEF IsKey
  <2>4. Sits(c.of, r, U)
    BY <2>1 DEF Shaped
  <2>5. Root(r.in)
    BY <2>1, RootIs, LevelIs
  <2>6. /\ IsWorkspace(r.to) /\ r.val[2] \in BOOLEAN /\ (r.val[2] => r.to[1] = "workspace")
        /\ r.to[1] = "workspace" => r.to[2] \notin U
    BY <2>4 DEF Sits, Holding, Unused
  <2>. HIDE DEF p, k, r
  <2>7. Makes(d, e, Free, U)
    BY <1>1, MarkFree, StatusesAre
  <2>8. Sits(k, New("pending_activation", p), U) /\ k[1] \in Free
    BY <2>3, NewIs, StatusesAre, LevelIs DEF Sits, Lies, Holding, Unused, Number, Sent, Free
  <2>9. Makes(d, f, Free, U)
    BY <2>3, <2>7, <2>8, MakesPut
  <2>10. /\ x.val = <<x.val[1], x.val[2], x.val[3], x.val[4]>>
         /\ x.val[1] = r.to /\ x.val[3] = r.val[2]
    BY <2>2
  <2>11. Holding(p, x)
    BY <2>2, <2>3, <2>6, <2>10 DEF Holding, Ref
  <2>12. Unused(p, x, U)
    BY <2>3, <2>6, <2>10 DEF Unused, Number, Sent
  <2>13. Sits(p, x, U) /\ p[1] \in Free
    BY <2>2, <2>3, <2>5, <2>11, <2>12, LevelIs DEF Sits, Lies, Root, Free
  <2>. HIDE DEF f
  <2>. QED  BY <2>1, <2>3, <2>9, <2>13, MakesPut
<1>. QED  BY <1>2, <1>3

\* cancel_connector_pairing_request changes entries of free sections only, each of which sits
\* where it should.
LEMMA cancel_connector_pairing_requestMakes ==
  ASSUME NEW d, NEW c, NEW U, Shaped(d, U), c.of[1] = "pairrequest",
         cancel_connector_pairing_request(d, c) /= Refused
  PROVE  Makes(d, cancel_connector_pairing_request(d, c), Free, U)
<1>1. cancel_connector_pairing_request(d, c) \in {Mark(d, {c.of}, "expired"), Mark(d, {c.of}, "canceled")}
  BY DEF cancel_connector_pairing_request
<1>2. Makes(d, d, Free, U) /\ c.of[1] \in Free
  BY MakesSelf DEF Free
<1>. QED  BY <1>1, <1>2, MarkFree, StatusesAre

\* connector_pairing_authorization_context changes entries of free sections only, each of which
\* sits where it should.
LEMMA connector_pairing_authorization_contextMakes ==
  ASSUME NEW d, NEW c, NEW U, Shaped(d, U), c.of[1] = "pairrequest",
         connector_pairing_authorization_context(d, c) /= Refused
  PROVE  Makes(d, connector_pairing_authorization_context(d, c), Free, U)
<1>1. connector_pairing_authorization_context(d, c) = Mark(d, {c.of}, "expired")
  BY DEF connector_pairing_authorization_context
<1>2. Makes(d, d, Free, U) /\ c.of[1] \in Free
  BY MakesSelf DEF Free
<1>. QED  BY <1>1, <1>2, MarkFree, StatusesAre

\* select_human_connector_company_membership changes entries of free sections only, each of
\* which sits where it should.
LEMMA select_human_connector_company_membershipMakes ==
  ASSUME NEW d, NEW c, NEW U, Shaped(d, U), Sent(c, U), c.as[1] = "session", c.of[1] = "authority",
         select_human_connector_company_membership(d, c) /= Refused
  PROVE  Makes(d, select_human_connector_company_membership(d, c), Free, U)
BY select_human_company_membershipMakes DEF select_human_connector_company_membership

---------------------------------------------------------------------------
\* activate_connector_pairing changes entries of free sections only, each of which sits where
\* it should.
LEMMA activate_connector_pairingMakes ==
  ASSUME NEW d, NEW c, NEW U, Shaped(d, U), Sent(c, U), c.as[1] = "credential", c.of[1] = "pairing",
         activate_connector_pairing(d, c) /= Refused
  PROVE  Makes(d, activate_connector_pairing(d, c), Free, U)
<1>. DEFINE p == c.of
            w == d[p].val[1]
            name == d[p].val[2]
            o == d[p].in
            project == <<"project", p[2]>>
            e == Put(d, w, New("active", o))
            f == Put(e, project, New("active", w))
            placed == IF d[p].val[3] THEN _ensure_default_meeting_rooms(f, w) ELSE d
            i == [New("active", o) EXCEPT !.val = <<name>>]
            g == Put(placed, <<"identity", c.n>>, i)
            h == Put(g, <<"agent", name>>, New("active", w))
            K == {p, c.as, d[p].to}
<1>1. Makes(d, d, Free, U) /\ c.of[1] \in Free /\ c.as[1] \in Free
  BY MakesSelf DEF Free
<1>2. \/ activate_connector_pairing(d, c) = Mark(d, {p, c.as}, "expired")
      \/ /\ activate_connector_pairing(d, c) = Mark(h, K, "active")
         /\ p \in DOMAIN d /\ w \in DOMAIN placed
  BY DEF activate_connector_pairing, Live, Status
<1>3. CASE activate_connector_pairing(d, c) = Mark(d, {p, c.as}, "expired")
  BY <1>1, <1>3, MarkFree, StatusesAre
<1>4. CASE /\ activate_connector_pairing(d, c) = Mark(h, K, "active")
           /\ p \in DOMAIN d /\ w \in DOMAIN placed
  <2>1. Sits(p, d[p], U)
    BY <1>4 DEF Shaped
  <2>2. Root(o)
    BY <1>4, RootIs, LevelIs
  <2>3. /\ IsWorkspace(w) /\ d[p].val[3] \in BOOLEAN /\ (d[p].val[3] => w[1] = "workspace")
        /\ w[1] = "workspace" => w[2] \notin U
    BY <2>1 DEF Sits, Holding, Unused
  <2>4. p[2] \notin U
    BY <2>1 DEF Sits, Unused, Generated, Number
  <2>5. IsKey(project) /\ project[1] = "project" /\ project[2] = p[2]
    BY DEF IsKey
  <2>. HIDE DEF project
  <2>6. ASSUME d[p].val[3] PROVE Makes(d, f, Free, U) /\ w[1] = "workspace" /\ IsKey(w)
    <3>1. w[1] = "workspace" /\ w[2] \notin U /\ w /= Nobody
      BY <2>3, <2>6, NobodyIsNoKey
    <3>2. IsKey(w)
      BY <2>3, <3>1 DEF IsWorkspace
    <3>. HIDE DEF w, o
    <3>3. Sits(w, New("active", o), U) /\ w[1] \in Free
      BY <2>2, <3>1, <3>2, NewIs, StatusesAre, SitsIs, LevelIs DEF Root, Lies, Number, Free
    <3>4. Makes(d, e, Free, U)
      BY <1>1, <3>1, <3>3, MakesPut
    <3>5. Sits(project, New("active", w), U) /\ project[1] \in Free
      BY <2>4, <2>5, <3>1, <3>2, NewIs, StatusesAre, SitsIs, LevelIs DEF Lies, Number, Free
    <3>. HIDE DEF e
    <3>6. Makes(d, f, Free, U)
      BY <2>5, <3>4, <3>5, MakesPut
    <3>. QED  BY <3>1, <3>2, <3>6
  <2>. HIDE DEF f
  <2>7. Makes(d, placed, Free, U)
    <3>1. CASE d[p].val[3]
      <4>1. placed = _ensure_default_meeting_rooms(f, w)
        BY <3>1
      <4>. HIDE DEF w, placed
      <4>. QED  BY <2>6, <3>1, <4>1, MakesRooms
    <3>2. CASE ~d[p].val[3]
      BY <1>1, <3>2
    <3>. QED  BY <3>1, <3>2
  <2>8. w \in DOMAIN placed /\ IsWorkspace(w)
    BY <1>4, <2>3
  <2>9. K \cap DOMAIN d \subseteq {p, c.as} \cup {k \in DOMAIN d : k[1] = "pairrequest"}
    BY <1>4, ConnectorsFree, ShapeIs DEF Ref
  <2>10. d[p].to = Nobody \/ d[p].to[1] = "pairrequest"
    BY <1>4, ConnectorsFree DEF Ref
  <2>. HIDE DEF placed, o, w, name
  <2>11. Makes(d, g, Free, U)
    BY <2>2, <2>7, IdentityPutMakes DEF Sent
  <2>12. IsKey(w) /\ w[1] = "workspace"
    BY <2>7, <2>8, ShapeIs DEF IsWorkspace, Makes
  <2>. HIDE DEF g
  <2>13. Makes(d, h, Free, U)
    BY <2>11, <2>12, AgentPutMakes
  <2>14. \A k \in K : k[1] \in Free \/ k \notin DOMAIN h
    BY <1>1, <2>10, <2>13, ShapeIs DEF Makes, Free
  <2>. HIDE DEF h, K
  <2>. QED  BY <1>4, <2>13, <2>14, MarkFree, StatusesAre
<1>. QED  BY <1>2, <1>3, <1>4

\* prepare_connector_rotation changes entries of free sections only, each of which sits where
\* it should.
LEMMA prepare_connector_rotationMakes ==
  ASSUME NEW d, NEW c, NEW U, Shaped(d, U), Sent(c, U), c.of[1] = "pairing",
         prepare_connector_rotation(d, c) /= Refused
  PROVE  Makes(d, prepare_connector_rotation(d, c), Free, U)
<1>. DEFINE p == c.of
            k == <<"credential", c.n>>
            r == <<"rotation", c.n>>
            e == Put(d, k, New("pending_activation", p))
<1>0. PICK x : x = [New("pending_activation", p) EXCEPT !.by = d[p].by, !.to = k, !.val = <<c.key>>]
  OBVIOUS
<1>1. prepare_connector_rotation(d, c) = Put(e, r, x) /\ p \in DOMAIN d
  BY <1>0 DEF prepare_connector_rotation, Live, Status
<1>2. IsEntry(x) /\ x.in = p /\ x.by = d[p].by /\ x.to = k
  BY <1>0, StatusesAre DEF New, IsEntry
<1>3. /\ IsKey(k) /\ k[1] = "credential" /\ k[2] = c.n
      /\ IsKey(r) /\ r[1] = "rotation" /\ r[2] = c.n /\ IsKey(p)
  BY DEF IsKey, Sent
<1>4. Ref(d[p].by, "credential")
  BY <1>1, ConnectorsFree
<1>. HIDE DEF k, r
<1>5. Sits(k, New("pending_activation", p), U) /\ k[1] \in Free
  BY <1>3, NewIs, StatusesAre, LevelIs DEF Sits, Lies, Holding, Unused, Number, Sent, Free
<1>6. Makes(d, e, Free, U)
  BY <1>3, <1>5, MakesSelf, MakesPut
<1>7. Sits(r, x, U) /\ r[1] \in Free
  BY <1>2, <1>3, <1>4, LevelIs DEF Sits, Lies, Holding, Ref, Unused, Number, Sent, Free
<1>. HIDE DEF e
<1>. QED  BY <1>1, <1>3, <1>6, <1>7, MakesPut

\* A pairing is given another credential, and another revocation key.
LEMMA PairingNames ==
  ASSUME NEW d, NEW e, NEW U, Makes(d, e, Free, U), NEW p, p[1] = "pairing",
         NEW k, k[1] = "credential"
  PROVE  Makes(d, [e EXCEPT ![p].by = k], Free, U)
<1>0. PICK f : f = [e EXCEPT ![p].by = k]
  OBVIOUS
<1>1. DOMAIN f = DOMAIN e /\ \A j \in DOMAIN e : j /= p => f[j] = e[j]
  BY <1>0
<1>2. ASSUME p \in DOMAIN e PROVE Sits(p, f[p], U)
  <2>0. Sits(p, e[p], U)
    BY <1>2 DEF Makes, Shaped
  <2>1. PICK x : x = e[p]
    OBVIOUS
  <2>2. f[p] = [x EXCEPT !.by = k]
    BY <1>0, <1>2, <2>1
  <2>3. PICK y : y = f[p]
    OBVIOUS
  <2>4. y = [status |-> x.status, in |-> x.in, by |-> k, to |-> x.to, rev |-> x.rev, val |-> x.val]
    BY <2>0, <2>1, <2>2, <2>3 DEF Sits, IsEntry
  <2>5. IsEntry(y) /\ y.in = x.in /\ y.by = k /\ y.to = x.to /\ y.val = x.val
    BY <2>0, <2>1, <2>4 DEF Sits, IsEntry
  <2>8. Holding(p, y) /\ Unused(p, y, U)
    BY <2>0, <2>1, <2>5 DEF Sits, Holding, Ref, Unused
  <2>. QED  BY <2>0, <2>1, <2>3, <2>5, <2>8 DEF Sits
<1>3. p[1] \in Free
  BY DEF Free
<1>4. Makes(d, f, Free, U)
  BY <1>1, <1>2, <1>3, MakesChange
<1>. QED  BY <1>0, <1>4

\* A pairing may be given another key.
LEMMA PairingKeyed ==
  ASSUME NEW d, NEW e, NEW U, Makes(d, e, Free, U), NEW p, p[1] = "pairing", NEW key
  PROVE  Makes(d, [e EXCEPT ![p].val[4] = key], Free, U)
<1>0. PICK f : f = [e EXCEPT ![p].val[4] = key]
  OBVIOUS
<1>1. DOMAIN f = DOMAIN e /\ \A j \in DOMAIN e : j /= p => f[j] = e[j]
  BY <1>0
<1>2. ASSUME p \in DOMAIN e PROVE Sits(p, f[p], U)
  <2>0. Sits(p, e[p], U)
    BY <1>2 DEF Makes, Shaped
  <2>1. PICK x : x = e[p]
    OBVIOUS
  <2>6. PICK v : v = [x.val EXCEPT ![4] = key]
    OBVIOUS
  <2>2. f[p] = [x EXCEPT !.val = v]
    BY <1>0, <1>2, <2>1, <2>6
  <2>3. PICK y : y = f[p]
    OBVIOUS
  <2>4. y = [status |-> x.status, in |-> x.in, by |-> x.by, to |-> x.to, rev |-> x.rev, val |-> v]
    BY <2>0, <2>1, <2>2, <2>3 DEF Sits, IsEntry
  <2>5. IsEntry(y) /\ y.in = x.in /\ y.by = x.by /\ y.to = x.to /\ y.val = v
    BY <2>0, <2>1, <2>4 DEF Sits, IsEntry
  <2>7. x.val = <<x.val[1], x.val[2], x.val[3], x.val[4]>>
    BY <2>0, <2>1 DEF Sits, Holding
  <2>9. v = <<x.val[1], x.val[2], x.val[3], key>>
    BY <2>6, <2>7
  <2>10. v = <<v[1], v[2], v[3], v[4]>> /\ v[1] = x.val[1] /\ v[3] = x.val[3]
    BY <2>9
  <2>8. Holding(p, y) /\ Unused(p, y, U)
    BY <2>0, <2>1, <2>5, <2>10 DEF Sits, Holding, Ref, Unused
  <2>. QED  BY <2>0, <2>1, <2>3, <2>5, <2>8 DEF Sits
<1>3. p[1] \in Free
  BY DEF Free
<1>4. Makes(d, f, Free, U)
  BY <1>1, <1>2, <1>3, MakesChange
<1>. QED  BY <1>0, <1>4

\* activate_connector_rotation changes entries of free sections only, each of which sits where
\* it should.
LEMMA activate_connector_rotationMakes ==
  ASSUME NEW d, NEW c, NEW U, Shaped(d, U), c.as[1] = "credential", c.of[1] = "rotation",
         activate_connector_rotation(d, c) /= Refused
  PROVE  Makes(d, activate_connector_rotation(d, c), Free, U)
<1>. DEFINE r == c.of
            p == d[r].in
            e == Mark(d, {r, c.as}, "active")
            f == Mark(e, {d[r].by}, "superseded")
<1>1. Makes(d, d, Free, U) /\ r[1] \in Free /\ c.as[1] \in Free
  BY MakesSelf DEF Free
<1>2. /\ r \in DOMAIN d
      /\ \/ activate_connector_rotation(d, c) = Mark(d, {r, c.as}, "expired")
         \/ activate_connector_rotation(d, c) = [f EXCEPT ![p].by = c.as]
  BY DEF activate_connector_rotation, Status
<1>3. CASE activate_connector_rotation(d, c) = Mark(d, {r, c.as}, "expired")
  BY <1>1, <1>3, MarkFree, StatusesAre
<1>4. CASE activate_connector_rotation(d, c) = [f EXCEPT ![p].by = c.as]
  <2>1. p[1] = "pairing" /\ Ref(d[r].by, "credential")
    BY <1>2, ConnectorsFree
  <2>2. Makes(d, e, Free, U)
    BY <1>1, MarkFree, StatusesAre
  <2>3. d[r].by[1] \in Free \/ d[r].by \notin DOMAIN e
    BY <2>1, <2>2, NobodyFree DEF Makes, Free
  <2>. HIDE DEF e
  <2>4. Makes(d, f, Free, U)
    BY <2>2, <2>3, MarkFree, StatusesAre
  <2>. HIDE DEF f, p
  <2>5. Makes(d, [f EXCEPT ![p].by = c.as], Free, U)
    BY <2>1, <2>4, PairingNames
  <2>. QED  BY <1>4, <2>5
<1>. QED  BY <1>2, <1>3, <1>4

---------------------------------------------------------------------------
\* A pairing ends with its credentials and rotations.
LEMMA EndsMakes ==
  ASSUME NEW d, NEW U, Shaped(d, U), NEW p, p[1] = "pairing", NEW s \in EntryStatuses, NEW kept
  PROVE  Makes(d, Ends(d, p, s, kept), Free, U)
<1>. DEFINE theirs == {k \in Of(d, p) : d[k].status \notin kept}
<1>1. \A k \in {p} \cup theirs : k[1] \in Free
  BY DEF Of, Section, Free
<1>2. Makes(d, d, Free, U)
  BY MakesSelf
<1>3. Ends(d, p, s, kept) = Mark(d, {p} \cup theirs, s)
  BY DEF Ends
<1>. HIDE DEF theirs
<1>. QED  BY <1>1, <1>2, <1>3, MarkFree

\* revoke_connector_pairing changes entries of free sections only, each of which sits where it
\* should.
LEMMA revoke_connector_pairingMakes ==
  ASSUME NEW d, NEW c, NEW U, Shaped(d, U), c.of[1] = "pairing",
         revoke_connector_pairing(d, c) /= Refused
  PROVE  Makes(d, revoke_connector_pairing(d, c), Free, U)
<1>. DEFINE e == Ends(d, c.of, "revoked", {"revoked", "superseded", "expired"})
<1>1. revoke_connector_pairing(d, c) = [e EXCEPT ![c.of].val[4] = c.key]
  BY DEF revoke_connector_pairing
<1>2. Makes(d, e, Free, U)
  BY EndsMakes, StatusesAre
<1>. HIDE DEF e
<1>3. Makes(d, [e EXCEPT ![c.of].val[4] = c.key], Free, U)
  BY <1>2, PairingKeyed
<1>. QED  BY <1>1, <1>3

\* disconnect_connector_pairing changes entries of free sections only, each of which sits where
\* it should.
LEMMA disconnect_connector_pairingMakes ==
  ASSUME NEW d, NEW c, NEW U, Shaped(d, U), c.of[1] = "pairing",
         disconnect_connector_pairing(d, c) /= Refused
  PROVE  Makes(d, disconnect_connector_pairing(d, c), Free, U)
BY EndsMakes, StatusesAre DEF disconnect_connector_pairing

\* cancel_connector_pairing changes entries of free sections only, each of which sits where it
\* should.
LEMMA cancel_connector_pairingMakes ==
  ASSUME NEW d, NEW c, NEW U, Shaped(d, U), c.of[1] = "pairing",
         cancel_connector_pairing(d, c) /= Refused
  PROVE  Makes(d, cancel_connector_pairing(d, c), Free, U)
<1>. DEFINE K == {c.of} \cup {k \in Of(d, c.of) : d[k].status = "pending_activation"}
            R == {d[c.of].to} \cap DOMAIN d
            e == Mark(d, K, "canceled")
<1>1. cancel_connector_pairing(d, c) = Mark(e, R, "canceled") /\ c.of \in DOMAIN d
  BY DEF cancel_connector_pairing, Status
<1>2. (\A k \in K : k[1] \in Free) /\ \A k \in R : k[1] \in Free
  BY <1>1, ConnectorsFree, ShapeIs DEF Of, Section, Free, Ref
<1>3. Makes(d, d, Free, U)
  BY MakesSelf
<1>. HIDE DEF K, R
<1>4. Makes(d, e, Free, U)
  BY <1>2, <1>3, MarkFree, StatusesAre
<1>. HIDE DEF e
<1>. QED  BY <1>1, <1>2, <1>4, MarkFree, StatusesAre

(* What the records hold besides, so that no method breaks what they tell. *)

ClaimsInv(d) ==
    /\ \A k \in DOMAIN d : k[1] = "claim" =>
          /\ d[k].in[1] = "uaihead"
          /\ d[k].status = "active" => d[k].in \in DOMAIN d /\ d[d[k].in].to = k
    /\ \A h \in DOMAIN d : h[1] = "uaihead" /\ d[h].to /= Nobody =>
          /\ d[h].to \in DOMAIN d /\ d[h].to[1] = "claim"
          /\ d[d[h].to].status = "active" /\ d[d[h].to].in = h

SyncInv(d) ==
    /\ \A r, s \in DOMAIN d : r[1] = "revision" /\ s[1] = "revision" /\ d[r].rev = d[s].rev => r = s
    /\ \A h \in DOMAIN d : h[1] = "syncmemory" =>
          /\ d[h].to \in DOMAIN d /\ d[h].to[1] = "revision" /\ d[h].rev = d[d[h].to].rev
          /\ d[d[h].to].in = h
          /\ \A r \in DOMAIN d : r[1] = "revision" /\ d[r].in = h /\ d[r].status = "applied" =>
                d[r].rev <= d[h].rev
    /\ \E b \in Nat : \A r \in DOMAIN d : r[1] = "revision" => d[r].rev <= b

PackInv(d) ==
    /\ \A k \in DOMAIN d : k[1] = "record" =>
          d[k].in = <<"package", k[2][1]>> /\ d[k].in \in DOMAIN d
    /\ \A p \in DOMAIN d : p[1] = "package" =>
          ((d[p].status = "ready") <=> \A n \in RequiredPaths : <<"record", <<p[2], n>>>> \in DOMAIN d)

ReviewInv(d) ==
    \A r \in DOMAIN d : r[1] = "review" =>
       /\ d[r].to = <<"memory", r[2]>> /\ d[r].to \in DOMAIN d /\ d[d[r].to].in = d[r].in
       /\ d[r].status \in {"pending", "promoted"} => d[d[r].to].status = "active"
       /\ d[r].status \notin {"pending", "promoted"} => d[d[r].to].status = d[r].status

MessageInv(d) ==
    /\ \A r \in DOMAIN d : r[1] = "receipt" => d[r].in[1] = "notification" /\ d[r].in \in DOMAIN d
    /\ \A n \in DOMAIN d : n[1] = "notification" => d[n].in[1] = "message"
    /\ \A n \in DOMAIN d : n[1] = "notification" =>
          ((d[n].status = "read") <=> \E r \in DOMAIN d : r[1] = "receipt" /\ d[r].in = n)

RoutingInv(d) ==
    \A k \in DOMAIN d : k[1] = "routing" =>
       /\ d[k].to[1] = "meeting" /\ d[k].to \in DOMAIN d
       /\ d[k].in[1] = "room" /\ d[k].in \in DOMAIN d
       /\ d[d[k].to].in[1] = "room" /\ d[d[k].to].in \in DOMAIN d
       /\ d[d[k].to].in[2][1] = d[k].in[2][1]

ApprovalInv(d) ==
    \A a \in DOMAIN d : a[1] = "approval" =>
       /\ d[a].in = <<"server", a[2]>> /\ d[a].in \in DOMAIN d
       /\ d[a].val /= <<>> => d[a].val[1] = d[d[a].in].rev /\ d[a].val[2] = d[d[a].in].val

RateInv(d) ==
    /\ \A k \in DOMAIN d : k[1] = "rate" => d[k].rev <= RateLimit /\ d[k].in = Nobody
    /\ IsFiniteSet(Sources(d)) /\ Cardinality(Sources(d)) <= SourceCapacity

Records(d) ==
    /\ ClaimsInv(d) /\ SyncInv(d) /\ PackInv(d) /\ ReviewInv(d)
    /\ MessageInv(d) /\ RoutingInv(d) /\ ApprovalInv(d) /\ RateInv(d)

\* d and e agree on the sections S.
Same(d, e, S) ==
    \A k : k[1] \in S => (k \in DOMAIN d <=> k \in DOMAIN e) /\ (k \in DOMAIN d => e[k] = d[k])

\* A document with the same claims and heads keeps what is said of them.
LEMMA ClaimsStay ==
  ASSUME NEW d, NEW e, Same(d, e, {"claim", "uaihead"}), ClaimsInv(d)
  PROVE  ClaimsInv(e)
BY DEF Same, ClaimsInv

\* A document with the same revisions and memories keeps what is said of them.
LEMMA SyncStays ==
  ASSUME NEW d, NEW e, Same(d, e, {"revision", "syncmemory"}), SyncInv(d)
  PROVE  SyncInv(e)
<1>1. ASSUME NEW k, k[1] \in {"revision", "syncmemory"}
      PROVE  (k \in DOMAIN d <=> k \in DOMAIN e) /\ (k \in DOMAIN d => e[k] = d[k])
  BY <1>1 DEF Same
<1>2. \A r, s \in DOMAIN e : r[1] = "revision" /\ s[1] = "revision" /\ e[r].rev = e[s].rev => r = s
  BY <1>1 DEF SyncInv
<1>3. ASSUME NEW h \in DOMAIN e, h[1] = "syncmemory"
      PROVE  /\ e[h].to \in DOMAIN e /\ e[h].to[1] = "revision" /\ e[h].rev = e[e[h].to].rev
             /\ e[e[h].to].in = h
             /\ \A r \in DOMAIN e : r[1] = "revision" /\ e[r].in = h /\ e[r].status = "applied" =>
                   e[r].rev <= e[h].rev
  BY <1>1, <1>3 DEF SyncInv
<1>4. \E b \in Nat : \A r \in DOMAIN e : r[1] = "revision" => e[r].rev <= b
  BY <1>1 DEF SyncInv
<1>. QED  BY <1>2, <1>3, <1>4 DEF SyncInv

\* A document with the same packages and records keeps what is said of them.
LEMMA PackStays ==
  ASSUME NEW d, NEW e, Same(d, e, {"package", "record"}), PackInv(d)
  PROVE  PackInv(e)
<1>1. ASSUME NEW k, k[1] \in {"package", "record"}
      PROVE  (k \in DOMAIN d <=> k \in DOMAIN e) /\ (k \in DOMAIN d => e[k] = d[k])
  BY <1>1 DEF Same
<1>2. ASSUME NEW k \in DOMAIN e, k[1] = "record"
      PROVE  e[k].in = <<"package", k[2][1]>> /\ e[k].in \in DOMAIN e
  BY <1>1, <1>2 DEF PackInv
<1>3. ASSUME NEW p \in DOMAIN e, p[1] = "package"
      PROVE  (e[p].status = "ready") <=> \A n \in RequiredPaths : <<"record", <<p[2], n>>>> \in DOMAIN e
  <2>1. \A n : <<"record", <<p[2], n>>>> \in DOMAIN d <=> <<"record", <<p[2], n>>>> \in DOMAIN e
    BY <1>1
  <2>2. p \in DOMAIN d /\ e[p] = d[p]
    BY <1>1, <1>3
  <2>3. (d[p].status = "ready") <=> \A n \in RequiredPaths : <<"record", <<p[2], n>>>> \in DOMAIN d
    BY <1>3, <2>2 DEF PackInv
  <2>. QED  BY <2>1, <2>2, <2>3
<1>. QED  BY <1>2, <1>3 DEF PackInv

\* A document with the same memories and reviews keeps what is said of them.
LEMMA ReviewStays ==
  ASSUME NEW d, NEW e, Same(d, e, {"memory", "review"}), ReviewInv(d)
  PROVE  ReviewInv(e)
<1>1. ASSUME NEW k, k[1] \in {"memory", "review"}
      PROVE  (k \in DOMAIN d <=> k \in DOMAIN e) /\ (k \in DOMAIN d => e[k] = d[k])
  BY <1>1 DEF Same
<1>2. ASSUME NEW r \in DOMAIN e, r[1] = "review"
      PROVE  r \in DOMAIN d /\ e[r] = d[r] /\ d[r].to[1] = "memory" /\ e[d[r].to] = d[d[r].to]
             /\ d[r].to \in DOMAIN e
  BY <1>1, <1>2 DEF ReviewInv
<1>. QED  BY <1>2 DEF ReviewInv

\* A document with the same notifications and receipts keeps what is said of them.
LEMMA MessageStays ==
  ASSUME NEW d, NEW e, Same(d, e, {"notification", "receipt"}), MessageInv(d)
  PROVE  MessageInv(e)
<1>1. ASSUME NEW k, k[1] \in {"notification", "receipt"}
      PROVE  (k \in DOMAIN d <=> k \in DOMAIN e) /\ (k \in DOMAIN d => e[k] = d[k])
  BY <1>1 DEF Same
<1>2. \A r \in DOMAIN e : r[1] = "receipt" => e[r].in[1] = "notification" /\ e[r].in \in DOMAIN e
  BY <1>1 DEF MessageInv
<1>3. \A n \in DOMAIN e : n[1] = "notification" => e[n].in[1] = "message"
  BY <1>1 DEF MessageInv
<1>4. ASSUME NEW n \in DOMAIN e, n[1] = "notification"
      PROVE  (e[n].status = "read") <=> \E r \in DOMAIN e : r[1] = "receipt" /\ e[r].in = n
  <2>1. (d[n].status = "read") <=> \E r \in DOMAIN d : r[1] = "receipt" /\ d[r].in = n
    BY <1>1, <1>4 DEF MessageInv
  <2>2. (\E r \in DOMAIN d : r[1] = "receipt" /\ d[r].in = n)
        <=> \E r \in DOMAIN e : r[1] = "receipt" /\ e[r].in = n
    BY <1>1
  <2>. QED  BY <1>1, <1>4, <2>1, <2>2
<1>. QED  BY <1>2, <1>3, <1>4 DEF MessageInv

\* A document with the same messages and decisions, and no room less, keeps what is said of
\* them.
LEMMA RoutingStays ==
  ASSUME NEW d, NEW e, Same(d, e, {"meeting", "routing"}), RoutingInv(d),
         \A k \in DOMAIN d : k[1] = "room" => k \in DOMAIN e
  PROVE  RoutingInv(e)
<1>1. ASSUME NEW k, k[1] \in {"meeting", "routing"}
      PROVE  (k \in DOMAIN d <=> k \in DOMAIN e) /\ (k \in DOMAIN d => e[k] = d[k])
  BY <1>1 DEF Same
<1>2. ASSUME NEW r \in DOMAIN e, r[1] = "routing"
      PROVE  r \in DOMAIN d /\ e[r] = d[r] /\ e[d[r].to] = d[d[r].to] /\ d[r].to \in DOMAIN e
  BY <1>1, <1>2 DEF RoutingInv
<1>. QED  BY <1>2 DEF RoutingInv

\* A document with the same servers and approvals keeps what is said of them.
LEMMA ApprovalStays ==
  ASSUME NEW d, NEW e, Same(d, e, {"server", "approval"}), ApprovalInv(d)
  PROVE  ApprovalInv(e)
<1>1. ASSUME NEW k, k[1] \in {"server", "approval"}
      PROVE  (k \in DOMAIN d <=> k \in DOMAIN e) /\ (k \in DOMAIN d => e[k] = d[k])
  BY <1>1 DEF Same
<1>2. ASSUME NEW r \in DOMAIN e, r[1] = "approval"
      PROVE  r \in DOMAIN d /\ e[r] = d[r] /\ e[d[r].in] = d[d[r].in] /\ d[r].in \in DOMAIN e
  BY <1>1, <1>2 DEF ApprovalInv
<1>. QED  BY <1>2 DEF ApprovalInv

\* A document with the same windows keeps what is said of them.
LEMMA RateStays ==
  ASSUME NEW d, NEW e, Same(d, e, {"rate"}), RateInv(d)
  PROVE  RateInv(e)
<1>1. Sources(e) = Sources(d)
  BY DEF Same, Sources, Section
<1>2. \A k \in DOMAIN e : k[1] = "rate" => e[k].rev <= RateLimit /\ e[k].in = Nobody
  BY DEF Same, RateInv
<1>. QED  BY <1>1, <1>2 DEF RateInv

\* The sections of the records.
Bound == {"claim", "uaihead", "revision", "syncmemory", "package", "record", "memory", "review",
          "notification", "receipt", "meeting", "routing", "server", "approval", "rate"}

\* Two documents are the same outside the sections that were changed.
LEMMA SameIs ==
  ASSUME NEW d, NEW e, NEW X, NEW U, Makes(d, e, X, U)
  PROVE  /\ \A S : S \cap X = {} /\ "room" \notin S => Same(d, e, S)
         /\ \A k \in DOMAIN d : k[1] = "room" => k \in DOMAIN e
<1>1. ASSUME NEW S, S \cap X = {}, "room" \notin S PROVE Same(d, e, S)
  BY <1>1 DEF Same, Makes, Changes
<1>. QED  BY <1>1 DEF Makes, Changes

\* A method that writes the other sections only keeps what the records tell.
LEMMA RecordsStay ==
  ASSUME NEW d, NEW e, NEW U, Makes(d, e, Free, U), Records(d)
  PROVE  Records(e)
<1>1. /\ Same(d, e, {"claim", "uaihead"}) /\ Same(d, e, {"revision", "syncmemory"})
      /\ Same(d, e, {"package", "record"}) /\ Same(d, e, {"memory", "review"})
      /\ Same(d, e, {"notification", "receipt"}) /\ Same(d, e, {"meeting", "routing"})
      /\ Same(d, e, {"server", "approval"}) /\ Same(d, e, {"rate"})
  BY SameIs DEF Free
<1>2. \A k \in DOMAIN d : k[1] = "room" => k \in DOMAIN e
  BY SameIs
<1>3. ClaimsInv(e)
  BY <1>1, ClaimsStay DEF Records
<1>4. SyncInv(e)
  BY <1>1, SyncStays DEF Records
<1>5. PackInv(e)
  BY <1>1, PackStays DEF Records
<1>6. ReviewInv(e)
  BY <1>1, ReviewStays DEF Records
<1>7. MessageInv(e)
  BY <1>1, MessageStays DEF Records
<1>8. RoutingInv(e)
  BY <1>1, <1>2, RoutingStays DEF Records
<1>9. ApprovalInv(e)
  BY <1>1, ApprovalStays DEF Records
<1>10. RateInv(e)
  BY <1>1, RateStays DEF Records
<1>. QED  BY <1>3, <1>4, <1>5, <1>6, <1>7, <1>8, <1>9, <1>10 DEF Records

\* A call that changes claims and heads keeps the other records.
LEMMA ClaimsRecords ==
  ASSUME NEW d, NEW e, NEW U, Makes(d, e, {"claim", "uaihead"}, U), Records(d), ClaimsInv(e)
  PROVE  Records(e)
<1>1. /\ Same(d, e, {"revision", "syncmemory"})
      /\ Same(d, e, {"package", "record"}) /\ Same(d, e, {"memory", "review"})
      /\ Same(d, e, {"notification", "receipt"}) /\ Same(d, e, {"meeting", "routing"})
      /\ Same(d, e, {"server", "approval"}) /\ Same(d, e, {"rate"})
      /\ \A k \in DOMAIN d : k[1] = "room" => k \in DOMAIN e
  BY SameIs
<1>2. SyncInv(e) /\ PackInv(e) /\ ReviewInv(e)
  BY <1>1, SyncStays, PackStays, ReviewStays DEF Records
<1>3. MessageInv(e) /\ RoutingInv(e) /\ ApprovalInv(e) /\ RateInv(e)
  BY <1>1, MessageStays, RoutingStays, ApprovalStays, RateStays DEF Records
<1>. QED  BY <1>2, <1>3 DEF Records

\* A marked entry of a document sits where it sat and keeps its links.
LEMMA MarkIsSits ==
  ASSUME NEW d, NEW U, Shaped(d, U), NEW k \in DOMAIN d, NEW s \in EntryStatuses
  PROVE  LET y == [d[k] EXCEPT !.status = s]
         IN Sits(k, y, U) /\ y.status = s /\ y.in = d[k].in /\ y.by = d[k].by /\ y.to = d[k].to
            /\ y.rev = d[k].rev /\ y.val = d[k].val
<1>1. Sits(k, d[k], U) /\ IsEntry(d[k])
  BY DEF Shaped, Sits
<1>. QED  BY <1>1, MarkSits, MarkedEntry

\* The sweep of overdue claims ends them together with what their heads say.
LEMMA ExpireIs ==
  ASSUME NEW d, NEW c, NEW U, Shaped(d, U), ClaimsInv(d)
  PROVE  LET e == _expire_uai_edit_claims_data(d, c)
         IN /\ Makes(d, e, {"claim", "uaihead"}, U) /\ ClaimsInv(e) /\ DOMAIN e = DOMAIN d
            /\ \A k \in DOMAIN d : e[k].in = d[k].in
<1>. DEFINE ended == {k \in Section(d, "claim") \cap c.late : d[k].status = "active"}
            freed == [k \in DOMAIN d |->
                    IF k[1] = "uaihead" /\ d[k].to \in ended
                    THEN [d[k] EXCEPT !.to = Nobody] ELSE d[k]]
            e == Mark(freed, ended, "expired")
<1>0. \A k \in ended : k \in DOMAIN d /\ k[1] = "claim" /\ d[k].status = "active"
  BY DEF Section
<1>1. /\ DOMAIN freed = DOMAIN d
      /\ \A k \in DOMAIN d : k[1] = "uaihead" /\ d[k].to \in ended =>
            freed[k] = [d[k] EXCEPT !.to = Nobody]
      /\ \A k \in DOMAIN d : ~(k[1] = "uaihead" /\ d[k].to \in ended) => freed[k] = d[k]
  OBVIOUS
<1>. HIDE DEF ended, freed
<1>2. ASSUME NEW k \in DOMAIN d, k[1] = "uaihead"
      PROVE  LET y == [d[k] EXCEPT !.to = Nobody]
             IN Sits(k, y, U) /\ y.status = d[k].status /\ y.in = d[k].in /\ y.to = Nobody
  <2>0. PICK y : y = [d[k] EXCEPT !.to = Nobody]
    OBVIOUS
  <2>1. IsEntry(d[k]) /\ Lies(k, d[k].in) /\ IsKey(k)
    BY ShapeIs
  <2>2. y = [status |-> d[k].status, in |-> d[k].in, by |-> d[k].by, to |-> Nobody,
             rev |-> d[k].rev, val |-> d[k].val]
    BY <2>0, <2>1 DEF IsEntry
  <2>3. IsEntry(y) /\ y.in = d[k].in /\ y.status = d[k].status /\ y.to = Nobody
    BY <2>1, <2>2 DEF IsEntry
  <2>4. Sits(k, y, U)
    BY <1>2, <2>1, <2>3, SitsIs, LevelIs DEF Generated
  <2>. QED  BY <2>0, <2>3, <2>4
<1>3. Makes(d, freed, {"claim", "uaihead"}, U)
  <2>1. Makes(d, d, {"claim", "uaihead"}, U)
    BY MakesSelf
  <2>2. \A j \in DOMAIN d : j[1] \in Lasting => j \in DOMAIN freed /\ SameLinks(d[j], freed[j])
    BY <1>1 DEF SameLinks, Lasting
  <2>. QED  BY <1>1, <1>2, <2>1, <2>2, Remake
<1>4. Makes(d, e, {"claim", "uaihead"}, U)
  BY <1>0, <1>3, MakesMark, StatusesAre
<1>5. /\ DOMAIN e = DOMAIN d
      /\ \A k \in ended : /\ e[k].status = "expired" /\ e[k].in = d[k].in
      /\ \A k \in DOMAIN d : k[1] = "uaihead" /\ d[k].to \in ended =>
            e[k].to = Nobody /\ e[k].in = d[k].in
      /\ \A k \in DOMAIN d : ~(k[1] = "uaihead" /\ d[k].to \in ended) /\ k \notin ended => e[k] = d[k]
  <2>1. /\ DOMAIN e = DOMAIN d
        /\ \A k \in DOMAIN d \cap ended : e[k] = [freed[k] EXCEPT !.status = "expired"]
        /\ \A k \in DOMAIN d \ ended : e[k] = freed[k]
    BY <1>1, MarkIs
  <2>2. \A k \in ended : k \in DOMAIN d /\ freed[k] = d[k]
    BY <1>0, <1>1
  <2>3. \A k \in ended : [d[k] EXCEPT !.status = "expired"].status = "expired"
                         /\ [d[k] EXCEPT !.status = "expired"].in = d[k].in
    BY <2>2, MarkIsSits, StatusesAre
  <2>. HIDE DEF e
  <2>4. \A k \in ended : e[k].status = "expired" /\ e[k].in = d[k].in
    <3>. SUFFICES ASSUME NEW k \in ended PROVE e[k].status = "expired" /\ e[k].in = d[k].in
      OBVIOUS
    <3>1. e[k] = [d[k] EXCEPT !.status = "expired"]
      BY <2>1, <2>2
    <3>. QED  BY <2>3, <3>1
  <2>5. ASSUME NEW k \in DOMAIN d, k[1] = "uaihead", d[k].to \in ended
        PROVE  e[k].to = Nobody /\ e[k].in = d[k].in
    <3>1. k \notin ended /\ e[k] = freed[k] /\ freed[k] = [d[k] EXCEPT !.to = Nobody]
      BY <1>0, <1>1, <2>1, <2>5
    <3>. QED  BY <1>2, <2>5, <3>1
  <2>6. ASSUME NEW k \in DOMAIN d, ~(k[1] = "uaihead" /\ d[k].to \in ended), k \notin ended
        PROVE  e[k] = d[k]
    BY <1>1, <2>1, <2>6
  <2>. QED  BY <2>1, <2>4, <2>5, <2>6
<1>. HIDE DEF e
<1>6. ClaimsInv(e)
  <2>1. ASSUME NEW k \in DOMAIN e, k[1] = "claim"
        PROVE  /\ e[k].in[1] = "uaihead"
               /\ e[k].status = "active" => e[k].in \in DOMAIN e /\ e[e[k].in].to = k
    <3>1. CASE k \in ended
      BY <1>0, <1>5, <3>1, <2>1 DEF ClaimsInv
    <3>2. CASE k \notin ended
      <4>1. e[k] = d[k] /\ k \in DOMAIN d /\ d[k].in[1] = "uaihead"
        BY <1>5, <2>1, <3>2 DEF ClaimsInv
      <4>2. ASSUME d[k].status = "active" PROVE d[k].in \in DOMAIN d /\ e[d[k].in].to = k
        <5>1. d[k].in \in DOMAIN d /\ d[d[k].in].to = k
          BY <2>1, <4>1, <4>2 DEF ClaimsInv
        <5>2. d[k].in \notin ended
          BY <1>0, <4>1
        <5>. QED  BY <1>5, <3>2, <5>1, <5>2
      <4>. QED  BY <1>5, <4>1, <4>2
    <3>. QED  BY <3>1, <3>2
  <2>2. ASSUME NEW h \in DOMAIN e, h[1] = "uaihead", e[h].to /= Nobody
        PROVE  /\ e[h].to \in DOMAIN e /\ e[h].to[1] = "claim"
               /\ e[e[h].to].status = "active" /\ e[e[h].to].in = h
    <3>1. d[h].to \notin ended /\ h \notin ended
      BY <1>0, <1>5, <2>2
    <3>2. e[h] = d[h] /\ h \in DOMAIN d
      BY <1>5, <2>2, <3>1
    <3>3. /\ d[h].to \in DOMAIN d /\ d[h].to[1] = "claim"
          /\ d[d[h].to].status = "active" /\ d[d[h].to].in = h
      BY <2>2, <3>2 DEF ClaimsInv
    <3>. QED  BY <1>5, <3>1, <3>2, <3>3
  <2>. QED  BY <2>1, <2>2 DEF ClaimsInv
<1>7. \A k \in DOMAIN d : e[k].in = d[k].in
  BY <1>5
<1>8. e = _expire_uai_edit_claims_data(d, c)
  BY DEF _expire_uai_edit_claims_data, e, freed, ended
<1>. QED  BY <1>4, <1>5, <1>6, <1>7, <1>8

\* What is made of a document that was made is made of the first one.
LEMMA MakesTwice ==
  ASSUME NEW d, NEW e, NEW f, NEW X, NEW U, Makes(d, e, X, U), Makes(e, f, X, U)
  PROVE  Makes(d, f, X, U)
<1>1. \A k : k[1] \notin X /\ k[1] /= "room" =>
                 (k \in DOMAIN d <=> k \in DOMAIN f) /\ (k \in DOMAIN d => f[k] = d[k])
  BY DEF Makes, Changes
<1>2. \A k \in DOMAIN d : k[1] = "room" => k \in DOMAIN f
  BY DEF Makes, Changes
<1>3. \A k \in DOMAIN d : k[1] \in Lasting => k \in DOMAIN f /\ SameLinks(d[k], f[k])
  <2>. SUFFICES ASSUME NEW k \in DOMAIN d, k[1] \in Lasting PROVE k \in DOMAIN f /\ SameLinks(d[k], f[k])
    OBVIOUS
  <2>1. k \in DOMAIN e /\ SameLinks(d[k], e[k])
    BY DEF Makes, Changes
  <2>2. k \in DOMAIN f /\ SameLinks(e[k], f[k])
    BY <2>1 DEF Makes, Changes
  <2>. QED  BY <2>1, <2>2 DEF SameLinks
<1>4. \A r \in DOMAIN f : r[1] = "replacement" => r \in DOMAIN d \/ Follows(f, r)
  <2>. SUFFICES ASSUME NEW r \in DOMAIN f, r[1] = "replacement" PROVE r \in DOMAIN d \/ Follows(f, r)
    OBVIOUS
  <2>1. CASE r \in DOMAIN e
    <3>1. r \in DOMAIN d \/ Follows(e, r)
      BY <2>1 DEF Makes, Changes
    <3>2. \A k \in DOMAIN e : k[1] \in Lasting => k \in DOMAIN f /\ SameLinks(e[k], f[k])
      BY DEF Makes, Changes
    <3>. QED  BY <2>1, <3>1, <3>2, FollowsStays
  <2>. QED  BY <2>1 DEF Makes, Changes
<1>. QED  BY <1>1, <1>2, <1>3, <1>4 DEF Makes, Changes

\* uai_edit_claims changes entries of claim, uaihead only, and claims and heads still tell the
\* same.
LEMMA uai_edit_claimsMakes ==
  ASSUME NEW d, NEW c, NEW U, Shaped(d, U), ClaimsInv(d), uai_edit_claims(d, c) /= Refused
  PROVE  LET e == uai_edit_claims(d, c)
         IN Makes(d, e, {"claim", "uaihead"}, U) /\ ClaimsInv(e)
BY ExpireIs DEF uai_edit_claims

\* acquire_uai_edit_claim changes entries of claim, uaihead only, and claims and heads still
\* tell the same.
LEMMA acquire_uai_edit_claimMakes ==
  ASSUME NEW d, NEW c, NEW U, Shaped(d, U), Sent(c, U), ClaimsInv(d), c.of[1] = "uaihead",
         c.of[2][1][1] = "project", c.in /= Nobody, <<"claim", c.n>> \notin DOMAIN d,
         acquire_uai_edit_claim(d, c) /= Refused
  PROVE  LET e == acquire_uai_edit_claim(d, c)
         IN Makes(d, e, {"claim", "uaihead"}, U) /\ ClaimsInv(e)
<1>. DEFINE e == _expire_uai_edit_claims_data(d, c)
            project == c.of[2][1]
            head == IF c.of \in DOMAIN e THEN e[c.of]
                    ELSE [New("tracked", project) EXCEPT !.val = <<c.body>>]
            claim == <<"claim", c.n>>
<1>1. Makes(d, e, {"claim", "uaihead"}, U) /\ ClaimsInv(e) /\ DOMAIN e = DOMAIN d /\ Shaped(e, U)
  BY ExpireIs DEF Makes
<1>2. PICK x : x = [head EXCEPT !.to = claim]
  OBVIOUS
<1>3. PICK y : y = [New("active", c.of) EXCEPT !.by = c.as, !.val = <<c.body>>]
  OBVIOUS
<1>4. In(e, project) = c.in /\ ~Live(e, head.to) /\ acquire_uai_edit_claim(d, c) = Put(Put(e, c.of, x), claim, y)
  BY <1>2, <1>3 DEF acquire_uai_edit_claim
<1>5. IsKey(claim) /\ claim[1] = "claim" /\ claim[2] = c.n /\ claim \notin DOMAIN e
  BY <1>1 DEF IsKey
<1>6. IsKey(project)
  BY <1>1, <1>4, ShapeIs DEF In
<1>7. IsEntry(head) /\ Lies(c.of, head.in) /\ (c.of \notin DOMAIN e => head.to = Nobody)
  <2>1. CASE c.of \in DOMAIN e
    BY <1>1, <2>1, ShapeIs
  <2>2. CASE c.of \notin DOMAIN e
    <3>1. PICK z : z = [New("tracked", project) EXCEPT !.val = <<c.body>>]
      OBVIOUS
    <3>2. IsEntry(z) /\ z.in = project /\ z.to = Nobody
      BY <3>1, StatusesAre DEF New, IsEntry
    <3>. QED  BY <1>6, <2>2, <3>1, <3>2, LevelIs DEF Lies
  <2>. QED  BY <2>1, <2>2
<1>8. head.to = Nobody
  BY <1>1, <1>4, <1>7 DEF ClaimsInv, Live, Status
<1>9. \A k \in DOMAIN e : k[1] = "claim" /\ e[k].status = "active" => e[k].in /= c.of
  <2>1. c.of \in DOMAIN e => e[c.of].to = Nobody
    BY <1>8
  <2>2. \A k \in DOMAIN e : k[1] = "claim" => k /= Nobody
    BY <1>1, ShapeIs
  <2>. HIDE DEF e
  <2>. QED  BY <1>1, <2>1, <2>2 DEF ClaimsInv
<1>. HIDE DEF e, project, head, claim
<1>10. x = [status |-> head.status, in |-> head.in, by |-> head.by, to |-> claim,
            rev |-> head.rev, val |-> head.val]
  BY <1>2, <1>7 DEF IsEntry
<1>11. IsEntry(x) /\ x.in = head.in /\ x.to = claim
  BY <1>7, <1>10 DEF IsEntry
<1>12. IsEntry(y) /\ y.in = c.of /\ y.status = "active"
  BY <1>3, StatusesAre DEF New, IsEntry
<1>13. Sits(c.of, x, U)
  BY <1>7, <1>11, SitsIs, LevelIs DEF Sent, Generated
<1>14. Sits(claim, y, U)
  BY <1>5, <1>12, SitsIs, LevelIs DEF Sent, Generated, Lies, Number
<1>15. Makes(d, Put(e, c.of, x), {"claim", "uaihead"}, U)
  BY <1>1, <1>13, MakesPut
<1>16. PICK f : f = Put(Put(e, c.of, x), claim, y)
  OBVIOUS
<1>17. Makes(d, f, {"claim", "uaihead"}, U)
  BY <1>5, <1>14, <1>15, <1>16, MakesPut
<1>18. /\ DOMAIN f = DOMAIN e \cup {c.of, claim} /\ f[claim] = y /\ f[c.of] = x /\ c.of /= claim
       /\ \A j \in DOMAIN e : j /= c.of /\ j /= claim => f[j] = e[j]
  <2>1. c.of /= claim
    BY <1>5
  <2>2. PICK g : g = Put(e, c.of, x)
    OBVIOUS
  <2>3. f = Put(g, claim, y)
    BY <1>16, <2>2
  <2>4. DOMAIN g = DOMAIN e \cup {c.of} /\ g[c.of] = x /\ \A j \in DOMAIN e : j /= c.of => g[j] = e[j]
    BY <2>2 DEF Put
  <2>5. DOMAIN f = DOMAIN g \cup {claim} /\ f[claim] = y /\ \A j \in DOMAIN g : j /= claim => f[j] = g[j]
    BY <2>3 DEF Put
  <2>. QED  BY <2>1, <2>4, <2>5
<1>19. ClaimsInv(f)
  <2>1. ASSUME NEW k \in DOMAIN f, k[1] = "claim"
        PROVE  /\ f[k].in[1] = "uaihead"
               /\ f[k].status = "active" => f[k].in \in DOMAIN f /\ f[f[k].in].to = k
    <3>1. CASE k = claim
      BY <1>11, <1>12, <1>18, <3>1
    <3>2. CASE k /= claim
      <4>1. k \in DOMAIN e /\ f[k] = e[k] /\ e[k].in[1] = "uaihead"
        BY <1>1, <1>18, <2>1, <3>2 DEF ClaimsInv
      <4>2. ASSUME e[k].status = "active" PROVE e[k].in \in DOMAIN f /\ f[e[k].in].to = k
        <5>1. e[k].in \in DOMAIN e /\ e[e[k].in].to = k /\ e[k].in /= c.of
          BY <1>1, <1>9, <2>1, <4>1, <4>2 DEF ClaimsInv
        <5>2. e[k].in /= claim
          BY <1>5, <4>1
        <5>. QED  BY <1>18, <5>1, <5>2
      <4>. QED  BY <4>1, <4>2
    <3>. QED  BY <3>1, <3>2
  <2>2. ASSUME NEW h \in DOMAIN f, h[1] = "uaihead", f[h].to /= Nobody
        PROVE  /\ f[h].to \in DOMAIN f /\ f[h].to[1] = "claim"
               /\ f[f[h].to].status = "active" /\ f[f[h].to].in = h
    <3>1. CASE h = c.of
      BY <1>5, <1>11, <1>12, <1>18, <3>1
    <3>2. CASE h /= c.of
      <4>1. h \in DOMAIN e /\ f[h] = e[h]
        BY <1>5, <1>18, <2>2, <3>2
      <4>2. /\ e[h].to \in DOMAIN e /\ e[h].to[1] = "claim"
            /\ e[e[h].to].status = "active" /\ e[e[h].to].in = h
        BY <1>1, <2>2, <4>1 DEF ClaimsInv
      <4>3. e[h].to /= c.of /\ e[h].to /= claim
        BY <1>5, <4>2
      <4>. QED  BY <1>18, <4>1, <4>2, <4>3
    <3>. QED  BY <3>1, <3>2
  <2>. QED  BY <2>1, <2>2 DEF ClaimsInv
<1>. QED  BY <1>4, <1>16, <1>17, <1>19 DEF e, claim

\* The claim k ends and its head is free again.
LEMMA ClaimEnds ==
  ASSUME NEW d, NEW U, Shaped(d, U), ClaimsInv(d), NEW k \in DOMAIN d, k[1] = "claim",
         d[k].status = "active", NEW s \in EntryStatuses, s /= "active", NEW x,
         Sits(d[k].in, x, U), x.to = Nobody, NEW f, DOMAIN f = DOMAIN d, f[d[k].in] = x,
         f[k] = [d[k] EXCEPT !.status = s],
         \A j \in DOMAIN d : j /= k /\ j /= d[k].in => f[j] = d[j]
  PROVE  Makes(d, f, {"claim", "uaihead"}, U) /\ ClaimsInv(f)
<1>. DEFINE h == d[k].in
<1>1. h[1] = "uaihead" /\ h \in DOMAIN d /\ d[h].to = k /\ h /= k
  BY DEF ClaimsInv
<1>2. Sits(k, f[k], U) /\ f[k].status = s /\ f[k].in = h
  BY MarkIsSits
<1>3. Makes(d, f, {"claim", "uaihead"}, U)
  <2>1. Makes(d, d, {"claim", "uaihead"}, U)
    BY MakesSelf
  <2>2. \A j \in DOMAIN d : j[1] \in Lasting => j \in DOMAIN f /\ SameLinks(d[j], f[j])
    BY <1>1 DEF SameLinks, Lasting
  <2>. HIDE DEF h
  <2>3. \A j \in DOMAIN f : \/ j \in DOMAIN d /\ f[j] = d[j]
                            \/ j[1] \in {"claim", "uaihead"} /\ Sits(j, f[j], U)
    BY <1>1, <1>2 DEF h
  <2>4. \A j \in DOMAIN d \cap DOMAIN f : j[1] \notin {"claim", "uaihead"} => f[j] = d[j]
    BY <1>1 DEF h
  <2>. QED  BY <2>1, <2>2, <2>3, <2>4, Remake
<1>4. ClaimsInv(f)
  <2>. HIDE DEF h
  <2>0. \A j \in DOMAIN d : j /= k /\ j /= h => f[j] = d[j]
    BY DEF h
  <2>4. f[h].to = Nobody
    BY DEF h
  <2>1. ASSUME NEW j \in DOMAIN f, j[1] = "claim"
        PROVE  /\ f[j].in[1] = "uaihead"
               /\ f[j].status = "active" => f[j].in \in DOMAIN f /\ f[f[j].in].to = j
    <3>1. CASE j = k
      BY <1>1, <1>2, <3>1
    <3>2. CASE j /= k
      <4>1. f[j] = d[j] /\ d[j].in[1] = "uaihead"
        BY <1>1, <2>0, <2>1, <3>2 DEF ClaimsInv
      <4>2. ASSUME d[j].status = "active" PROVE d[j].in \in DOMAIN f /\ f[d[j].in].to = j
        <5>1. d[j].in \in DOMAIN d /\ d[d[j].in].to = j
          BY <2>1, <4>2 DEF ClaimsInv
        <5>2. d[j].in /= h /\ d[j].in /= k
          BY <1>1, <3>2, <5>1, <4>1
        <5>. QED  BY <2>0, <5>1, <5>2
      <4>. QED  BY <4>1, <4>2
    <3>. QED  BY <3>1, <3>2
  <2>2. ASSUME NEW i \in DOMAIN f, i[1] = "uaihead", f[i].to /= Nobody
        PROVE  /\ f[i].to \in DOMAIN f /\ f[i].to[1] = "claim"
               /\ f[f[i].to].status = "active" /\ f[f[i].to].in = i
    <3>1. i /= h /\ i /= k
      BY <2>2, <2>4
    <3>2. f[i] = d[i]
      BY <2>0, <3>1
    <3>3. /\ d[i].to \in DOMAIN d /\ d[i].to[1] = "claim"
          /\ d[d[i].to].status = "active" /\ d[d[i].to].in = i
      BY <2>2, <3>2 DEF ClaimsInv
    <3>4. d[i].to /= k /\ d[i].to /= h
      BY <1>1, <3>1, <3>3 DEF h
    <3>. QED  BY <2>0, <3>2, <3>3, <3>4
  <2>. QED  BY <2>1, <2>2 DEF ClaimsInv
<1>. QED  BY <1>3, <1>4

\* heartbeat_uai_edit_claim changes entries of claim, uaihead only, and claims and heads still
\* tell the same.
LEMMA heartbeat_uai_edit_claimMakes ==
  ASSUME NEW d, NEW c, NEW U, Shaped(d, U), ClaimsInv(d), heartbeat_uai_edit_claim(d, c) /= Refused
  PROVE  LET e == heartbeat_uai_edit_claim(d, c)
         IN Makes(d, e, {"claim", "uaihead"}, U) /\ ClaimsInv(e)
BY ExpireIs DEF heartbeat_uai_edit_claim

\* release_uai_edit_claim changes entries of claim, uaihead only, and claims and heads still
\* tell the same.
LEMMA release_uai_edit_claimMakes ==
  ASSUME NEW d, NEW c, NEW U, Shaped(d, U), ClaimsInv(d), c.of[1] = "claim",
         release_uai_edit_claim(d, c) /= Refused
  PROVE  LET e == release_uai_edit_claim(d, c)
         IN Makes(d, e, {"claim", "uaihead"}, U) /\ ClaimsInv(e)
<1>1. PICK e : e = _expire_uai_edit_claims_data(d, c)
  OBVIOUS
<1>2. Makes(d, e, {"claim", "uaihead"}, U) /\ ClaimsInv(e) /\ Shaped(e, U)
  BY <1>1, ExpireIs DEF Makes
<1>3. PICK h : h = e[c.of].in
  OBVIOUS
<1>4. PICK m : m = Mark(e, {c.of}, "released")
  OBVIOUS
<1>5. PICK f : f = [m EXCEPT ![h].to = Nobody]
  OBVIOUS
<1>6. OwnsClaim(e, c) /\ release_uai_edit_claim(d, c) = f
  BY <1>1, <1>3, <1>4, <1>5 DEF release_uai_edit_claim
<1>7. c.of \in DOMAIN e /\ e[c.of].status = "active" /\ h \in DOMAIN e /\ h[1] = "uaihead"
  BY <1>2, <1>3, <1>6 DEF OwnsClaim, Live, Status, ClaimsInv
<1>8. PICK x : x = [e[h] EXCEPT !.to = Nobody]
  OBVIOUS
<1>9. /\ DOMAIN f = DOMAIN e /\ f[h] = x /\ f[c.of] = [e[c.of] EXCEPT !.status = "released"]
      /\ \A j \in DOMAIN e : j /= c.of /\ j /= h => f[j] = e[j]
  <2>1. DOMAIN m = DOMAIN e /\ m[c.of] = [e[c.of] EXCEPT !.status = "released"]
        /\ \A j \in DOMAIN e : j /= c.of => m[j] = e[j]
    BY <1>4, <1>7, MarkIs
  <2>2. DOMAIN f = DOMAIN m /\ f[h] = [m[h] EXCEPT !.to = Nobody]
        /\ \A j \in DOMAIN m : j /= h => f[j] = m[j]
    BY <1>5, <1>7, <2>1
  <2>. QED  BY <1>7, <1>8, <2>1, <2>2
<1>10. Sits(h, x, U) /\ x.to = Nobody
  <2>1. IsEntry(e[h]) /\ Lies(h, e[h].in) /\ IsKey(h)
    BY <1>2, <1>7, ShapeIs
  <2>2. x = [status |-> e[h].status, in |-> e[h].in, by |-> e[h].by, to |-> Nobody,
             rev |-> e[h].rev, val |-> e[h].val]
    BY <1>8, <2>1 DEF IsEntry
  <2>3. IsEntry(x) /\ x.in = e[h].in /\ x.to = Nobody
    BY <2>1, <2>2 DEF IsEntry
  <2>. QED  BY <1>7, <2>1, <2>3, SitsIs, LevelIs DEF Generated
<1>11. Makes(e, f, {"claim", "uaihead"}, U) /\ ClaimsInv(f)
  <2>1. "released" \in EntryStatuses /\ "released" /= "active"
    BY StatusesAre
  <2>. QED  BY <1>2, <1>3, <1>7, <1>9, <1>10, <2>1, ClaimEnds
<1>. QED  BY <1>2, <1>6, <1>11, MakesTwice

\* complete_uai_edit_claim changes entries of claim, uaihead only, and claims and heads still
\* tell the same.
LEMMA complete_uai_edit_claimMakes ==
  ASSUME NEW d, NEW c, NEW U, Shaped(d, U), ClaimsInv(d), c.of[1] = "claim",
         complete_uai_edit_claim(d, c) /= Refused
  PROVE  LET e == complete_uai_edit_claim(d, c)
         IN Makes(d, e, {"claim", "uaihead"}, U) /\ ClaimsInv(e)
<1>1. PICK e : e = _expire_uai_edit_claims_data(d, c)
  OBVIOUS
<1>2. Makes(d, e, {"claim", "uaihead"}, U) /\ ClaimsInv(e) /\ Shaped(e, U)
  BY <1>1, ExpireIs DEF Makes
<1>3. PICK h : h = e[c.of].in
  OBVIOUS
<1>4. PICK m : m = Mark(e, {c.of}, "completed")
  OBVIOUS
<1>5. PICK f : f = [m EXCEPT ![h].to = Nobody, ![h].rev = @ + 1, ![h].val = <<c.body>>]
  OBVIOUS
<1>6. OwnsClaim(e, c) /\ complete_uai_edit_claim(d, c) = f
  BY <1>1, <1>3, <1>4, <1>5 DEF complete_uai_edit_claim
<1>7. c.of \in DOMAIN e /\ e[c.of].status = "active" /\ h \in DOMAIN e /\ h[1] = "uaihead"
  BY <1>2, <1>3, <1>6 DEF OwnsClaim, Live, Status, ClaimsInv
<1>8. PICK x : x = [[[e[h] EXCEPT !.to = Nobody] EXCEPT !.rev = @ + 1] EXCEPT !.val = <<c.body>>]
  OBVIOUS
<1>9. /\ DOMAIN f = DOMAIN e /\ f[h] = x /\ f[c.of] = [e[c.of] EXCEPT !.status = "completed"]
      /\ \A j \in DOMAIN e : j /= c.of /\ j /= h => f[j] = e[j]
  <2>1. DOMAIN m = DOMAIN e /\ m[c.of] = [e[c.of] EXCEPT !.status = "completed"]
        /\ \A j \in DOMAIN e : j /= c.of => m[j] = e[j]
    BY <1>4, <1>7, MarkIs
  <2>2. DOMAIN f = DOMAIN m
        /\ f[h] = [[[m[h] EXCEPT !.to = Nobody] EXCEPT !.rev = @ + 1] EXCEPT !.val = <<c.body>>]
        /\ \A j \in DOMAIN m : j /= h => f[j] = m[j]
    BY <1>5, <1>7, <2>1
  <2>. QED  BY <1>7, <1>8, <2>1, <2>2
<1>10. Sits(h, x, U) /\ x.to = Nobody
  <2>1. IsEntry(e[h]) /\ Lies(h, e[h].in) /\ IsKey(h)
    BY <1>2, <1>7, ShapeIs
  <2>4. PICK r \in Nat : r = e[h].rev + 1
    BY <2>1 DEF IsEntry
  <2>2. x = [status |-> e[h].status, in |-> e[h].in, by |-> e[h].by, to |-> Nobody,
             rev |-> r, val |-> <<c.body>>]
    BY <1>8, <2>1, <2>4 DEF IsEntry
  <2>3. IsEntry(x) /\ x.in = e[h].in /\ x.to = Nobody
    BY <2>1, <2>2 DEF IsEntry
  <2>. QED  BY <1>7, <2>1, <2>3, SitsIs, LevelIs DEF Generated
<1>11. Makes(e, f, {"claim", "uaihead"}, U) /\ ClaimsInv(f)
  <2>1. "completed" \in EntryStatuses /\ "completed" /= "active"
    BY StatusesAre
  <2>. QED  BY <1>2, <1>3, <1>7, <1>9, <1>10, <2>1, ClaimEnds
<1>. QED  BY <1>2, <1>6, <1>11, MakesTwice

\* A call that changes revisions and memories keeps the other records.
LEMMA SyncRecords ==
  ASSUME NEW d, NEW e, NEW U, Makes(d, e, {"revision", "syncmemory", "syncreceipt"}, U), Records(d),
         SyncInv(e)
  PROVE  Records(e)
<1>1. /\ Same(d, e, {"claim", "uaihead"})
      /\ Same(d, e, {"package", "record"}) /\ Same(d, e, {"memory", "review"})
      /\ Same(d, e, {"notification", "receipt"}) /\ Same(d, e, {"meeting", "routing"})
      /\ Same(d, e, {"server", "approval"}) /\ Same(d, e, {"rate"})
      /\ \A k \in DOMAIN d : k[1] = "room" => k \in DOMAIN e
  BY SameIs
<1>2. ClaimsInv(e) /\ PackInv(e) /\ ReviewInv(e)
  BY <1>1, ClaimsStay, PackStays, ReviewStays DEF Records
<1>3. MessageInv(e) /\ RoutingInv(e) /\ ApprovalInv(e) /\ RateInv(e)
  BY <1>1, MessageStays, RoutingStays, ApprovalStays, RateStays DEF Records
<1>. QED  BY <1>2, <1>3 DEF Records

\* A bounded set of numbers has a largest one.
LEMMA Largest ==
  ASSUME NEW S \in SUBSET Nat, S /= {}, NEW b \in Nat, \A x \in S : x <= b
  PROVE  \E m \in S : \A x \in S : x <= m
<1>. DEFINE T == {b - x : x \in S}
<1>1. PICK R : IsWellFoundedOn(R, Nat) /\ \A x, y \in Nat : x < y => <<x, y>> \in R
  <2>1. \A x, y \in Nat : x < y => <<x, y>> \in OpToRel(<, Nat)
    BY DEF OpToRel
  <2>. QED  BY <2>1, NatLessThanWellFounded, Zenon
<1>2. T \subseteq Nat /\ T /= {}
  <2>1. \A x \in S : b - x \in Nat
    OBVIOUS
  <2>. QED  BY <2>1
<1>3. PICK t \in T : \A y \in T : ~ (<<y, t>> \in R)
  <2>1. IsWellFoundedOn(R, Nat)
    BY <1>1
  <2>. QED  BY <1>2, <2>1, WFMin, Zenon
<1>4. PICK m \in S : t = b - m
  OBVIOUS
<1>5. ASSUME NEW x \in S PROVE x <= m
  <2>1. ~ (b - x < b - m)
    BY <1>1, <1>2, <1>3, <1>4
  <2>. QED  BY <2>1
<1>. QED  BY <1>5

\* The next sequence number is larger than all that were used.
LEMMA NextSequence ==
  ASSUME NEW d, NEW U, Shaped(d, U), SyncInv(d)
  PROVE  /\ _sync_next_sequence(d) \in Nat
         /\ \A r \in DOMAIN d : r[1] = "revision" => d[r].rev < _sync_next_sequence(d)
<1>. DEFINE used == {d[k].rev : k \in Section(d, "revision")}
            next == _sync_next_sequence(d)
<1>1. \A k \in DOMAIN d : d[k].rev \in Nat
  BY ShapeIs DEF IsEntry
<1>2. used \in SUBSET Nat /\ \A r \in DOMAIN d : r[1] = "revision" => d[r].rev \in used
  BY <1>1 DEF Section
<1>3. PICK b \in Nat : \A x \in used : x <= b
  BY DEF SyncInv, Section
<1>4. next = IF used = {} THEN 1 ELSE 1 + CHOOSE m \in used : \A o \in used : o <= m
  BY DEF _sync_next_sequence
<1>. HIDE DEF used, next
<1>5. CASE used = {}
  BY <1>2, <1>4, <1>5 DEF next
<1>6. CASE used /= {}
  <2>1. PICK m : m = CHOOSE x \in used : \A o \in used : o <= x
    OBVIOUS
  <2>2. \E x \in used : \A o \in used : o <= x
    BY <1>2, <1>3, <1>6, Largest
  <2>3. m \in used /\ \A o \in used : o <= m
    BY <2>1, <2>2
  <2>4. next = 1 + m
    BY <1>4, <1>6, <2>1
  <2>7. m \in Nat
    BY <1>2, <2>3
  <2>5. next \in Nat
    BY <2>4, <2>7
  <2>6. ASSUME NEW r \in DOMAIN d, r[1] = "revision" PROVE d[r].rev < next
    <3>1. PICK x \in used : x = d[r].rev
      BY <1>2, <2>6
    <3>2. x <= m /\ x \in Nat
      BY <1>2, <2>3
    <3>. QED  BY <2>4, <2>7, <3>1, <3>2
  <2>. QED  BY <2>5, <2>6 DEF next
<1>. QED  BY <1>5, <1>6

\* The document a mutation saves is made of the one it read first.
LEMMA submit_sync_mutationMakes ==
  ASSUME NEW d, NEW c, NEW U, Shaped(c.seen[1], U), Sent(c, U), SyncInv(c.seen[1]), c.in[1] = "workspace",
         c.of[1] = "syncmemory", <<"revision", c.n>> \notin DOMAIN c.seen[1]
  PROVE  LET e == submit_sync_mutation(d, c)
         IN Makes(c.seen[1], e, {"revision", "syncmemory", "syncreceipt"}, U) /\ SyncInv(e)
<1>. DEFINE X == {"revision", "syncmemory", "syncreceipt"}
            base == c.seen[1]
            device == IF c.as \in DOMAIN d THEN d[c.as] ELSE New("absent", Nobody)
            rejected == \/ c.as /= Nobody /\ (device.status \in {"absent", "revoked"}
                                              \/ device.rev /= c.body)
                        \/ c.how = "hard_forget"
            head == IF c.of \in DOMAIN base THEN base[c.of] ELSE New("", c.in)
            conflict == ConflictCode(head, c)
            seq == _sync_next_sequence(base)
            status == IF rejected THEN "rejected"
                      ELSE IF conflict /= "" THEN "conflict" ELSE "applied"
            k == <<"revision", c.n>>
            a == <<"syncreceipt", c.n>>
            revision == [New(status, c.of) EXCEPT !.by = c.as, !.to = c.to, !.rev = seq]
            kept == IF rejected THEN base ELSE Put(base, k, revision)
            new == [New(IF c.how = "delete" THEN "tombstoned" ELSE "active", c.in)
                              EXCEPT !.to = k, !.rev = seq]
            headed == IF status = "applied" THEN Put(kept, c.of, new) ELSE kept
            answer == [New(status, c.of) EXCEPT !.to = IF rejected THEN Nobody ELSE k,
                                                !.rev = IF rejected THEN 0 ELSE seq]
            e == Put(headed, a, answer)
<1>1. submit_sync_mutation(d, c) = e
  BY DEF submit_sync_mutation
<1>2. seq \in Nat /\ \A r \in DOMAIN base : r[1] = "revision" => base[r].rev < seq
  BY NextSequence
<1>3. status \in EntryStatuses /\ (status = "applied" => ~rejected)
  BY StatusesAre
<1>4. IsKey(k) /\ k[1] = "revision" /\ k[2] = c.n /\ IsKey(a) /\ a[1] = "syncreceipt" /\ a[2] = c.n
  BY DEF IsKey
<1>5. Shaped(base, U) /\ SyncInv(base) /\ k \notin DOMAIN base /\ Makes(base, base, X, U)
  BY MakesSelf
<1>. HIDE DEF e, headed, kept, answer, new, revision, status, rejected, seq, base, k, a, head, conflict, device
<1>6. IsEntry(revision) /\ revision.in = c.of /\ revision.status = status /\ revision.rev = seq
  <2>1. revision = [status |-> status, in |-> c.of, by |-> c.as, to |-> c.to, rev |-> seq, val |-> <<>>]
    <3>1. PICK n : n = New(status, c.of)
      OBVIOUS
    <3>2. n = [status |-> status, in |-> c.of, by |-> Nobody, to |-> Nobody, rev |-> 0, val |-> <<>>]
      BY <3>1 DEF New
    <3>3. revision = [n EXCEPT !.by = c.as, !.to = c.to, !.rev = seq]
      BY <3>1, Zenon DEF revision
    <3>. QED  BY <3>2, <3>3
  <2>. QED  BY <1>2, <1>3, <2>1 DEF IsEntry
<1>7. IsEntry(new) /\ new.in = c.in /\ new.to = k /\ new.rev = seq
  <2>1. PICK s \in EntryStatuses : s = IF c.how = "delete" THEN "tombstoned" ELSE "active"
    BY StatusesAre
  <2>2. new = [status |-> s, in |-> c.in, by |-> Nobody, to |-> k, rev |-> seq, val |-> <<>>]
    <3>1. PICK n : n = New(s, c.in)
      OBVIOUS
    <3>2. n = [status |-> s, in |-> c.in, by |-> Nobody, to |-> Nobody, rev |-> 0, val |-> <<>>]
      BY <3>1 DEF New
    <3>3. new = [n EXCEPT !.to = k, !.rev = seq]
      BY <2>1, <3>1, Zenon DEF new
    <3>. QED  BY <3>2, <3>3
  <2>. QED  BY <1>2, <2>1, <2>2 DEF IsEntry
<1>8. IsEntry(answer) /\ answer.in = c.of
  <2>1. PICK p, r : r \in Nat /\ answer = [status |-> status, in |-> c.of, by |-> Nobody, to |-> p, rev |-> r, val |-> <<>>]
    <3>1. PICK n : n = New(status, c.of)
      OBVIOUS
    <3>2. n = [status |-> status, in |-> c.of, by |-> Nobody, to |-> Nobody, rev |-> 0, val |-> <<>>]
      BY <3>1 DEF New
    <3>3. PICK p, r : p = (IF rejected THEN Nobody ELSE k) /\ r = (IF rejected THEN 0 ELSE seq)
      OBVIOUS
    <3>4. answer = [n EXCEPT !.to = p, !.rev = r]
      BY <3>1, <3>3, Zenon DEF answer
    <3>. QED  BY <1>2, <3>2, <3>3, <3>4
  <2>. QED  BY <1>3, <2>1 DEF IsEntry
<1>9. Sits(k, revision, U)
  BY <1>4, <1>6, SitsIs, LevelIs DEF Sent, Lies, Number
<1>10. Sits(c.of, new, U)
  BY <1>7, SitsIs, LevelIs DEF Sent, Lies, Generated
<1>11. Sits(a, answer, U)
  BY <1>4, <1>8, SitsIs, LevelIs DEF Sent, Lies, Number
<1>12. Makes(base, kept, X, U)
  BY <1>4, <1>5, <1>9, MakesPut DEF kept
<1>13. Makes(base, headed, X, U)
  BY <1>10, <1>12, MakesPut DEF headed
<1>14. Makes(base, e, X, U)
  BY <1>4, <1>11, <1>13, MakesPut DEF e
<1>15. ASSUME ~rejected
       PROVE  /\ DOMAIN kept = DOMAIN base \cup {k} /\ kept[k] = revision
              /\ \A j \in DOMAIN base : kept[j] = base[j]
  BY <1>5, <1>15 DEF kept, Put
<1>16. ASSUME ~rejected, NEW r \in DOMAIN kept, NEW s \in DOMAIN kept, r[1] = "revision", s[1] = "revision",
              kept[r].rev = kept[s].rev
       PROVE  r = s
  <2>1. ASSUME NEW q \in DOMAIN base, q[1] = "revision" PROVE kept[q].rev /= seq /\ kept[q] = base[q]
    <3>1. base[q].rev < seq /\ base[q].rev \in Nat
      BY <1>2, <1>5, <2>1, ShapeIs DEF IsEntry
    <3>. QED  BY <1>2, <1>15, <1>16, <3>1
  <2>2. r \in DOMAIN base /\ s \in DOMAIN base => r = s
    BY <1>5, <1>16, <2>1 DEF SyncInv
  <2>. QED  BY <1>6, <1>15, <1>16, <2>1, <2>2
<1>17. ASSUME ~rejected, NEW h \in DOMAIN base, h[1] = "syncmemory", h /= c.of \/ status /= "applied"
       PROVE  /\ kept[h] = base[h] /\ base[h].to \in DOMAIN base /\ base[h].to[1] = "revision"
              /\ kept[base[h].to] = base[base[h].to]
              /\ base[h].rev = base[base[h].to].rev /\ base[base[h].to].in = h
              /\ \A r \in DOMAIN kept : r[1] = "revision" /\ kept[r].in = h /\ kept[r].status = "applied" =>
                   kept[r].rev <= base[h].rev
  <2>1. /\ kept[h] = base[h] /\ base[h].to \in DOMAIN base /\ base[h].to[1] = "revision"
        /\ kept[base[h].to] = base[base[h].to]
        /\ base[h].rev = base[base[h].to].rev /\ base[base[h].to].in = h
    BY <1>5, <1>15, <1>17 DEF SyncInv
  <2>2. ASSUME NEW r \in DOMAIN kept, r[1] = "revision", kept[r].in = h, kept[r].status = "applied"
        PROVE  kept[r].rev <= base[h].rev
    <3>1. r /= k
      BY <1>6, <1>15, <1>17, <2>2
    <3>2. r \in DOMAIN base /\ kept[r] = base[r]
      BY <1>15, <1>17, <2>2, <3>1
    <3>. QED  BY <1>5, <1>17, <2>2, <3>2 DEF SyncInv
  <2>. QED  BY <2>1, <2>2
<1>18. ASSUME ~rejected PROVE \A r \in DOMAIN kept : r[1] = "revision" => kept[r].rev <= seq
  <2>. SUFFICES ASSUME NEW r \in DOMAIN kept, r[1] = "revision" PROVE kept[r].rev <= seq
    OBVIOUS
  <2>1. CASE r = k
    BY <1>2, <1>6, <1>15, <1>18, <2>1
  <2>2. CASE r \in DOMAIN base
    <3>1. base[r].rev < seq /\ base[r].rev \in Nat
      BY <1>2, <1>5, <2>2, ShapeIs DEF IsEntry
    <3>. QED  BY <1>2, <1>15, <1>18, <2>2, <3>1
  <2>. QED  BY <1>15, <1>18, <2>1, <2>2
<1>19. SyncInv(headed)
  <2>1. CASE rejected
    BY <1>5, <2>1 DEF kept, headed, status
  <2>2. CASE ~rejected /\ status /= "applied"
    <3>1. headed = kept
      BY <2>2 DEF headed
    <3>2. ASSUME NEW h \in DOMAIN kept, h[1] = "syncmemory" PROVE h \in DOMAIN base
      BY <1>4, <1>15, <2>2, <3>2
    <3>3. ASSUME NEW h \in DOMAIN kept, h[1] = "syncmemory"
          PROVE  /\ kept[h].to \in DOMAIN kept /\ kept[h].to[1] = "revision" /\ kept[h].rev = kept[kept[h].to].rev
                 /\ kept[kept[h].to].in = h
                 /\ \A r \in DOMAIN kept : r[1] = "revision" /\ kept[r].in = h /\ kept[r].status = "applied" =>
                       kept[r].rev <= kept[h].rev
      BY <1>15, <1>17, <2>2, <3>2, <3>3
    <3>4. \E b \in Nat : \A r \in DOMAIN kept : r[1] = "revision" => kept[r].rev <= b
      BY <1>2, <1>18, <2>2
    <3>5. \A r, s \in DOMAIN kept : r[1] = "revision" /\ s[1] = "revision" /\ kept[r].rev = kept[s].rev => r = s
      BY <1>16, <2>2
    <3>. QED  BY <3>1, <3>3, <3>4, <3>5 DEF SyncInv
  <2>3. CASE ~rejected /\ status = "applied"
    <3>1. DOMAIN headed = DOMAIN kept \cup {c.of} /\ headed[c.of] = new
          /\ \A j \in DOMAIN kept : j /= c.of => headed[j] = kept[j]
      BY <2>3 DEF headed, Put
    <3>2. \A r : r[1] = "revision" => (r \in DOMAIN headed <=> r \in DOMAIN kept)
                                      /\ (r \in DOMAIN kept => headed[r] = kept[r])
      BY <3>1
    <3>3. ASSUME NEW h \in DOMAIN headed, h[1] = "syncmemory"
          PROVE  /\ headed[h].to \in DOMAIN headed /\ headed[h].to[1] = "revision"
                 /\ headed[h].rev = headed[headed[h].to].rev
                 /\ headed[headed[h].to].in = h
                 /\ \A r \in DOMAIN headed : r[1] = "revision" /\ headed[r].in = h
                       /\ headed[r].status = "applied" => headed[r].rev <= headed[h].rev
      <4>1. CASE h = c.of
        BY <1>4, <1>6, <1>7, <1>15, <1>18, <2>3, <3>1, <3>2, <4>1
      <4>2. CASE h /= c.of
        <5>1. h \in DOMAIN base /\ headed[h] = kept[h]
          BY <1>4, <1>15, <2>3, <3>1, <3>3, <4>2
        <5>2. /\ kept[h] = base[h] /\ base[h].to \in DOMAIN base /\ base[h].to[1] = "revision"
              /\ kept[base[h].to] = base[base[h].to]
              /\ base[h].rev = base[base[h].to].rev /\ base[base[h].to].in = h
              /\ \A r \in DOMAIN kept : r[1] = "revision" /\ kept[r].in = h /\ kept[r].status = "applied" =>
                   kept[r].rev <= base[h].rev
          BY <1>17, <2>3, <3>3, <4>2, <5>1
        <5>3. base[h].to \in DOMAIN kept
          BY <1>15, <2>3, <5>2
        <5>. QED  BY <3>2, <5>1, <5>2, <5>3
      <4>. QED  BY <4>1, <4>2
    <3>4. \E b \in Nat : \A r \in DOMAIN headed : r[1] = "revision" => headed[r].rev <= b
      BY <1>2, <1>18, <2>3, <3>2
    <3>5. \A r, s \in DOMAIN headed : r[1] = "revision" /\ s[1] = "revision" /\ headed[r].rev = headed[s].rev => r = s
      BY <1>16, <2>3, <3>2
    <3>. QED  BY <3>3, <3>4, <3>5 DEF SyncInv
  <2>. QED  BY <2>1, <2>2, <2>3
<1>20. SyncInv(e)
  <2>1. Same(headed, e, {"revision", "syncmemory"})
    <3>1. DOMAIN e = DOMAIN headed \cup {a} /\ \A j \in DOMAIN headed : j /= a => e[j] = headed[j]
      BY DEF e, Put
    <3>. QED  BY <1>4, <3>1 DEF Same
  <2>. QED  BY <1>19, <2>1, SyncStays
<1>. QED  BY <1>1, <1>14, <1>20 DEF base

---------------------------------------------------------------------------
(* Packages. *)

\* A call that changes packages keeps the other records.
LEMMA PackRecords ==
  ASSUME NEW d, NEW e, NEW U, Makes(d, e, {"package", "record", "recordrevision"}, U), Records(d), PackInv(e)
  PROVE  Records(e)
<1>1. /\ Same(d, e, {"claim", "uaihead"})
      /\ Same(d, e, {"revision", "syncmemory"}) /\ Same(d, e, {"memory", "review"})
      /\ Same(d, e, {"notification", "receipt"}) /\ Same(d, e, {"meeting", "routing"})
      /\ Same(d, e, {"server", "approval"}) /\ Same(d, e, {"rate"})
      /\ \A k \in DOMAIN d : k[1] = "room" => k \in DOMAIN e
  BY SameIs
<1>2. ClaimsInv(e) /\ SyncInv(e) /\ ReviewInv(e)
  BY <1>1, ClaimsStay, SyncStays, ReviewStays DEF Records
<1>3. MessageInv(e) /\ RoutingInv(e) /\ ApprovalInv(e) /\ RateInv(e)
  BY <1>1, MessageStays, RoutingStays, ApprovalStays, RateStays DEF Records
<1>. QED  BY <1>2, <1>3 DEF Records

\* create_uai_package changes entries of package, record, recordrevision only, and packages
\* still say whether they are ready.
LEMMA create_uai_packageMakes ==
  ASSUME NEW d, NEW c, NEW U, Shaped(d, U), Sent(c, U), PackInv(d), c.in[1] = "workspace",
         create_uai_package(d, c) /= Refused
  PROVE  LET e == create_uai_package(d, c)
         IN Makes(d, e, {"package", "record", "recordrevision"}, U) /\ PackInv(e)
<1>. DEFINE p == <<"package", c.as>>
<1>1. PICK x : x = [New("setup_required", c.in) EXCEPT !.by = c.as]
  OBVIOUS
<1>2. PICK e : e = Put(d, p, x)
  OBVIOUS
<1>3. create_uai_package(d, c) = e /\ p \notin DOMAIN d
  BY <1>1, <1>2 DEF create_uai_package
<1>4. IsEntry(x) /\ x.in = c.in /\ x.status = "setup_required"
  BY <1>1, StatusesAre DEF New, IsEntry
<1>5. IsKey(p) /\ p[1] = "package" /\ p[2] = c.as
  BY DEF IsKey
<1>6. DOMAIN e = DOMAIN d \cup {p} /\ e[p] = x /\ \A j \in DOMAIN d : e[j] = d[j]
  BY <1>2, <1>3 DEF Put
<1>0. \A n : <<"record", <<c.as, n>>>> \notin DOMAIN d
  <2>. SUFFICES ASSUME NEW n, <<"record", <<c.as, n>>>> \in DOMAIN d PROVE FALSE
    OBVIOUS
  <2>1. PICK k \in DOMAIN d : k = <<"record", <<c.as, n>>>>
    OBVIOUS
  <2>2. k[1] = "record" /\ k[2][1] = c.as
    BY <2>1
  <2>. QED  BY <1>3, <2>2 DEF PackInv
<1>. HIDE DEF p
<1>7. Sits(p, x, U)
  BY <1>4, <1>5, SitsIs, LevelIs DEF Sent, Lies, Generated
<1>8. Makes(d, e, {"package", "record", "recordrevision"}, U)
  BY <1>2, <1>5, <1>7, MakesSelf, MakesPut
<1>9. \A k \in DOMAIN e : k[1] = "record" => e[k].in = <<"package", k[2][1]>> /\ e[k].in \in DOMAIN e
  BY <1>5, <1>6 DEF PackInv
<1>10. ASSUME NEW q \in DOMAIN e, q[1] = "package"
       PROVE  (e[q].status = "ready") <=> \A n \in RequiredPaths : <<"record", <<q[2], n>>>> \in DOMAIN e
  <2>1. \A n : <<"record", <<q[2], n>>>> \in DOMAIN e <=> <<"record", <<q[2], n>>>> \in DOMAIN d
    BY <1>5, <1>6
  <2>2. CASE q = p
    <3>1. 1 \in RequiredPaths
      BY DEF RequiredPaths
    <3>. QED  BY <1>0, <1>4, <1>5, <1>6, <2>1, <2>2, <3>1
  <2>3. CASE q /= p
    BY <1>6, <1>10, <2>1, <2>3 DEF PackInv
  <2>. QED  BY <2>2, <2>3
<1>. QED  BY <1>3, <1>8, <1>9, <1>10 DEF PackInv

\* upsert_uai_record changes entries of package, record, recordrevision only, and packages
\* still say whether they are ready.
LEMMA upsert_uai_recordMakes ==
  ASSUME NEW d, NEW c, NEW U, Shaped(d, U), Sent(c, U), PackInv(d), upsert_uai_record(d, c) /= Refused
  PROVE  LET e == upsert_uai_record(d, c)
         IN Makes(d, e, {"package", "record", "recordrevision"}, U) /\ PackInv(e)
<1>. DEFINE X == {"package", "record", "recordrevision"}
            package == <<"package", c.as>>
            path == IF c.how = "first" THEN 1 ELSE 2
            record == <<"record", <<c.as, path>>>>
            current == IF record \in DOMAIN d THEN d[record].rev ELSE 0
            new == [New("active", package) EXCEPT !.rev = current + 1, !.val = <<c.body>>]
            k == <<"recordrevision", <<c.as, path, current + 1>>>>
            kept == [New("kept", record) EXCEPT !.rev = current + 1, !.val = new.val]
            written == Put(Put(d, record, new), k, kept)
            ready == \A p \in RequiredPaths : <<"record", <<c.as, p>>>> \in DOMAIN written
            s == IF ready THEN "ready" ELSE "setup_required"
            f == Mark(written, {package}, s)
<1>1. upsert_uai_record(d, c) = f /\ package \in DOMAIN d
  BY DEF upsert_uai_record
<1>2. /\ IsKey(package) /\ package[1] = "package" /\ package[2] = c.as
      /\ IsKey(record) /\ record[1] = "record" /\ record[2][1] = c.as /\ IsKey(k) /\ k[1] = "recordrevision"
  BY DEF IsKey
<1>3. current \in Nat
  BY ShapeIs DEF IsEntry
<1>4. s \in EntryStatuses /\ (s = "ready" <=> ready)
  BY StatusesAre
<1>0. \A q, n : <<"record", <<q, n>>>> = record => q = c.as
  OBVIOUS
<1>. HIDE DEF f, s, written, kept, k, new, current
<1>5. IsEntry(new) /\ new.in = package
  <2>1. PICK n : n = New("active", package)
    OBVIOUS
  <2>2. PICK r \in Nat : r = current + 1
    BY <1>3
  <2>3. n = [status |-> "active", in |-> package, by |-> Nobody, to |-> Nobody, rev |-> 0, val |-> <<>>]
    BY <2>1 DEF New
  <2>4. new = [n EXCEPT !.rev = r, !.val = <<c.body>>]
    BY <2>1, <2>2, Zenon DEF new
  <2>. HIDE DEF package
  <2>. QED  BY <2>3, <2>4, StatusesAre DEF IsEntry
<1>6. IsEntry(kept) /\ kept.in = record
  <2>1. PICK n : n = New("kept", record)
    OBVIOUS
  <2>2. PICK r \in Nat : r = current + 1
    BY <1>3
  <2>3. n = [status |-> "kept", in |-> record, by |-> Nobody, to |-> Nobody, rev |-> 0, val |-> <<>>]
    BY <2>1 DEF New
  <2>4. kept = [n EXCEPT !.rev = r, !.val = new.val]
    BY <2>1, <2>2, Zenon DEF kept
  <2>. HIDE DEF record
  <2>. QED  BY <2>3, <2>4, StatusesAre DEF IsEntry
<1>7. DOMAIN written = DOMAIN d \cup {record, k} /\ written[record] = new
      /\ \A j \in DOMAIN d : j /= record /\ j /= k => written[j] = d[j]
  <2>1. PICK g : g = Put(d, record, new)
    OBVIOUS
  <2>2. DOMAIN g = DOMAIN d \cup {record} /\ g[record] = new /\ \A j \in DOMAIN d : j /= record => g[j] = d[j]
    BY <2>1 DEF Put
  <2>3. written = Put(g, k, kept)
    BY <2>1 DEF written
  <2>4. DOMAIN written = DOMAIN g \cup {k} /\ \A j \in DOMAIN g : j /= k => written[j] = g[j]
    BY <2>3 DEF Put
  <2>5. record /= k
    BY <1>2
  <2>. QED  BY <2>2, <2>4, <2>5
<1>8. DOMAIN f = DOMAIN written /\ f[package].status = s
      /\ \A j \in DOMAIN written : j /= package => f[j] = written[j]
  <2>1. IsEntry(written[package]) /\ package \in DOMAIN written
    <3>1. package /= record /\ package /= k
      BY <1>2
    <3>. QED  BY <1>1, <1>7, <3>1, ShapeIs
  <2>2. DOMAIN f = DOMAIN written /\ f[package] = [written[package] EXCEPT !.status = s]
        /\ \A j \in DOMAIN written : j /= package => f[j] = written[j]
    BY <2>1 DEF f, Mark
  <2>. HIDE DEF package
  <2>. QED  BY <2>1, <2>2, MarkedEntry
<1>9. ready <=> \A p \in RequiredPaths : <<"record", <<c.as, p>>>> \in DOMAIN f
  BY <1>8
<1>. HIDE DEF ready, package, record
<1>10. Makes(d, written, X, U)
  <2>1. Sits(record, new, U)
    BY <1>2, <1>5, SitsIs, LevelIs DEF Generated, Lies
  <2>2. Sits(k, kept, U)
    BY <1>2, <1>6, SitsIs, LevelIs DEF Generated, Lies
  <2>3. Makes(d, Put(d, record, new), X, U)
    BY <1>2, <2>1, MakesSelf, MakesPut
  <2>. QED  BY <1>2, <2>2, <2>3, MakesPut DEF written
<1>11. Makes(d, f, X, U)
  BY <1>2, <1>4, <1>10, MakesMark DEF f
<1>12. ASSUME NEW j \in DOMAIN f, j[1] = "record"
       PROVE  f[j].in = <<"package", j[2][1]>> /\ f[j].in \in DOMAIN f
  <2>1. j /= package /\ j /= k
    BY <1>2, <1>12
  <2>2. CASE j = record
    BY <1>1, <1>2, <1>5, <1>7, <1>8, <2>1, <2>2 DEF package
  <2>3. CASE j /= record
    <3>1. j \in DOMAIN d /\ f[j] = d[j]
      BY <1>7, <1>8, <2>1, <2>3
    <3>. QED  BY <1>7, <1>8, <1>12, <3>1 DEF PackInv
  <2>. QED  BY <2>2, <2>3
<1>13. ASSUME NEW p \in DOMAIN f, p[1] = "package"
       PROVE  (f[p].status = "ready") <=> \A n \in RequiredPaths : <<"record", <<p[2], n>>>> \in DOMAIN f
  <2>1. CASE p = package
    <3>1. p[2] = c.as
      BY <1>2, <2>1
    <3>. QED  BY <1>4, <1>8, <1>9, <2>1, <3>1
  <2>2. CASE p /= package
    <3>1. p \in DOMAIN d /\ f[p] = d[p]
      BY <1>2, <1>7, <1>8, <1>13, <2>2
    <3>2. p[2] /= c.as
      <4>1. IsKey(p)
        BY <3>1, ShapeIs
      <4>. QED  BY <1>13, <2>2, <4>1 DEF IsKey, package
    <3>3. \A n : <<"record", <<p[2], n>>>> \in DOMAIN f <=> <<"record", <<p[2], n>>>> \in DOMAIN d
      <4>1. \A n : <<"record", <<p[2], n>>>> /= record /\ <<"record", <<p[2], n>>>> /= k
        BY <1>0, <1>2, <3>2
      <4>. QED  BY <1>7, <1>8, <4>1
    <3>. QED  BY <1>13, <3>1, <3>3 DEF PackInv
  <2>. QED  BY <2>1, <2>2
<1>. QED  BY <1>1, <1>11, <1>12, <1>13 DEF PackInv

---------------------------------------------------------------------------
(* Memory and reviews. *)

\* A call that changes memories and reviews keeps the other records.
LEMMA ReviewRecords ==
  ASSUME NEW d, NEW e, NEW U, Makes(d, e, {"memory", "review", "idem"}, U), Records(d), ReviewInv(e)
  PROVE  Records(e)
<1>1. /\ Same(d, e, {"claim", "uaihead"})
      /\ Same(d, e, {"revision", "syncmemory"}) /\ Same(d, e, {"package", "record"})
      /\ Same(d, e, {"notification", "receipt"}) /\ Same(d, e, {"meeting", "routing"})
      /\ Same(d, e, {"server", "approval"}) /\ Same(d, e, {"rate"})
      /\ \A k \in DOMAIN d : k[1] = "room" => k \in DOMAIN e
  BY SameIs
<1>2. ClaimsInv(e) /\ SyncInv(e) /\ PackInv(e)
  BY <1>1, ClaimsStay, SyncStays, PackStays DEF Records
<1>3. MessageInv(e) /\ RoutingInv(e) /\ ApprovalInv(e) /\ RateInv(e)
  BY <1>1, MessageStays, RoutingStays, ApprovalStays, RateStays DEF Records
<1>. QED  BY <1>2, <1>3 DEF Records

\* submit_memory changes entries of memory, review, idem only, and reviews and memories still
\* tell the same.
LEMMA submit_memoryMakes ==
  ASSUME NEW d, NEW c, NEW U, Shaped(d, U), c.n \notin U, ReviewInv(d), Lies(<<"memory", c.n>>, c.in),
         <<"memory", c.n>> \notin DOMAIN d, <<"review", c.n>> \notin DOMAIN d
  PROVE  LET e == submit_memory(d, c)
         IN Makes(d, e, {"memory", "review", "idem"}, U) /\ ReviewInv(e)
<1>. DEFINE m == <<"memory", c.n>>
            r == <<"review", c.n>>
            status == IF c.how = "quarantine_for_review" THEN "quarantined" ELSE "active"
            review == IF status = "active" THEN "pending" ELSE status
<1>1. PICK x : x = [New(status, c.in) EXCEPT !.by = c.as]
  OBVIOUS
<1>2. PICK y : y = [New(review, c.in) EXCEPT !.by = c.as, !.to = m]
  OBVIOUS
<1>3. PICK g : g = Put(d, m, x)
  OBVIOUS
<1>4. PICK e : e = Put(g, r, y)
  OBVIOUS
<1>5. submit_memory(d, c) = e
  BY <1>1, <1>2, <1>3, <1>4 DEF submit_memory
<1>6. /\ IsKey(m) /\ m[1] = "memory" /\ m[2] = c.n /\ IsKey(r) /\ r[1] = "review" /\ r[2] = c.n
      /\ m = <<"memory", r[2]>>
  BY DEF IsKey
<1>7. status \in EntryStatuses /\ review \in EntryStatuses
      /\ (review \in {"pending", "promoted"} => status = "active")
      /\ (review \notin {"pending", "promoted"} => status = review)
  BY StatusesAre
<1>8. Lies(m, c.in) /\ Lies(r, c.in)
  BY <1>6, LevelIs DEF Lies
<1>0. m \notin DOMAIN d /\ r \notin DOMAIN d
  OBVIOUS
<1>. HIDE DEF m, r, status, review
<1>9. IsEntry(x) /\ x.in = c.in /\ x.status = status
  BY <1>1, <1>7 DEF New, IsEntry
<1>10. IsEntry(y) /\ y.in = c.in /\ y.status = review /\ y.to = m
  BY <1>2, <1>7 DEF New, IsEntry
<1>11. Sits(m, x, U)
  BY <1>6, <1>8, <1>9, SitsIs, LevelIs DEF Number
<1>12. Sits(r, y, U)
  BY <1>6, <1>8, <1>10, SitsIs, LevelIs DEF Number
<1>13. Makes(d, g, {"memory", "review", "idem"}, U)
  BY <1>3, <1>6, <1>11, MakesSelf, MakesPut
<1>14. Makes(d, e, {"memory", "review", "idem"}, U)
  BY <1>4, <1>6, <1>12, <1>13, MakesPut
<1>15. DOMAIN e = DOMAIN d \cup {m, r} /\ e[m] = x /\ e[r] = y /\ \A j \in DOMAIN d : e[j] = d[j]
  <2>1. DOMAIN g = DOMAIN d \cup {m} /\ g[m] = x /\ \A j \in DOMAIN d : g[j] = d[j]
    BY <1>0, <1>3 DEF Put
  <2>2. m /= r
    BY <1>6
  <2>3. DOMAIN e = DOMAIN g \cup {r} /\ e[r] = y /\ \A j \in DOMAIN g : j /= r => e[j] = g[j]
    BY <1>4 DEF Put
  <2>. QED  BY <1>0, <2>1, <2>2, <2>3
<1>16. ReviewInv(e)
  <2>. SUFFICES ASSUME NEW q \in DOMAIN e, q[1] = "review"
                PROVE  /\ e[q].to = <<"memory", q[2]>> /\ e[q].to \in DOMAIN e /\ e[e[q].to].in = e[q].in
                       /\ e[q].status \in {"pending", "promoted"} => e[e[q].to].status = "active"
                       /\ e[q].status \notin {"pending", "promoted"} => e[e[q].to].status = e[q].status
    BY DEF ReviewInv
  <2>1. CASE q = r
    BY <1>6, <1>7, <1>9, <1>10, <1>15, <2>1
  <2>2. CASE q /= r
    <3>1. q \in DOMAIN d /\ e[q] = d[q]
      BY <1>6, <1>15, <2>2
    <3>. QED  BY <1>15, <3>1 DEF ReviewInv
  <2>. QED  BY <2>1, <2>2
<1>. QED  BY <1>5, <1>14, <1>16

\* submit_human_operational_memory changes entries of memory, review, idem only, and reviews
\* and memories still tell the same.
LEMMA submit_human_operational_memoryMakes ==
  ASSUME NEW d, NEW c, NEW U, Shaped(d, U), Sent(c, U), DOMAIN c = DOMAIN NoCall, ReviewInv(d),
         <<"memory", c.n>> \notin DOMAIN d, <<"review", c.n>> \notin DOMAIN d,
         submit_human_operational_memory(d, c) /= Refused
  PROVE  LET e == submit_human_operational_memory(d, c)
         IN Makes(d, e, {"memory", "review", "idem"}, U) /\ ReviewInv(e)
<1>. DEFINE context == ContextKey(c.as)
            k == <<"idem", <<"human-memory", c.key>>>>
            w == In(d, d[context].in)
<1>1. PICK b : b = [c EXCEPT !.in = w, !.as = d[c.as].in]
  OBVIOUS
<1>2. PICK x : x = [New("recorded", w) EXCEPT !.by = <<"memory", c.n>>]
  OBVIOUS
<1>3. PICK f : f = submit_memory(d, b)
  OBVIOUS
<1>4. submit_human_operational_memory(d, c) = Put(f, k, x) /\ context \in DOMAIN d
  <2>1. Status(d, context) = "chosen"
    BY DEF submit_human_operational_memory
  <2>2. context \in DOMAIN d
    BY <2>1 DEF Status
  <2>3. submit_human_operational_memory(d, c)
        = Put(submit_memory(d, [c EXCEPT !.in = w, !.as = d[c.as].in]), k,
              [New("recorded", w) EXCEPT !.by = <<"memory", c.n>>])
    BY Zenon DEF submit_human_operational_memory
  <2>. QED  BY <1>1, <1>2, <1>3, <2>2, <2>3
<1>5. b.n = c.n /\ b.in = w
  BY <1>1 DEF NoCall
<1>6. IsKey(k) /\ k[1] = "idem"
  BY DEF IsKey
<1>7. w = Nobody \/ (IsKey(w) /\ Level(w[1]) \in {1, 2})
  <2>1. Lies(context, d[context].in) /\ IsKey(context) /\ context[1] = "context"
    <3>1. context[1] = "context"
      BY DEF ContextKey
    <3>. QED  BY <1>4, <3>1, ShapeIs
  <2>2. PICK a : a = d[context].in
    OBVIOUS
  <2>3. CASE a = Nobody
    BY <2>2, <2>3, ShapeIs DEF In
  <2>4. CASE a /= Nobody
    <3>1. IsKey(a) /\ Level(a[1]) \in 1..3
      BY <2>1, <2>2, <2>4, LevelIs, LevelType DEF Lies
    <3>2. Lies(a, w)
      BY <2>2, <3>1, ShapeIs
    <3>. QED  BY <3>1, <3>2, LevelType DEF Lies
  <2>. QED  BY <2>3, <2>4
<1>8. Lies(k, w) /\ Lies(<<"memory", b.n>>, b.in)
  BY <1>5, <1>6, <1>7, LevelIs DEF Lies
<1>. HIDE DEF k, w
<1>9. IsEntry(x) /\ x.in = w
  BY <1>2, StatusesAre DEF New, IsEntry
<1>10. Sits(k, x, U)
  BY <1>6, <1>8, <1>9, SitsIs, LevelIs DEF Generated
<1>11. Makes(d, f, {"memory", "review", "idem"}, U) /\ ReviewInv(f)
  BY <1>3, <1>5, <1>8, submit_memoryMakes DEF Sent
<1>12. Makes(d, Put(f, k, x), {"memory", "review", "idem"}, U)
  BY <1>6, <1>10, <1>11, MakesPut
<1>13. ReviewInv(Put(f, k, x))
  <2>1. Same(f, Put(f, k, x), {"memory", "review"})
    BY <1>6 DEF Same, Put
  <2>. QED  BY <1>11, <2>1, ReviewStays
<1>. QED  BY <1>4, <1>12, <1>13

\* decide_review changes entries of memory, review, idem only, and reviews and memories still
\* tell the same.
LEMMA decide_reviewMakes ==
  ASSUME NEW d, NEW c, NEW U, Shaped(d, U), ReviewInv(d), c.of[1] = "review",
         c.how \in DOMAIN TargetStatus, decide_review(d, c) /= Refused
  PROVE  LET e == decide_review(d, c)
         IN Makes(d, e, {"memory", "review", "idem"}, U) /\ ReviewInv(e)
<1>. DEFINE target == TargetStatus[c.how]
            shown == IF target = "promoted" THEN "active" ELSE target
            m == d[c.of].to
<1>1. PICK g : g = Mark(d, {c.of}, target)
  OBVIOUS
<1>2. PICK f : f = Mark(g, {m}, shown)
  OBVIOUS
<1>3. decide_review(d, c) = f /\ c.of \in DOMAIN d
  BY <1>1, <1>2 DEF decide_review
<1>4. target \in {"promoted", "rejected", "quarantined"} /\ target \in EntryStatuses /\ shown \in EntryStatuses
  BY StatusesAre DEF TargetStatus
<1>5. m = <<"memory", c.of[2]>> /\ m \in DOMAIN d /\ m[1] = "memory" /\ m /= c.of
  <2>1. m = <<"memory", c.of[2]>> /\ m \in DOMAIN d
    BY <1>3 DEF ReviewInv
  <2>2. m[1] = "memory"
    BY <2>1
  <2>. QED  BY <2>1, <2>2
<1>0. target = "promoted" => shown = "active"
  OBVIOUS
<1>11. target /= "promoted" => shown = target
  OBVIOUS
<1>. HIDE DEF target, shown, m
<1>6. Makes(d, g, {"memory", "review", "idem"}, U)
  <2>1. Makes(d, d, {"memory", "review", "idem"}, U)
    BY MakesSelf
  <2>. QED  BY <1>1, <1>4, <2>1, MakesMark
<1>7. Makes(d, f, {"memory", "review", "idem"}, U)
  BY <1>2, <1>4, <1>5, <1>6, MakesMark
<1>8. /\ DOMAIN f = DOMAIN d /\ f[c.of] = [d[c.of] EXCEPT !.status = target]
      /\ f[m] = [d[m] EXCEPT !.status = shown]
      /\ \A j \in DOMAIN d : j /= c.of /\ j /= m => f[j] = d[j]
  <2>1. DOMAIN g = DOMAIN d /\ g[c.of] = [d[c.of] EXCEPT !.status = target]
        /\ \A j \in DOMAIN d : j /= c.of => g[j] = d[j]
    BY <1>1, <1>3 DEF Mark
  <2>2. DOMAIN f = DOMAIN g /\ f[m] = [g[m] EXCEPT !.status = shown]
        /\ \A j \in DOMAIN g : j /= m => f[j] = g[j]
    BY <1>2, <1>5, <2>1 DEF Mark
  <2>. QED  BY <1>3, <1>5, <2>1, <2>2
<1>9. /\ f[c.of].status = target /\ f[c.of].in = d[c.of].in /\ f[c.of].to = m
      /\ f[m].status = shown /\ f[m].in = d[m].in
  <2>1. f[c.of].status = target /\ f[c.of].in = d[c.of].in /\ f[c.of].to = d[c.of].to
    BY <1>3, <1>4, <1>8, MarkIsSits
  <2>2. f[m].status = shown /\ f[m].in = d[m].in
    BY <1>4, <1>5, <1>8, MarkIsSits
  <2>. QED  BY <2>1, <2>2 DEF m
<1>10. ReviewInv(f)
  <2>. SUFFICES ASSUME NEW q \in DOMAIN f, q[1] = "review"
                PROVE  /\ f[q].to = <<"memory", q[2]>> /\ f[q].to \in DOMAIN f /\ f[f[q].to].in = f[q].in
                       /\ f[q].status \in {"pending", "promoted"} => f[f[q].to].status = "active"
                       /\ f[q].status \notin {"pending", "promoted"} => f[f[q].to].status = f[q].status
    BY DEF ReviewInv
  <2>1. CASE q = c.of
    <3>1. d[m].in = d[c.of].in
      BY <1>3, <2>1 DEF ReviewInv, m
    <3>2. f[q].to = m /\ m = <<"memory", q[2]>> /\ m \in DOMAIN f /\ f[m].in = f[q].in
      BY <1>5, <1>8, <1>9, <2>1, <3>1
    <3>3. f[q].status \in {"pending", "promoted"} => f[m].status = "active"
      BY <1>0, <1>4, <1>9, <2>1
    <3>4. f[q].status \notin {"pending", "promoted"} => f[m].status = f[q].status
      BY <1>11, <1>9, <2>1
    <3>. QED  BY <3>2, <3>3, <3>4, Zenon
  <2>2. CASE q /= c.of
    <3>1. q /= m /\ q \in DOMAIN d /\ f[q] = d[q]
      BY <1>5, <1>8, <2>2
    <3>2. d[q].to = <<"memory", q[2]>> /\ d[q].to \in DOMAIN d
      BY <3>1 DEF ReviewInv
    <3>3. q[2] /= c.of[2]
      BY <1>3, <2>2, <3>1, ShapeIs DEF IsKey
    <3>4. d[q].to /= m /\ d[q].to /= c.of
      <4>1. d[q].to[2] = q[2] /\ m[2] = c.of[2] /\ d[q].to[1] = "memory"
        BY <1>5, <3>2
      <4>. QED  BY <3>3, <4>1
    <3>. QED  BY <1>8, <3>1, <3>2, <3>4 DEF ReviewInv
  <2>. QED  BY <2>1, <2>2
<1>. QED  BY <1>3, <1>7, <1>10

---------------------------------------------------------------------------
(* Direct messages. *)

\* A call that changes messages keeps the other records.
LEMMA MessageRecords ==
  ASSUME NEW d, NEW e, NEW U, Makes(d, e, {"message", "notification", "receipt"}, U), Records(d), MessageInv(e)
  PROVE  Records(e)
<1>1. /\ Same(d, e, {"claim", "uaihead"})
      /\ Same(d, e, {"revision", "syncmemory"}) /\ Same(d, e, {"package", "record"})
      /\ Same(d, e, {"memory", "review"}) /\ Same(d, e, {"meeting", "routing"})
      /\ Same(d, e, {"server", "approval"}) /\ Same(d, e, {"rate"})
      /\ \A k \in DOMAIN d : k[1] = "room" => k \in DOMAIN e
  BY SameIs
<1>2. ClaimsInv(e) /\ SyncInv(e) /\ PackInv(e)
  BY <1>1, ClaimsStay, SyncStays, PackStays DEF Records
<1>3. ReviewInv(e) /\ RoutingInv(e) /\ ApprovalInv(e) /\ RateInv(e)
  BY <1>1, ReviewStays, RoutingStays, ApprovalStays, RateStays DEF Records
<1>. QED  BY <1>2, <1>3 DEF Records

\* submit_message changes entries of message, notification, receipt only, and what is read
\* still has its receipt.
LEMMA submit_messageMakes ==
  ASSUME NEW d, NEW c, NEW U, Shaped(d, U), Sent(c, U), MessageInv(d), c.in[1] = "workspace",
         \A a : <<"notification", <<c.n, a>>>> \notin DOMAIN d
  PROVE  LET e == submit_message(d, c)
         IN Makes(d, e, {"message", "notification", "receipt"}, U) /\ MessageInv(e)
<1>. DEFINE X == {"message", "notification", "receipt"}
            targets == IF c.to /= Nobody THEN {c.to} ELSE _active_agent_ids(d, c)
            m == <<"message", c.n>>
            notes == {<<"notification", <<c.n, a>>>> : a \in targets}
            sent == Put(d, m, [New("sent", c.in) EXCEPT !.by = c.as, !.to = c.to])
            told == [k \in notes |-> [New("unread", m) EXCEPT !.to = k[2][2]]]
            e == With(sent, told)
<1>1. submit_message(d, c) = e
  BY DEF submit_message
<1>2. PICK x : x = [New("sent", c.in) EXCEPT !.by = c.as, !.to = c.to]
  OBVIOUS
<1>3. IsEntry(x) /\ x.in = c.in
  BY <1>2, StatusesAre DEF New, IsEntry
<1>4. IsKey(m) /\ m[1] = "message" /\ m[2] = c.n
  BY DEF IsKey
<1>5. ASSUME NEW k \in notes
      PROVE  /\ IsKey(k) /\ k[1] = "notification" /\ k[2][1] = c.n /\ k \notin DOMAIN d
             /\ told[k].status = "unread" /\ told[k].in = m /\ IsEntry(told[k])
  <2>1. PICK a : k = <<"notification", <<c.n, a>>>>
    OBVIOUS
  <2>2. IsKey(k) /\ k[1] = "notification" /\ k[2][1] = c.n /\ k \notin DOMAIN d
    BY <2>1 DEF IsKey
  <2>3. PICK y : y = [New("unread", m) EXCEPT !.to = k[2][2]]
    OBVIOUS
  <2>4. told[k] = y
    BY <2>3
  <2>. HIDE DEF m, notes, told
  <2>5. y.status = "unread" /\ y.in = m /\ IsEntry(y)
    BY <2>3, StatusesAre DEF New, IsEntry
  <2>. QED  BY <2>2, <2>4, <2>5
<1>6. DOMAIN told = notes
  OBVIOUS
<1>. HIDE DEF notes, told, sent, e, m, targets
<1>7. Makes(d, sent, X, U)
  <2>1. Sits(m, x, U)
    BY <1>3, <1>4, SitsIs, LevelIs DEF Sent, Lies, Number
  <2>. QED  BY <1>2, <1>4, <2>1, MakesSelf, MakesPut DEF sent
<1>8. DOMAIN sent = DOMAIN d \cup {m} /\ \A j \in DOMAIN d : j /= m => sent[j] = d[j]
  BY DEF sent, Put
<1>9. /\ DOMAIN e = DOMAIN sent \cup notes /\ \A j \in notes : e[j] = told[j]
      /\ \A j \in DOMAIN sent \ notes : e[j] = sent[j]
  BY <1>6 DEF e, With
<1>10. Makes(d, e, X, U)
  <2>1. ASSUME NEW k \in notes PROVE Sits(k, told[k], U)
    BY <1>4, <1>5, SitsIs, LevelIs DEF Sent, Lies, Number
  <2>2. \A k \in notes : k \notin DOMAIN sent
    BY <1>4, <1>5, <1>8
  <2>3. \A k \in DOMAIN sent : k[1] \in Lasting => k \in DOMAIN e /\ SameLinks(sent[k], e[k])
    BY <1>9, <2>2 DEF SameLinks
  <2>. QED  BY <1>5, <1>7, <1>9, <2>1, <2>2, <2>3, Remake
<1>11. MessageInv(e)
  <2>0. ASSUME NEW k \in DOMAIN e, k[1] \in {"notification", "receipt"}
        PROVE  k \in notes \/ (k \in DOMAIN d /\ e[k] = d[k])
    BY <1>4, <1>8, <1>9, <2>0
  <2>1. ASSUME NEW r \in DOMAIN e, r[1] = "receipt"
        PROVE  /\ r \in DOMAIN d /\ e[r] = d[r] /\ e[r].in[1] = "notification" /\ e[r].in \in DOMAIN e
               /\ e[r].in \in DOMAIN d
    <3>1. r \in DOMAIN d /\ e[r] = d[r]
      BY <1>5, <2>0, <2>1
    <3>. QED  BY <1>8, <1>9, <2>1, <3>1 DEF MessageInv
  <2>2. ASSUME NEW n \in DOMAIN e, n[1] = "notification"
        PROVE  /\ e[n].in[1] = "message"
               /\ (e[n].status = "read") <=> \E r \in DOMAIN e : r[1] = "receipt" /\ e[r].in = n
    <3>1. CASE n \in notes
      <4>1. ~ \E r \in DOMAIN e : r[1] = "receipt" /\ e[r].in = n
        BY <1>5, <2>1, <3>1
      <4>. QED  BY <1>4, <1>5, <1>9, <3>1, <4>1
    <3>2. CASE n \in DOMAIN d /\ e[n] = d[n]
      <4>1. \A r \in DOMAIN d : r[1] = "receipt" => r \in DOMAIN e /\ e[r] = d[r]
        BY <1>4, <1>5, <1>8, <1>9
      <4>2. (\E r \in DOMAIN d : r[1] = "receipt" /\ d[r].in = n)
            <=> \E r \in DOMAIN e : r[1] = "receipt" /\ e[r].in = n
        BY <2>1, <4>1
      <4>. QED  BY <2>2, <3>2, <4>2 DEF MessageInv
    <3>. QED  BY <2>0, <2>2, <3>1, <3>2
  <2>. QED  BY <2>1, <2>2 DEF MessageInv
<1>. QED  BY <1>1, <1>10, <1>11

\* ack changes entries of message, notification, receipt only, and what is read still has its
\* receipt.
LEMMA ackMakes ==
  ASSUME NEW d, NEW c, NEW U, Shaped(d, U), Sent(c, U), MessageInv(d), c.of[1] = "notification",
         <<"receipt", c.n>> \notin DOMAIN d, ack(d, c) /= Refused
  PROVE  LET e == ack(d, c)
         IN Makes(d, e, {"message", "notification", "receipt"}, U) /\ MessageInv(e)
<1>. DEFINE X == {"message", "notification", "receipt"}
            k == <<"receipt", c.n>>
<1>1. PICK x : x = [New("read", c.of) EXCEPT !.by = c.as]
  OBVIOUS
<1>2. PICK g : g = Mark(d, {c.of}, "read")
  OBVIOUS
<1>3. PICK e : e = Put(g, k, x)
  OBVIOUS
<1>4. ack(d, c) = e /\ c.of \in DOMAIN d
  BY <1>1, <1>2, <1>3 DEF ack
<1>5. IsKey(k) /\ k[1] = "receipt" /\ k[2] = c.n /\ k \notin DOMAIN d
  BY DEF IsKey
<1>. HIDE DEF k
<1>6. IsEntry(x) /\ x.in = c.of
  BY <1>1, StatusesAre DEF New, IsEntry
<1>7. Sits(k, x, U)
  BY <1>5, <1>6, SitsIs, LevelIs DEF Sent, Lies, Number
<1>8. Makes(d, g, X, U)
  <2>1. Makes(d, d, X, U)
    BY MakesSelf
  <2>. QED  BY <1>2, <2>1, StatusesAre, MakesMark
<1>9. Makes(d, e, X, U)
  BY <1>3, <1>5, <1>7, <1>8, MakesPut
<1>10. /\ DOMAIN e = DOMAIN d \cup {k} /\ e[k] = x /\ e[c.of].status = "read" /\ e[c.of].in = d[c.of].in
       /\ \A j \in DOMAIN d : j /= c.of => e[j] = d[j]
  <2>1. DOMAIN g = DOMAIN d /\ g[c.of] = [d[c.of] EXCEPT !.status = "read"]
        /\ \A j \in DOMAIN d : j /= c.of => g[j] = d[j]
    BY <1>2, <1>4 DEF Mark
  <2>2. g[c.of].status = "read" /\ g[c.of].in = d[c.of].in
    BY <1>4, <2>1, MarkIsSits, StatusesAre
  <2>3. DOMAIN e = DOMAIN g \cup {k} /\ e[k] = x /\ \A j \in DOMAIN g : j /= k => e[j] = g[j]
    BY <1>3 DEF Put
  <2>. QED  BY <1>4, <1>5, <2>1, <2>2, <2>3
<1>11. MessageInv(e)
  <2>1. ASSUME NEW r \in DOMAIN e, r[1] = "receipt"
        PROVE  e[r].in[1] = "notification" /\ e[r].in \in DOMAIN e
    BY <1>4, <1>6, <1>10, <2>1 DEF MessageInv
  <2>2. ASSUME NEW n \in DOMAIN e, n[1] = "notification"
        PROVE  /\ e[n].in[1] = "message"
               /\ (e[n].status = "read") <=> \E r \in DOMAIN e : r[1] = "receipt" /\ e[r].in = n
    <3>0. n \in DOMAIN d
      BY <1>5, <1>10, <2>2
    <3>1. CASE n = c.of
      BY <1>5, <1>6, <1>10, <2>2, <3>0, <3>1 DEF MessageInv
    <3>2. CASE n /= c.of
      <4>1. (\E r \in DOMAIN d : r[1] = "receipt" /\ d[r].in = n)
            <=> \E r \in DOMAIN e : r[1] = "receipt" /\ e[r].in = n
        BY <1>6, <1>10, <3>2
      <4>. QED  BY <1>10, <2>2, <3>0, <3>2, <4>1 DEF MessageInv
    <3>. QED  BY <3>1, <3>2
  <2>. QED  BY <2>1, <2>2 DEF MessageInv
<1>. QED  BY <1>4, <1>9, <1>11

---------------------------------------------------------------------------
(* Meeting messages and routing decisions. *)

\* A call that changes meetings keeps the other records.
LEMMA RoutingRecords ==
  ASSUME NEW d, NEW e, NEW U, Makes(d, e, {"meeting", "routing"}, U), Records(d), RoutingInv(e)
  PROVE  Records(e)
<1>1. /\ Same(d, e, {"claim", "uaihead"})
      /\ Same(d, e, {"revision", "syncmemory"}) /\ Same(d, e, {"package", "record"})
      /\ Same(d, e, {"memory", "review"}) /\ Same(d, e, {"notification", "receipt"})
      /\ Same(d, e, {"server", "approval"}) /\ Same(d, e, {"rate"})
  BY SameIs
<1>2. ClaimsInv(e) /\ SyncInv(e) /\ PackInv(e)
  BY <1>1, ClaimsStay, SyncStays, PackStays DEF Records
<1>3. ReviewInv(e) /\ MessageInv(e) /\ ApprovalInv(e) /\ RateInv(e)
  BY <1>1, ReviewStays, MessageStays, ApprovalStays, RateStays DEF Records
<1>. QED  BY <1>2, <1>3 DEF Records

\* A meeting message may be put in its room.
LEMMA MeetingPut ==
  ASSUME NEW d, NEW c, NEW U, Shaped(d, U), Sent(c, U), RoutingInv(d), c.in[1] = "workspace",
         c.of[1] = "room", <<"meeting", c.n>> \notin DOMAIN d
  PROVE  LET e == _ensure_default_meeting_rooms(d, c.in)
             f == Put(e, <<"meeting", c.n>>, MeetingMessage(c, c.of))
         IN /\ Makes(d, f, {"meeting", "routing"}, U) /\ RoutingInv(f)
            /\ DOMAIN f = DOMAIN e \cup {<<"meeting", c.n>>} /\ f[<<"meeting", c.n>>].in = c.of
            /\ Shaped(e, U) /\ Makes(d, e, {"meeting", "routing"}, U)
<1>. DEFINE X == {"meeting", "routing"}
            m == <<"meeting", c.n>>
<1>1. PICK e : e = _ensure_default_meeting_rooms(d, c.in)
  OBVIOUS
<1>2. PICK x : x = [New("sent", c.of) EXCEPT !.by = c.as]
  OBVIOUS
<1>3. PICK f : f = Put(e, m, x)
  OBVIOUS
<1>4. f = Put(e, <<"meeting", c.n>>, MeetingMessage(c, c.of))
  BY <1>2, <1>3 DEF MeetingMessage
<1>5. IsKey(m) /\ m[1] = "meeting" /\ m[2] = c.n /\ m \notin DOMAIN d
  BY DEF IsKey
<1>6. Makes(d, e, {}, U)
  BY <1>1, MakesSelf, MakesRooms DEF Sent
<1>7. Makes(d, e, X, U) /\ Shaped(e, U)
  BY <1>6, MakesFewer DEF Makes
<1>8. m \notin DOMAIN e
  BY <1>5, <1>6 DEF Makes, Changes
<1>9. RoutingInv(e)
  <2>1. Same(d, e, {"meeting", "routing"}) /\ \A k \in DOMAIN d : k[1] = "room" => k \in DOMAIN e
    BY <1>6, SameIs
  <2>. QED  BY <2>1, RoutingStays
<1>. HIDE DEF m
<1>10. IsEntry(x) /\ x.in = c.of
  BY <1>2, StatusesAre DEF New, IsEntry
<1>11. Sits(m, x, U)
  BY <1>5, <1>10, SitsIs, LevelIs DEF Sent, Lies, Number
<1>12. Makes(d, f, X, U)
  BY <1>3, <1>5, <1>7, <1>11, MakesPut
<1>13. DOMAIN f = DOMAIN e \cup {m} /\ f[m] = x /\ \A j \in DOMAIN e : f[j] = e[j]
  BY <1>3, <1>8 DEF Put
<1>14. RoutingInv(f)
  BY <1>5, <1>9, <1>13 DEF RoutingInv
<1>. QED  BY <1>1, <1>4, <1>7, <1>10, <1>12, <1>13, <1>14 DEF m

\* submit_meeting_message changes entries of meeting, routing only, and decisions still have
\* their messages.
LEMMA submit_meeting_messageMakes ==
  ASSUME NEW d, NEW c, NEW U, Shaped(d, U), Sent(c, U), RoutingInv(d), c.in[1] = "workspace",
         c.of[1] = "room", <<"meeting", c.n>> \notin DOMAIN d, submit_meeting_message(d, c) /= Refused
  PROVE  LET e == submit_meeting_message(d, c)
         IN Makes(d, e, {"meeting", "routing"}, U) /\ RoutingInv(e)
BY MeetingPut DEF submit_meeting_message

\* submit_routing_decision changes entries of meeting, routing only, and decisions still have
\* their messages.
LEMMA submit_routing_decisionMakes ==
  ASSUME NEW d, NEW c, NEW U, Shaped(d, U), Sent(c, U), RoutingInv(d), c.in[1] = "workspace",
         c.of[1] = "room", c.to[1] = "room", <<"meeting", c.n>> \notin DOMAIN d,
         <<"routing", c.n>> \notin DOMAIN d, submit_routing_decision(d, c) /= Refused
  PROVE  LET e == submit_routing_decision(d, c)
         IN Makes(d, e, {"meeting", "routing"}, U) /\ RoutingInv(e)
<1>. DEFINE X == {"meeting", "routing"}
            m == <<"meeting", c.n>>
            k == <<"routing", c.n>>
<1>1. PICK e : e = _ensure_default_meeting_rooms(d, c.in)
  OBVIOUS
<1>2. PICK said : said = Put(e, m, MeetingMessage(c, c.of))
  OBVIOUS
<1>3. PICK x : x = [New("active", c.to) EXCEPT !.by = c.as, !.to = m]
  OBVIOUS
<1>4. PICK f : f = Put(said, k, x)
  OBVIOUS
<1>5. submit_routing_decision(d, c) = f /\ RoomOpen(e, c.in, c.of) /\ RoomOpen(e, c.in, c.to)
  BY <1>1, <1>2, <1>3, <1>4 DEF submit_routing_decision
<1>6. IsKey(m) /\ m[1] = "meeting" /\ m[2] = c.n /\ IsKey(k) /\ k[1] = "routing" /\ k[2] = c.n
  BY DEF IsKey
<1>7. /\ Makes(d, said, X, U) /\ RoutingInv(said) /\ DOMAIN said = DOMAIN e \cup {m}
      /\ said[m].in = c.of /\ Shaped(e, U)
  BY <1>1, <1>2, MeetingPut
<1>. HIDE DEF m, k
<1>8. c.of \in DOMAIN e /\ c.to \in DOMAIN e /\ c.of[2][1] = c.in /\ c.to[2][1] = c.in
  <2>1. c.of \in DOMAIN e /\ c.to \in DOMAIN e /\ e[c.of].in = c.in /\ e[c.to].in = c.in
    BY <1>5 DEF RoomOpen, Live, Status
  <2>. QED  BY <1>7, <2>1 DEF Shaped, Sits, Holding
<1>9. IsEntry(x) /\ x.in = c.to /\ x.to = m
  BY <1>3, StatusesAre DEF New, IsEntry
<1>10. Sits(k, x, U)
  BY <1>6, <1>9, SitsIs, LevelIs DEF Sent, Lies, Number
<1>11. Makes(d, f, X, U)
  BY <1>4, <1>6, <1>7, <1>10, MakesPut
<1>12. DOMAIN f = DOMAIN said \cup {k} /\ f[k] = x /\ \A j \in DOMAIN said : j /= k => f[j] = said[j]
  BY <1>4 DEF Put
<1>13. RoutingInv(f)
  <2>. SUFFICES ASSUME NEW q \in DOMAIN f, q[1] = "routing"
                PROVE  /\ f[q].to[1] = "meeting" /\ f[q].to \in DOMAIN f
                       /\ f[q].in[1] = "room" /\ f[q].in \in DOMAIN f
                       /\ f[f[q].to].in[1] = "room" /\ f[f[q].to].in \in DOMAIN f
                       /\ f[f[q].to].in[2][1] = f[q].in[2][1]
    BY DEF RoutingInv
  <2>1. CASE q = k
    <3>1. f[m] = said[m]
      BY <1>6, <1>7, <1>12
    <3>. QED  BY <1>6, <1>7, <1>8, <1>9, <1>12, <2>1, <3>1
  <2>2. CASE q /= k
    <3>1. q \in DOMAIN said /\ f[q] = said[q]
      BY <1>12, <2>2
    <3>2. said[q].to \in DOMAIN said /\ said[q].to[1] = "meeting"
      BY <1>7, <3>1 DEF RoutingInv
    <3>3. f[said[q].to] = said[said[q].to]
      BY <1>6, <1>12, <3>2
    <3>. QED  BY <1>7, <1>12, <3>1, <3>2, <3>3 DEF RoutingInv
  <2>. QED  BY <2>1, <2>2
<1>. QED  BY <1>5, <1>11, <1>13

---------------------------------------------------------------------------
(* Outbound servers and their approvals. *)

\* A call that changes servers keeps the other records.
LEMMA ApprovalRecords ==
  ASSUME NEW d, NEW e, NEW U, Makes(d, e, {"server", "approval"}, U), Records(d), ApprovalInv(e)
  PROVE  Records(e)
<1>1. /\ Same(d, e, {"claim", "uaihead"})
      /\ Same(d, e, {"revision", "syncmemory"}) /\ Same(d, e, {"package", "record"})
      /\ Same(d, e, {"memory", "review"}) /\ Same(d, e, {"notification", "receipt"})
      /\ Same(d, e, {"meeting", "routing"}) /\ Same(d, e, {"rate"})
      /\ \A k \in DOMAIN d : k[1] = "room" => k \in DOMAIN e
  BY SameIs
<1>2. ClaimsInv(e) /\ SyncInv(e) /\ PackInv(e)
  BY <1>1, ClaimsStay, SyncStays, PackStays DEF Records
<1>3. ReviewInv(e) /\ MessageInv(e) /\ RoutingInv(e) /\ RateInv(e)
  BY <1>1, ReviewStays, MessageStays, RoutingStays, RateStays DEF Records
<1>. QED  BY <1>2, <1>3 DEF Records

\* create_outbound_mcp_server changes entries of server, approval only, and approvals still fit
\* their servers.
LEMMA create_outbound_mcp_serverMakes ==
  ASSUME NEW d, NEW c, NEW U, Shaped(d, U), Sent(c, U), ApprovalInv(d), c.to[1] = "project",
         <<"server", c.n>> \notin DOMAIN d, create_outbound_mcp_server(d, c) /= Refused
  PROVE  LET e == create_outbound_mcp_server(d, c)
         IN Makes(d, e, {"server", "approval"}, U) /\ ApprovalInv(e)
<1>. DEFINE k == <<"server", c.n>>
<1>1. PICK x : x = [New("active", c.to) EXCEPT !.by = c.as, !.rev = 1, !.val = <<c.body, c.how>>]
  OBVIOUS
<1>2. PICK e : e = Put(d, k, x)
  OBVIOUS
<1>3. create_outbound_mcp_server(d, c) = e
  BY <1>1, <1>2 DEF create_outbound_mcp_server
<1>4. IsKey(k) /\ k[1] = "server" /\ k[2] = c.n /\ k \notin DOMAIN d
  BY DEF IsKey
<1>. HIDE DEF k
<1>5. IsEntry(x) /\ x.in = c.to
  BY <1>1, StatusesAre DEF New, IsEntry
<1>6. Sits(k, x, U)
  BY <1>4, <1>5, SitsIs, LevelIs DEF Sent, Lies, Number
<1>7. Makes(d, e, {"server", "approval"}, U)
  BY <1>2, <1>4, <1>6, MakesSelf, MakesPut
<1>8. DOMAIN e = DOMAIN d \cup {k} /\ \A j \in DOMAIN d : e[j] = d[j]
  BY <1>2, <1>4 DEF Put
<1>9. ApprovalInv(e)
  BY <1>4, <1>8 DEF ApprovalInv
<1>. QED  BY <1>3, <1>7, <1>9

\* The server is another and its approval binds nothing.
LEMMA ServerChanges ==
  ASSUME NEW d, NEW c, NEW U, Shaped(d, U), ApprovalInv(d), c.of \in DOMAIN d, c.of[1] = "server",
         NEW x, IsEntry(x), x.in = d[c.of].in, NEW e, DOMAIN e = DOMAIN d, e[c.of] = x,
         \A j \in DOMAIN d : j /= c.of => e[j] = Unbound(d, c)[j]
  PROVE  Makes(d, e, {"server", "approval"}, U) /\ ApprovalInv(e)
<1>. DEFINE X == {"server", "approval"}
            a == ApprovalKey(c)
<1>1. a[1] = "approval" /\ a[2] = c.of[2]
  BY DEF ApprovalKey
<1>2. IsKey(c.of) /\ Lies(c.of, x.in) /\ Sits(c.of, d[c.of], U)
  BY ShapeIs DEF Shaped
<1>3. Sits(c.of, x, U)
  BY <1>2 DEF Sits, Unused, Holding
<1>. HIDE DEF a
<1>4. /\ \A j \in DOMAIN d : j /= c.of /\ j /= a => e[j] = d[j]
      /\ a \in DOMAIN d => e[a].in = d[a].in /\ e[a].val = <<>> /\ Sits(a, e[a], U)
  <2>1. CASE a \notin DOMAIN d
    BY <2>1 DEF Unbound, a
  <2>2. CASE a \in DOMAIN d
    <3>1. PICK y : y = [[d[a] EXCEPT !.status = "none"] EXCEPT !.val = <<>>]
      OBVIOUS
    <3>2. Unbound(d, c) = [d EXCEPT ![a].status = "none", ![a].val = <<>>]
      BY <2>2 DEF Unbound, a
    <3>3. a /= c.of
      BY <1>1
    <3>4. e[a] = y /\ \A j \in DOMAIN d : j /= c.of /\ j /= a => e[j] = d[j]
      BY <2>2, <3>1, <3>2, <3>3
    <3>5. IsEntry(d[a]) /\ IsKey(a) /\ Lies(a, d[a].in)
      BY <2>2, ShapeIs
    <3>6. y = [status |-> "none", in |-> d[a].in, by |-> d[a].by, to |-> d[a].to,
               rev |-> d[a].rev, val |-> <<>>]
      BY <3>1, <3>5 DEF IsEntry
    <3>7. IsEntry(y) /\ y.in = d[a].in /\ y.val = <<>>
      BY <3>5, <3>6, StatusesAre DEF IsEntry
    <3>8. Sits(a, y, U)
      BY <1>1, <3>5, <3>7, SitsIs, LevelIs DEF Generated
    <3>. QED  BY <3>4, <3>7, <3>8
  <2>. QED  BY <2>1, <2>2
<1>5. Makes(d, e, X, U)
  <2>1. Makes(d, d, X, U)
    BY MakesSelf
  <2>2. \A j \in DOMAIN d : j[1] \in Lasting => j \in DOMAIN e /\ SameLinks(d[j], e[j])
    BY <1>1, <1>4 DEF SameLinks, Lasting
  <2>3. \A j \in DOMAIN e : \/ j \in DOMAIN d /\ e[j] = d[j]
                            \/ (j[1] \in X \/ j[1] = "room") /\ Sits(j, e[j], U)
    BY <1>1, <1>3, <1>4
  <2>4. \A j \in DOMAIN d \cap DOMAIN e : j[1] \notin X /\ j[1] /= "room" => e[j] = d[j]
    BY <1>1, <1>4
  <2>. QED  BY <2>1, <2>2, <2>3, <2>4, Remake
<1>6. ApprovalInv(e)
  <2>. SUFFICES ASSUME NEW q \in DOMAIN e, q[1] = "approval"
                PROVE  /\ e[q].in = <<"server", q[2]>> /\ e[q].in \in DOMAIN e
                       /\ e[q].val /= <<>> => e[q].val[1] = e[e[q].in].rev /\ e[q].val[2] = e[e[q].in].val
    BY DEF ApprovalInv
  <2>1. CASE q = a
    BY <1>4, <2>1 DEF ApprovalInv
  <2>2. CASE q /= a
    <3>1. e[q] = d[q] /\ d[q].in = <<"server", q[2]>> /\ d[q].in \in DOMAIN d
      BY <1>4, <2>2 DEF ApprovalInv
    <3>2. d[q].in /= c.of
      <4>1. q = <<q[1], q[2]>>
        BY ShapeIs DEF IsKey
      <4>2. c.of[2] /= q[2]
        BY <2>2, <4>1 DEF a, ApprovalKey
      <4>. QED  BY <3>1, <4>2
    <3>3. d[q].in /= a
      BY <1>1, <3>1
    <3>. QED  BY <1>4, <3>1, <3>2, <3>3 DEF ApprovalInv
  <2>. QED  BY <2>1, <2>2
<1>. QED  BY <1>5, <1>6

\* Taking back an approval leaves the server as it is.
LEMMA UnboundIs ==
  ASSUME NEW d, NEW c, c.of \in DOMAIN d, c.of[1] = "server"
  PROVE  DOMAIN Unbound(d, c) = DOMAIN d /\ Unbound(d, c)[c.of] = d[c.of]
<1>. DEFINE a == ApprovalKey(c)
<1>1. a[1] = "approval"
  BY DEF ApprovalKey
<1>. HIDE DEF a
<1>2. a /= c.of
  BY <1>1
<1>3. Unbound(d, c) = IF a \in DOMAIN d THEN [d EXCEPT ![a].status = "none", ![a].val = <<>>] ELSE d
  BY DEF Unbound, a
<1>. QED  BY <1>2, <1>3

\* update_outbound_mcp_server changes entries of server, approval only, and approvals still fit
\* their servers.
LEMMA update_outbound_mcp_serverMakes ==
  ASSUME NEW d, NEW c, NEW U, Shaped(d, U), ApprovalInv(d), c.of[1] = "server",
         update_outbound_mcp_server(d, c) /= Refused
  PROVE  LET e == update_outbound_mcp_server(d, c)
         IN Makes(d, e, {"server", "approval"}, U) /\ ApprovalInv(e)
<1>1. PICK f : f = Unbound(d, c)
  OBVIOUS
<1>2. PICK e : e = [f EXCEPT ![c.of].val = <<c.body, c.how>>, ![c.of].rev = @ + 1]
  OBVIOUS
<1>3. update_outbound_mcp_server(d, c) = e /\ c.of \in DOMAIN d
  BY <1>1, <1>2 DEF update_outbound_mcp_server, MayChangeServer
<1>4. DOMAIN f = DOMAIN d /\ f[c.of] = d[c.of]
  BY <1>1, <1>3, UnboundIs
<1>5. PICK x : x = [[d[c.of] EXCEPT !.val = <<c.body, c.how>>] EXCEPT !.rev = @ + 1]
  OBVIOUS
<1>6. DOMAIN e = DOMAIN d /\ e[c.of] = x /\ \A j \in DOMAIN d : j /= c.of => e[j] = f[j]
  BY <1>2, <1>3, <1>4, <1>5
<1>7. IsEntry(x) /\ x.in = d[c.of].in
  <2>1. IsEntry(d[c.of])
    BY <1>3, ShapeIs
  <2>2. PICK r \in Nat : r = d[c.of].rev + 1
    BY <2>1 DEF IsEntry
  <2>3. x = [status |-> d[c.of].status, in |-> d[c.of].in, by |-> d[c.of].by, to |-> d[c.of].to,
             rev |-> r, val |-> <<c.body, c.how>>]
    BY <1>5, <2>1, <2>2 DEF IsEntry
  <2>. QED  BY <2>1, <2>3 DEF IsEntry
<1>. QED  BY <1>1, <1>3, <1>6, <1>7, ServerChanges

\* disable_outbound_mcp_server changes entries of server, approval only, and approvals still
\* fit their servers.
LEMMA disable_outbound_mcp_serverMakes ==
  ASSUME NEW d, NEW c, NEW U, Shaped(d, U), ApprovalInv(d), c.of[1] = "server",
         disable_outbound_mcp_server(d, c) /= Refused
  PROVE  LET e == disable_outbound_mcp_server(d, c)
         IN Makes(d, e, {"server", "approval"}, U) /\ ApprovalInv(e)
<1>1. PICK f : f = Unbound(d, c)
  OBVIOUS
<1>2. PICK e : e = [f EXCEPT ![c.of].status = "disabled", ![c.of].rev = @ + 1]
  OBVIOUS
<1>3. disable_outbound_mcp_server(d, c) = e /\ c.of \in DOMAIN d
  BY <1>1, <1>2 DEF disable_outbound_mcp_server, MayChangeServer
<1>4. DOMAIN f = DOMAIN d /\ f[c.of] = d[c.of]
  BY <1>1, <1>3, UnboundIs
<1>5. PICK x : x = [[d[c.of] EXCEPT !.status = "disabled"] EXCEPT !.rev = @ + 1]
  OBVIOUS
<1>6. DOMAIN e = DOMAIN d /\ e[c.of] = x /\ \A j \in DOMAIN d : j /= c.of => e[j] = f[j]
  BY <1>2, <1>3, <1>4, <1>5
<1>7. IsEntry(x) /\ x.in = d[c.of].in
  <2>1. IsEntry(d[c.of])
    BY <1>3, ShapeIs
  <2>2. PICK r \in Nat : r = d[c.of].rev + 1
    BY <2>1 DEF IsEntry
  <2>3. x = [status |-> "disabled", in |-> d[c.of].in, by |-> d[c.of].by, to |-> d[c.of].to,
             rev |-> r, val |-> d[c.of].val]
    BY <1>5, <2>1, <2>2 DEF IsEntry
  <2>. QED  BY <2>1, <2>3, StatusesAre DEF IsEntry
<1>. QED  BY <1>1, <1>3, <1>6, <1>7, ServerChanges

\* set_outbound_mcp_server_approval changes entries of server, approval only, and approvals
\* still fit their servers.
LEMMA set_outbound_mcp_server_approvalMakes ==
  ASSUME NEW d, NEW c, NEW U, Shaped(d, U), ApprovalInv(d), c.of[1] = "server",
         c.how \in {"approved", "denied"}, set_outbound_mcp_server_approval(d, c) /= Refused
  PROVE  LET e == set_outbound_mcp_server_approval(d, c)
         IN Makes(d, e, {"server", "approval"}, U) /\ ApprovalInv(e)
<1>. DEFINE policy == normalize_project_policy(d, c)
            a == ApprovalKey(c)
            v == <<d[c.of].rev, d[c.of].val, policy.rev>>
            r == approval(d, c).rev + 1
<1>1. PICK x : x = [New(c.how, c.of) EXCEPT !.by = c.as, !.rev = r, !.val = v]
  OBVIOUS
<1>2. PICK e : e = Put(d, a, x)
  OBVIOUS
<1>3. set_outbound_mcp_server_approval(d, c) = e /\ Live(d, c.of)
  BY <1>1, <1>2 DEF set_outbound_mcp_server_approval
<1>4. IsKey(a) /\ a[1] = "approval" /\ a[2] = c.of[2]
  BY DEF IsKey, ApprovalKey
<1>5. c.of \in DOMAIN d /\ c.of = <<"server", c.of[2]>> /\ IsKey(c.of)
  <2>1. c.of \in DOMAIN d
    BY <1>3 DEF Live, Status
  <2>. QED  BY <2>1, ShapeIs DEF IsKey
<1>6. r \in Nat
  <2>1. approval(d, c).rev \in Nat
    BY ShapeIs, NewIs, StatusesAre DEF approval, IsEntry
  <2>. QED  BY <2>1
<1>0. v[1] = d[c.of].rev /\ v[2] = d[c.of].val
  OBVIOUS
<1>. HIDE DEF a, v, r, policy
<1>7. IsEntry(x) /\ x.in = c.of /\ x.val = v
  <2>1. c.how \in EntryStatuses
    BY StatusesAre
  <2>. QED  BY <1>1, <1>6, <2>1 DEF New, IsEntry
<1>8. Sits(a, x, U)
  BY <1>4, <1>5, <1>7, SitsIs, LevelIs DEF Generated, Lies
<1>9. Makes(d, e, {"server", "approval"}, U)
  BY <1>2, <1>4, <1>8, MakesSelf, MakesPut
<1>10. DOMAIN e = DOMAIN d \cup {a} /\ e[a] = x /\ \A j \in DOMAIN d : j /= a => e[j] = d[j]
  BY <1>2 DEF Put
<1>11. ApprovalInv(e)
  <2>. SUFFICES ASSUME NEW q \in DOMAIN e, q[1] = "approval"
                PROVE  /\ e[q].in = <<"server", q[2]>> /\ e[q].in \in DOMAIN e
                       /\ e[q].val /= <<>> => e[q].val[1] = e[e[q].in].rev /\ e[q].val[2] = e[e[q].in].val
    BY DEF ApprovalInv
  <2>1. CASE q = a
    <3>1. e[c.of] = d[c.of]
      BY <1>4, <1>5, <1>10
    <3>. QED  BY <1>0, <1>4, <1>5, <1>7, <1>10, <2>1, <3>1
  <2>2. CASE q /= a
    <3>1. q \in DOMAIN d /\ e[q] = d[q] /\ d[q].in = <<"server", q[2]>> /\ d[q].in \in DOMAIN d
      BY <1>10, <2>2 DEF ApprovalInv
    <3>2. e[d[q].in] = d[d[q].in]
      BY <1>4, <1>10, <3>1
    <3>. QED  BY <1>10, <3>1, <3>2 DEF ApprovalInv
  <2>. QED  BY <2>1, <2>2
<1>. QED  BY <1>3, <1>9, <1>11

---------------------------------------------------------------------------
(* Rate windows. *)

\* A call that changes windows keeps the other records.
LEMMA RateRecords ==
  ASSUME NEW d, NEW e, NEW U, Makes(d, e, {"rate"}, U), Records(d), RateInv(e)
  PROVE  Records(e)
<1>1. /\ Same(d, e, {"claim", "uaihead"})
      /\ Same(d, e, {"revision", "syncmemory"}) /\ Same(d, e, {"package", "record"})
      /\ Same(d, e, {"memory", "review"}) /\ Same(d, e, {"notification", "receipt"})
      /\ Same(d, e, {"meeting", "routing"}) /\ Same(d, e, {"server", "approval"})
      /\ \A k \in DOMAIN d : k[1] = "room" => k \in DOMAIN e
  BY SameIs
<1>2. ClaimsInv(e) /\ SyncInv(e) /\ PackInv(e)
  BY <1>1, ClaimsStay, SyncStays, PackStays DEF Records
<1>3. ReviewInv(e) /\ MessageInv(e) /\ RoutingInv(e) /\ ApprovalInv(e)
  BY <1>1, ReviewStays, MessageStays, RoutingStays, ApprovalStays DEF Records
<1>. QED  BY <1>2, <1>3 DEF Records

WindowsFit(d) == \A k \in DOMAIN d : k[1] = "rate" => d[k].rev <= RateLimit /\ d[k].in = Nobody

\* What a window counts stays within the limit.
LEMMA WindowIs ==
  ASSUME NEW d, NEW c, NEW k, k[1] = "rate", NEW U, Shaped(d, U), RateInv(d)
  PROVE  Window(d, c, k) \in 0..RateLimit
BY LimitsAreNumbers, ShapeIs DEF Window, RateInv, IsEntry

\* A window that counts no more than the limit may be put.
LEMMA WindowPut ==
  ASSUME NEW d, NEW e, NEW U, Makes(d, e, {"rate"}, U),
         WindowsFit(e),
         NEW k, IsKey(k), k[1] = "rate", NEW r \in 0..RateLimit
  PROVE  LET f == Put(e, k, [New("open", Nobody) EXCEPT !.rev = r])
         IN /\ Makes(d, f, {"rate"}, U)
            /\ WindowsFit(f)
            /\ DOMAIN f = DOMAIN e \cup {k}
<1>1. PICK x : x = [New("open", Nobody) EXCEPT !.rev = r]
  OBVIOUS
<1>2. r \in Nat /\ r <= RateLimit
  BY LimitsAreNumbers
<1>3. IsEntry(x) /\ x.in = Nobody /\ x.rev = r
  BY <1>1, <1>2, StatusesAre DEF New, IsEntry
<1>4. Sits(k, x, U)
  BY <1>3, SitsIs, LevelIs DEF Generated, Lies
<1>5. PICK f : f = Put(e, k, x)
  OBVIOUS
<1>6. Makes(d, f, {"rate"}, U)
  BY <1>4, <1>5, MakesPut
<1>7. DOMAIN f = DOMAIN e \cup {k} /\ f[k] = x /\ \A j \in DOMAIN e : j /= k => f[j] = e[j]
  BY <1>5 DEF Put
<1>8. WindowsFit(f)
  BY <1>2, <1>3, <1>7 DEF WindowsFit
<1>. QED  BY <1>1, <1>5, <1>6, <1>7, <1>8

\* The sweep of old windows keeps the others within their limits.
LEMMA SweepIs ==
  ASSUME NEW d, NEW c, NEW U, Shaped(d, U), RateInv(d), NEW keep
  PROVE  LET e == WithoutOldWindows(d, c, keep)
         IN /\ Makes(d, e, {"rate"}, U)
            /\ WindowsFit(e)
            /\ DOMAIN e = DOMAIN d \ ((Section(d, "rate") \cap c.late) \ keep)
            /\ RateInv(e)
<1>. DEFINE K == (Section(d, "rate") \cap c.late) \ keep
<1>1. PICK e : e = Drop(d, K)
  OBVIOUS
<1>2. e = WithoutOldWindows(d, c, keep)
  BY <1>1 DEF WithoutOldWindows
<1>3. \A k \in K : k[1] = "rate"
  BY DEF Section
<1>. HIDE DEF K
<1>4. Makes(d, e, {"rate"}, U)
  BY <1>1, <1>3, MakesSelf, MakesDrop
<1>5. DOMAIN e = DOMAIN d \ K /\ \A j \in DOMAIN e : e[j] = d[j]
  BY <1>1 DEF Drop
<1>6. WindowsFit(e)
  BY <1>5 DEF RateInv, WindowsFit
<1>7. Sources(e) \subseteq Sources(d)
  BY <1>5 DEF Sources, Section
<1>8. IsFiniteSet(Sources(e)) /\ Cardinality(Sources(e)) <= SourceCapacity
  <2>1. IsFiniteSet(Sources(d)) /\ Cardinality(Sources(d)) <= SourceCapacity
    BY DEF RateInv
  <2>2. IsFiniteSet(Sources(e)) /\ Cardinality(Sources(e)) <= Cardinality(Sources(d))
    BY <1>7, <2>1, FS_Subset
  <2>3. Cardinality(Sources(e)) \in Nat /\ Cardinality(Sources(d)) \in Nat
    BY <2>1, <2>2, FS_CardinalityType
  <2>. QED  BY <2>1, <2>2, <2>3, LimitsAreNumbers
<1>. QED  BY <1>2, <1>4, <1>5, <1>6, <1>8 DEF RateInv, WindowsFit, K

\* consume_connector_rate_limit changes entries of rate only, and windows still keep their
\* limits.
LEMMA consume_connector_rate_limitMakes ==
  ASSUME NEW d, NEW c, NEW U, Shaped(d, U), Sent(c, U), RateInv(d), c.of[1] = "rate",
         c.of[2][1] /= "source"
  PROVE  LET e == consume_connector_rate_limit(d, c)
         IN Makes(d, e, {"rate"}, U) /\ RateInv(e)
<1>. DEFINE count == Window(d, c, c.of)
            r == IF count < RateLimit THEN count + 1 ELSE count
<1>1. PICK e : e = WithoutOldWindows(d, c, {c.of})
  OBVIOUS
<1>2. PICK f : f = Put(e, c.of, [New("open", Nobody) EXCEPT !.rev = r])
  OBVIOUS
<1>3. consume_connector_rate_limit(d, c) = f
  BY <1>1, <1>2 DEF consume_connector_rate_limit
<1>4. r \in 0..RateLimit
  <2>1. count \in 0..RateLimit
    BY WindowIs
  <2>. HIDE DEF count
  <2>. QED  BY <2>1, LimitsAreNumbers
<1>. HIDE DEF r
<1>5. /\ Makes(d, e, {"rate"}, U) /\ RateInv(e)
      /\ WindowsFit(e)
  BY <1>1, SweepIs
<1>6. /\ Makes(d, f, {"rate"}, U) /\ DOMAIN f = DOMAIN e \cup {c.of}
      /\ WindowsFit(f)
  BY <1>2, <1>4, <1>5, WindowPut DEF Sent
<1>7. Sources(f) = Sources(e)
  BY <1>6 DEF Sources, Section
<1>. QED  BY <1>3, <1>5, <1>6, <1>7 DEF RateInv, WindowsFit

\* _consume_commons_layered_rate_limit_locked changes entries of rate only, and windows still
\* keep their limits.
LEMMA _consume_commons_layered_rate_limit_lockedMakes ==
  ASSUME NEW d, NEW c, NEW U, Shaped(d, U), Sent(c, U), RateInv(d), c.of[1] = "rate", c.to[1] = "rate",
         c.to[2][1] /= "source",
         _consume_commons_layered_rate_limit_locked(d, c) /= Refused
  PROVE  LET e == _consume_commons_layered_rate_limit_locked(d, c)
         IN Makes(d, e, {"rate"}, U) /\ RateInv(e)
<1>0. PICK K : K = {c.of, c.to}
  OBVIOUS
<1>1. PICK e : e = WithoutOldWindows(d, c, K)
  OBVIOUS
<1>2. /\ Makes(d, e, {"rate"}, U) /\ RateInv(e)
      /\ DOMAIN e = DOMAIN d \ ((Section(d, "rate") \cap c.late) \ K)
      /\ WindowsFit(e)
  BY <1>1, SweepIs
<1>3. CASE ~Admitted(d, c)
  BY <1>0, <1>1, <1>2, <1>3 DEF _consume_commons_layered_rate_limit_locked
<1>4. CASE Admitted(d, c)
  <2>1. PICK r, s : r = Window(d, c, c.of) + 1 /\ s = Window(d, c, c.to) + 1
    OBVIOUS
  <2>2. r \in 0..RateLimit /\ s \in 0..RateLimit
    <3>1. Window(d, c, c.of) \in 0..RateLimit /\ Window(d, c, c.to) \in 0..RateLimit
      BY WindowIs
    <3>2. Window(d, c, c.of) < RateLimit /\ Window(d, c, c.to) < RateLimit
      BY <1>4 DEF Admitted
    <3>. QED  BY <2>1, <3>1, <3>2, LimitsAreNumbers
  <2>3. PICK g : g = Put(e, c.of, [New("open", Nobody) EXCEPT !.rev = r])
    OBVIOUS
  <2>4. PICK f : f = Put(g, c.to, [New("open", Nobody) EXCEPT !.rev = s])
    OBVIOUS
  <2>5. _consume_commons_layered_rate_limit_locked(d, c) = f
    BY <1>0, <1>1, <1>4, <2>1, <2>3, <2>4 DEF _consume_commons_layered_rate_limit_locked
  <2>6. /\ Makes(d, g, {"rate"}, U) /\ DOMAIN g = DOMAIN e \cup {c.of}
        /\ WindowsFit(g)
    BY <1>2, <2>2, <2>3, WindowPut DEF Sent
  <2>7. /\ Makes(d, f, {"rate"}, U) /\ DOMAIN f = DOMAIN g \cup {c.to}
        /\ WindowsFit(f)
    <3>1. IsKey(c.to)
      BY DEF Sent
    <3>. QED  BY <2>2, <2>4, <2>6, <3>1, WindowPut
  <2>8. PICK live : live = Sources(d) \ c.late
    OBVIOUS
  <2>9. Sources(f) \subseteq live \cup {c.of}
    BY <1>0, <1>2, <2>6, <2>7, <2>8 DEF Sources, Section
  <2>10. IsFiniteSet(live) /\ Cardinality(live) <= SourceCapacity /\ Cardinality(live) \in Nat
    <3>1. IsFiniteSet(Sources(d)) /\ Cardinality(Sources(d)) <= SourceCapacity
      BY DEF RateInv
    <3>2. IsFiniteSet(live) /\ Cardinality(live) <= Cardinality(Sources(d))
      BY <2>8, <3>1, FS_Subset
    <3>3. Cardinality(live) \in Nat /\ Cardinality(Sources(d)) \in Nat
      BY <3>1, <3>2, FS_CardinalityType
    <3>. QED  BY <3>1, <3>2, <3>3, LimitsAreNumbers
  <2>11. c.of \in live \/ Cardinality(live) < SourceCapacity
    BY <1>4, <2>8 DEF Admitted
  <2>12. IsFiniteSet(live \cup {c.of}) /\ Cardinality(live \cup {c.of}) <= SourceCapacity
         /\ Cardinality(live \cup {c.of}) \in Nat
    <3>1. CASE c.of \in live
      <4>1. live \cup {c.of} = live
        BY <3>1
      <4>. QED  BY <2>10, <4>1
    <3>2. CASE c.of \notin live
      <4>1. IsFiniteSet(live \cup {c.of}) /\ Cardinality(live \cup {c.of}) = Cardinality(live) + 1
        BY <2>10, <3>2, FS_AddElement
      <4>. QED  BY <2>10, <2>11, <3>2, <4>1, LimitsAreNumbers
    <3>. QED  BY <3>1, <3>2
  <2>13. IsFiniteSet(Sources(f)) /\ Cardinality(Sources(f)) <= SourceCapacity
    <3>1. IsFiniteSet(Sources(f)) /\ Cardinality(Sources(f)) <= Cardinality(live \cup {c.of})
      BY <2>9, <2>12, FS_Subset
    <3>2. Cardinality(Sources(f)) \in Nat
      BY <3>1, FS_CardinalityType
    <3>. QED  BY <2>12, <3>1, <3>2, LimitsAreNumbers
  <2>. QED  BY <2>5, <2>7, <2>13 DEF RateInv, WindowsFit
<1>. QED  BY <1>3, <1>4

\* A document in which everything fits together.
Good(d, U) == Shaped(d, U) /\ SuccessionInv(d) /\ Records(d)

---------------------------------------------------------------------------
(* What a load sweeps. *)

\* What the sweep of a load takes away, entry by entry.
LEMMA SweptIs ==
  ASSUME NEW d, NEW l
  PROVE  LET e == _normalize_store(d, l)
             gone == Section(d, "message") \cap l
             notes == {k \in Section(d, "notification") : d[k].in \in gone}
             receipts == {k \in Section(d, "receipt") : d[k].in \in notes}
             routed == {d[k].to : k \in Section(d, "routing")}
             talk == (Section(d, "meeting") \cap l) \ routed
             old == Section(d, "audit") \cap l
         IN /\ DOMAIN e = DOMAIN d \ (old \cup gone \cup notes \cup receipts \cup talk)
            /\ \A k \in DOMAIN e : IF k[1] = "read" /\ d[k].to \in talk
                                   THEN e[k] = [d[k] EXCEPT !.to = Nobody] ELSE e[k] = d[k]
<1>1. PICK b : b = _prune_audit_log_data(d, l)
  OBVIOUS
<1>2. /\ DOMAIN b = DOMAIN d \ (Section(d, "audit") \cap l)
      /\ \A k \in DOMAIN b : b[k] = d[k]
  BY <1>1 DEF _prune_audit_log_data, Drop
<1>. DEFINE gone == Section(d, "message") \cap l
            notes == {k \in Section(d, "notification") : d[k].in \in gone}
            receipts == {k \in Section(d, "receipt") : d[k].in \in notes}
            routed == {d[k].to : k \in Section(d, "routing")}
            talk == (Section(d, "meeting") \cap l) \ routed
            old == Section(d, "audit") \cap l
            moved == [k \in DOMAIN b |->
                    IF k[1] = "read" /\ b[k].to \in talk
                    THEN [b[k] EXCEPT !.to = Nobody] ELSE b[k]]
<1>3. \A s : s /= "audit" => Section(b, s) = Section(d, s)
  BY <1>2 DEF Section
<1>4. /\ Section(b, "message") = Section(d, "message") /\ Section(b, "notification") = Section(d, "notification")
      /\ Section(b, "receipt") = Section(d, "receipt") /\ Section(b, "routing") = Section(d, "routing")
      /\ Section(b, "meeting") = Section(d, "meeting")
  BY <1>3
<1>5. \A s : s /= "audit" => \A k \in Section(d, s) : b[k] = d[k]
  BY <1>2, <1>3 DEF Section
<1>6. /\ \A k \in Section(d, "notification") : b[k] = d[k]
      /\ \A k \in Section(d, "receipt") : b[k] = d[k]
      /\ \A k \in Section(d, "routing") : b[k] = d[k]
  BY <1>5
<1>7. notes = {k \in Section(b, "notification") : b[k].in \in gone}
  BY <1>4, <1>6
<1>8. receipts = {k \in Section(b, "receipt") : b[k].in \in notes}
  BY <1>4, <1>6
<1>9. routed = {b[k].to : k \in Section(b, "routing")}
  BY <1>4, <1>6
<1>10. _normalize_store(d, l) = Drop(moved, gone \cup notes \cup receipts \cup talk)
  <2>1. _normalize_store(d, l) = _prune_coordination_data(b, l)
    BY <1>1 DEF _normalize_store
  <2>2. gone = Section(b, "message") \cap l
    BY <1>4
  <2>3. talk = (Section(b, "meeting") \cap l) \ routed
    BY <1>4
  <2>4. PICK g, n, r, t, x : g = gone /\ n = notes /\ r = receipts /\ t = talk /\ x = routed
    OBVIOUS
  <2>. HIDE DEF gone, notes, receipts, talk, routed
  <2>5. /\ g = Section(b, "message") \cap l
        /\ n = {k \in Section(b, "notification") : b[k].in \in g}
        /\ r = {k \in Section(b, "receipt") : b[k].in \in n}
        /\ x = {b[k].to : k \in Section(b, "routing")}
        /\ t = (Section(b, "meeting") \cap l) \ x
    BY <2>2, <2>3, <2>4, <1>7, <1>8, <1>9
  <2>6. _prune_coordination_data(b, l) =
          Drop([k \in DOMAIN b |-> IF k[1] = "read" /\ b[k].to \in t
                                    THEN [b[k] EXCEPT !.to = Nobody] ELSE b[k]],
               g \cup n \cup r \cup t)
    BY <2>5, Zenon DEF _prune_coordination_data
  <2>. QED  BY <2>1, <2>4, <2>6
<1>. HIDE DEF gone, notes, receipts, talk, old
<1>11. DOMAIN moved = DOMAIN d \ old
       /\ \A k \in DOMAIN moved : IF k[1] = "read" /\ d[k].to \in talk
                                  THEN moved[k] = [d[k] EXCEPT !.to = Nobody] ELSE moved[k] = d[k]
  BY <1>2 DEF old
<1>12. PICK e : e = _normalize_store(d, l)
  OBVIOUS
<1>. HIDE DEF moved
<1>13. DOMAIN e = DOMAIN moved \ (gone \cup notes \cup receipts \cup talk)
       /\ \A k \in DOMAIN e : e[k] = moved[k]
  BY <1>10, <1>12 DEF Drop
<1>14. DOMAIN e = DOMAIN d \ (old \cup gone \cup notes \cup receipts \cup talk)
  BY <1>11, <1>13
<1>15. \A k \in DOMAIN e : IF k[1] = "read" /\ d[k].to \in talk
                           THEN e[k] = [d[k] EXCEPT !.to = Nobody] ELSE e[k] = d[k]
  BY <1>11, <1>13
<1>. QED  BY <1>12, <1>14, <1>15 DEF gone, notes, receipts, talk, old, routed

\* The sweep of a load leaves a good document.
LEMMA SweepKeeps ==
  ASSUME NEW d, NEW l, NEW U, Good(d, U)
  PROVE  Good(_normalize_store(d, l), U)
<1>. DEFINE gone == Section(d, "message") \cap l
            notes == {k \in Section(d, "notification") : d[k].in \in gone}
            receipts == {k \in Section(d, "receipt") : d[k].in \in notes}
            routed == {d[k].to : k \in Section(d, "routing")}
            talk == (Section(d, "meeting") \cap l) \ routed
            old == Section(d, "audit") \cap l
            e == _normalize_store(d, l)
<1>1. /\ DOMAIN e = DOMAIN d \ (old \cup gone \cup notes \cup receipts \cup talk)
      /\ \A k \in DOMAIN e : IF k[1] = "read" /\ d[k].to \in talk
                             THEN e[k] = [d[k] EXCEPT !.to = Nobody] ELSE e[k] = d[k]
  BY SweptIs
<1>2. /\ \A k \in old : k[1] = "audit"
      /\ \A k \in gone : k[1] = "message"
      /\ \A k \in notes : k[1] = "notification" /\ d[k].in \in gone
      /\ \A k \in receipts : k[1] = "receipt" /\ d[k].in \in notes
      /\ \A k \in talk : k[1] = "meeting" /\ k \notin routed
      /\ \A k \in DOMAIN d : k[1] = "notification" /\ d[k].in \in gone => k \in notes
      /\ \A k \in DOMAIN d : k[1] = "receipt" /\ d[k].in \in notes => k \in receipts
      /\ \A k \in DOMAIN d : k[1] = "routing" => d[k].to \in routed
  BY DEF Section
<1>. HIDE DEF gone, notes, receipts, routed, talk, old, e
<1>3. Shaped(d, U) /\ SuccessionInv(d) /\ Records(d)
  BY DEF Good
<1>4. Shaped(e, U)
  <2>. SUFFICES ASSUME NEW k \in DOMAIN e PROVE Sits(k, e[k], U)
    BY DEF Shaped
  <2>1. k \in DOMAIN d /\ Sits(k, d[k], U)
    BY <1>1, <1>3 DEF Shaped
  <2>2. CASE k[1] = "read" /\ d[k].to \in talk
    <3>1. PICK y : y = [d[k] EXCEPT !.to = Nobody]
      OBVIOUS
    <3>2. IsEntry(d[k]) /\ Lies(k, d[k].in) /\ IsKey(k)
      BY <2>1 DEF Sits
    <3>3. y = [status |-> d[k].status, in |-> d[k].in, by |-> d[k].by, to |-> Nobody,
               rev |-> d[k].rev, val |-> d[k].val]
      BY <3>1, <3>2 DEF IsEntry
    <3>4. IsEntry(y) /\ y.in = d[k].in
      BY <3>2, <3>3 DEF IsEntry
    <3>5. Sits(k, y, U)
      BY <2>2, <3>2, <3>4, SitsIs, LevelIs DEF Generated
    <3>. QED  BY <1>1, <2>2, <3>1, <3>5
  <2>3. CASE ~(k[1] = "read" /\ d[k].to \in talk)
    BY <1>1, <2>1, <2>3
  <2>. QED  BY <2>2, <2>3
<1>5. \A k \in DOMAIN e : k \in DOMAIN d /\ (k[1] /= "read" => e[k] = d[k])
  BY <1>1
<1>6. \A k \in DOMAIN d : k[1] \notin {"audit", "message", "notification", "receipt", "meeting"} => k \in DOMAIN e
  BY <1>1, <1>2
<1>7. /\ Same(d, e, {"claim", "uaihead"}) /\ Same(d, e, {"revision", "syncmemory"})
      /\ Same(d, e, {"package", "record"}) /\ Same(d, e, {"memory", "review"})
      /\ Same(d, e, {"server", "approval"}) /\ Same(d, e, {"rate"})
  BY <1>5, <1>6 DEF Same
<1>8. ClaimsInv(e) /\ SyncInv(e) /\ PackInv(e)
  BY <1>3, <1>7, ClaimsStay, SyncStays, PackStays DEF Records
<1>9. ReviewInv(e) /\ ApprovalInv(e) /\ RateInv(e)
  BY <1>3, <1>7, ReviewStays, ApprovalStays, RateStays DEF Records
<1>10. MessageInv(e)
  <2>1. ASSUME NEW r \in DOMAIN e, r[1] = "receipt"
        PROVE  e[r].in[1] = "notification" /\ e[r].in \in DOMAIN e
    <3>1. r \in DOMAIN d /\ e[r] = d[r] /\ r \notin receipts
      BY <1>1, <1>5, <2>1
    <3>2. d[r].in[1] = "notification" /\ d[r].in \in DOMAIN d /\ d[r].in \notin notes
      BY <1>2, <1>3, <2>1, <3>1 DEF Records, MessageInv
    <3>. QED  BY <1>1, <1>2, <3>1, <3>2
  <2>2. ASSUME NEW n \in DOMAIN e, n[1] = "notification"
        PROVE  /\ e[n].in[1] = "message"
               /\ (e[n].status = "read") <=> \E r \in DOMAIN e : r[1] = "receipt" /\ e[r].in = n
    <3>1. n \in DOMAIN d /\ e[n] = d[n] /\ n \notin notes
      BY <1>1, <1>5, <2>2
    <3>2. \A r \in DOMAIN d : r[1] = "receipt" /\ d[r].in = n => r \in DOMAIN e
      BY <1>1, <1>2, <3>1
    <3>3. (\E r \in DOMAIN d : r[1] = "receipt" /\ d[r].in = n)
          <=> \E r \in DOMAIN e : r[1] = "receipt" /\ e[r].in = n
      BY <1>5, <3>2
    <3>. QED  BY <1>3, <2>2, <3>1, <3>3 DEF Records, MessageInv
  <2>. QED  BY <2>1, <2>2 DEF MessageInv
<1>11. RoutingInv(e)
  <2>. SUFFICES ASSUME NEW q \in DOMAIN e, q[1] = "routing"
                PROVE  /\ e[q].to[1] = "meeting" /\ e[q].to \in DOMAIN e
                       /\ e[q].in[1] = "room" /\ e[q].in \in DOMAIN e
                       /\ e[e[q].to].in[1] = "room" /\ e[e[q].to].in \in DOMAIN e
                       /\ e[e[q].to].in[2][1] = e[q].in[2][1]
    BY DEF RoutingInv
  <2>1. q \in DOMAIN d /\ e[q] = d[q]
    BY <1>5
  <2>2. /\ d[q].to[1] = "meeting" /\ d[q].to \in DOMAIN d
        /\ d[q].in[1] = "room" /\ d[q].in \in DOMAIN d
        /\ d[d[q].to].in[1] = "room" /\ d[d[q].to].in \in DOMAIN d
        /\ d[d[q].to].in[2][1] = d[q].in[2][1]
    BY <1>3, <2>1 DEF Records, RoutingInv
  <2>3. d[q].to \notin talk
    BY <1>2, <2>1
  <2>4. d[q].to \in DOMAIN e /\ e[d[q].to] = d[d[q].to]
    BY <1>1, <1>2, <1>5, <2>2, <2>3
  <2>. QED  BY <1>6, <2>1, <2>2, <2>4
<1>12. SuccessionInv(e)
  <2>. SUFFICES ASSUME NEW r \in DOMAIN e, r[1] = "replacement" PROVE Follows(e, r)
    BY DEF SuccessionInv
  <2>1. r \in DOMAIN d /\ Follows(d, r)
    BY <1>3, <1>5 DEF SuccessionInv
  <2>2. e[r] = d[r]
    BY <1>5
  <2>3. d[r].to \in DOMAIN e /\ e[d[r].to] = d[d[r].to]
    BY <1>5, <1>6, <2>1 DEF Follows
  <2>4. d[d[r].to].in \in DOMAIN e /\ e[d[d[r].to].in] = d[d[d[r].to].in]
    BY <1>5, <1>6, <2>1 DEF Follows
  <2>. QED  BY <2>1, <2>2, <2>3, <2>4 DEF Follows
<1>. QED  BY <1>4, <1>8, <1>9, <1>10, <1>11, <1>12 DEF Good, Records, e

---------------------------------------------------------------------------
(* A company's purge: what belongs together goes together. *)

\* An entry lies in a company exactly when what it lies under does.
LEMMA AncestorsUp ==
  ASSUME NEW d, NEW U, Shaped(d, U), NEW k \in DOMAIN d, NEW o, o[1] = "company", k[1] /= "company"
  PROVE  o \in Ancestors(d, k) <=> o \in Ancestors(d, d[k].in)
<1>1. PICK p, q, r, s, t : /\ p = In(d, k) /\ q = In(d, p) /\ r = In(d, q) /\ s = In(d, r)
                           /\ t = In(d, s)
  OBVIOUS
<1>2. p = d[k].in
  BY <1>1 DEF In
<1>3. Nobody \notin DOMAIN d /\ \A j : IsKey(j) => Lies(j, In(d, j))
  BY ShapeIs
<1>4. In(d, Nobody) = Nobody
  BY <1>3 DEF In
<1>5. IsKey(k) /\ Level(k[1]) \in 1..5
  BY ShapeIs, LevelType DEF Shaped, Sits
<1>6. p = Nobody \/ (IsKey(p) /\ Level(p[1]) \in 1..4)
  BY <1>1, <1>3, <1>5, LevelType DEF Lies
<1>7. q = Nobody \/ (IsKey(q) /\ Level(q[1]) \in 1..3)
  BY <1>1, <1>3, <1>4, <1>6, LevelType DEF Lies
<1>8. r = Nobody \/ (IsKey(r) /\ Level(r[1]) \in 1..2)
  BY <1>1, <1>3, <1>4, <1>7, LevelType DEF Lies
<1>9. s = Nobody \/ (IsKey(s) /\ Level(s[1]) \in 1..1)
  BY <1>1, <1>3, <1>4, <1>8, LevelType DEF Lies
<1>10. t = Nobody
  BY <1>1, <1>3, <1>4, <1>9, LevelType DEF Lies
<1>11. Ancestors(d, k) = {k, p, q, r, s} \ {Nobody} /\ Ancestors(d, p) = {p, q, r, s, t} \ {Nobody}
  BY <1>1 DEF Ancestors, Parent
<1>12. o /= k
  OBVIOUS
<1>. QED  BY <1>2, <1>10, <1>11, <1>12

\* A document without everything that lies in one company is good.
LEMMA PurgeKeeps ==
  ASSUME NEW d, NEW U, Good(d, U), NEW o, o[1] = "company", NEW gone, NEW e,
         DOMAIN e = DOMAIN d \ gone,
         \A k \in DOMAIN d : k[1] /= "account" => (k \in gone <=> o \in Ancestors(d, k)),
         \A k \in DOMAIN e : k[1] /= "session" => e[k] = d[k],
         \A k \in DOMAIN e : e[k] = d[k] \/ e[k] = [d[k] EXCEPT !.by = Nobody]
  PROVE  Good(e, U)
<1>1. Shaped(d, U) /\ SuccessionInv(d) /\ Records(d)
  BY DEF Good
<1>2. PICK H : H = {p : p \in {d[k].in : k \in DOMAIN d}} \cap {p \in {d[k].in : k \in DOMAIN d} : o \in Ancestors(d, p)}
  OBVIOUS
<1>3. ASSUME NEW k \in DOMAIN d, k[1] \notin {"account", "company"}
      PROVE  k \in DOMAIN e <=> d[k].in \notin H
  <2>1. k \in gone <=> o \in Ancestors(d, d[k].in)
    BY <1>1, <1>3, AncestorsUp
  <2>. QED  BY <1>2, <2>1
<1>4. \A k \in DOMAIN e : k \in DOMAIN d
  OBVIOUS
<1>5. Shaped(e, U)
  <2>. SUFFICES ASSUME NEW k \in DOMAIN e PROVE Sits(k, e[k], U)
    BY DEF Shaped
  <2>1. Sits(k, d[k], U)
    BY <1>1 DEF Shaped
  <2>2. CASE k[1] = "session" /\ e[k] = [d[k] EXCEPT !.by = Nobody]
    <3>1. PICK y : y = [d[k] EXCEPT !.by = Nobody]
      OBVIOUS
    <3>2. IsEntry(d[k]) /\ Lies(k, d[k].in) /\ IsKey(k)
      BY <2>1 DEF Sits
    <3>3. y = [status |-> d[k].status, in |-> d[k].in, by |-> Nobody, to |-> d[k].to,
               rev |-> d[k].rev, val |-> d[k].val]
      BY <3>1, <3>2 DEF IsEntry
    <3>4. IsEntry(y) /\ y.in = d[k].in /\ y.by = Nobody
      BY <3>2, <3>3 DEF IsEntry
    <3>5. Holding(k, y) /\ Unused(k, y, U)
      BY <2>1, <2>2, <3>4 DEF Holding, Unused, Sits, Ref
    <3>. QED  BY <2>1, <2>2, <3>1, <3>2, <3>4, <3>5 DEF Sits
  <2>. QED  BY <2>1, <2>2
\* The gone and the left of every family.
<1>6. \A k, j \in DOMAIN d : k[1] \notin {"account", "company"} /\ j[1] \notin {"account", "company"}
         /\ (d[k].in = d[j].in) => (k \in DOMAIN e <=> j \in DOMAIN e)
  BY <1>3
<1>7. ASSUME NEW k \in DOMAIN d, k[1] \notin {"account", "company"}, d[k].in \in DOMAIN d,
             d[k].in[1] \notin {"account"}
      PROVE  k \in DOMAIN e <=> d[k].in \in DOMAIN e
  <2>1. k \in gone <=> o \in Ancestors(d, d[k].in)
    BY <1>1, <1>7, AncestorsUp
  <2>. QED  BY <1>7, <2>1
<1>8. ClaimsInv(e)
  <2>1. ASSUME NEW k \in DOMAIN e, k[1] = "claim"
        PROVE  /\ e[k].in[1] = "uaihead"
               /\ e[k].status = "active" => e[k].in \in DOMAIN e /\ e[e[k].in].to = k
    <3>1. e[k] = d[k] /\ d[k].in[1] = "uaihead"
      BY <1>1, <1>4, <2>1 DEF Records, ClaimsInv
    <3>2. ASSUME d[k].status = "active" PROVE d[k].in \in DOMAIN e /\ e[d[k].in].to = k
      <4>1. d[k].in \in DOMAIN d /\ d[d[k].in].to = k
        BY <1>1, <1>4, <2>1, <3>2 DEF Records, ClaimsInv
      <4>2. d[k].in \in DOMAIN e
        BY <1>4, <1>7, <2>1, <3>1, <4>1
      <4>. QED  BY <3>1, <4>1, <4>2
    <3>. QED  BY <3>1, <3>2
  <2>2. ASSUME NEW h \in DOMAIN e, h[1] = "uaihead", e[h].to /= Nobody
        PROVE  /\ e[h].to \in DOMAIN e /\ e[h].to[1] = "claim"
               /\ e[e[h].to].status = "active" /\ e[e[h].to].in = h
    <3>1. e[h] = d[h] /\ h \in DOMAIN d
      BY <2>2
    <3>2. /\ d[h].to \in DOMAIN d /\ d[h].to[1] = "claim"
          /\ d[d[h].to].status = "active" /\ d[d[h].to].in = h
      BY <1>1, <2>2, <3>1 DEF Records, ClaimsInv
    <3>3. d[h].to \in DOMAIN e
      BY <1>7, <2>2, <3>1, <3>2
    <3>. QED  BY <3>1, <3>2, <3>3
  <2>. QED  BY <2>1, <2>2 DEF ClaimsInv
<1>9. SyncInv(e)
  <2>0. SyncInv(d)
    BY <1>1 DEF Records
  <2>1. \A r \in DOMAIN e : r[1] = "revision" => e[r] = d[r] /\ r \in DOMAIN d
    OBVIOUS
  <2>2. \A r, s \in DOMAIN e : r[1] = "revision" /\ s[1] = "revision" /\ e[r].rev = e[s].rev => r = s
    BY <2>0, <2>1 DEF SyncInv
  <2>3. ASSUME NEW h \in DOMAIN e, h[1] = "syncmemory"
        PROVE  /\ e[h].to \in DOMAIN e /\ e[h].to[1] = "revision" /\ e[h].rev = e[e[h].to].rev
               /\ e[e[h].to].in = h
               /\ \A r \in DOMAIN e : r[1] = "revision" /\ e[r].in = h /\ e[r].status = "applied" =>
                     e[r].rev <= e[h].rev
    <3>1. e[h] = d[h] /\ h \in DOMAIN d
      BY <2>3
    <3>2. /\ d[h].to \in DOMAIN d /\ d[h].to[1] = "revision" /\ d[h].rev = d[d[h].to].rev
          /\ d[d[h].to].in = h
          /\ \A r \in DOMAIN d : r[1] = "revision" /\ d[r].in = h /\ d[r].status = "applied" =>
                d[r].rev <= d[h].rev
      BY <2>0, <2>3, <3>1 DEF SyncInv
    <3>3. d[h].to \in DOMAIN e
      BY <1>7, <2>3, <3>1, <3>2
    <3>. QED  BY <2>1, <3>1, <3>2, <3>3
  <2>4. \E b \in Nat : \A r \in DOMAIN e : r[1] = "revision" => e[r].rev <= b
    BY <2>0, <2>1 DEF SyncInv
  <2>. QED  BY <2>2, <2>3, <2>4 DEF SyncInv
<1>10. PackInv(e)
  <2>0. PackInv(d)
    BY <1>1 DEF Records
  <2>1. ASSUME NEW k \in DOMAIN e, k[1] = "record"
        PROVE  e[k].in = <<"package", k[2][1]>> /\ e[k].in \in DOMAIN e
    <3>1. e[k] = d[k] /\ k \in DOMAIN d /\ d[k].in = <<"package", k[2][1]>> /\ d[k].in \in DOMAIN d
      BY <2>0, <2>1 DEF PackInv
    <3>2. d[k].in[1] = "package"
      BY <3>1
    <3>. QED  BY <1>7, <2>1, <3>1, <3>2
  <2>2. ASSUME NEW p \in DOMAIN e, p[1] = "package"
        PROVE  (e[p].status = "ready") <=> \A n \in RequiredPaths : <<"record", <<p[2], n>>>> \in DOMAIN e
    <3>1. e[p] = d[p] /\ p \in DOMAIN d /\ p = <<"package", p[2]>>
      BY <1>1, <2>2, ShapeIs DEF IsKey
    <3>2. ASSUME NEW n, <<"record", <<p[2], n>>>> \in DOMAIN d PROVE <<"record", <<p[2], n>>>> \in DOMAIN e
      <4>1. PICK k : k = <<"record", <<p[2], n>>>>
        OBVIOUS
      <4>2. k[1] = "record" /\ k[2][1] = p[2] /\ k \in DOMAIN d
        BY <3>2, <4>1
      <4>3. d[k].in = p
        BY <2>0, <3>1, <4>2 DEF PackInv
      <4>. QED  BY <1>7, <2>2, <3>1, <4>1, <4>2, <4>3
    <3>3. \A n : <<"record", <<p[2], n>>>> \in DOMAIN d <=> <<"record", <<p[2], n>>>> \in DOMAIN e
      BY <1>4, <3>2
    <3>. QED  BY <2>0, <2>2, <3>1, <3>3 DEF PackInv
  <2>. QED  BY <2>1, <2>2 DEF PackInv
<1>11. ReviewInv(e)
  <2>. SUFFICES ASSUME NEW q \in DOMAIN e, q[1] = "review"
                PROVE  /\ e[q].to = <<"memory", q[2]>> /\ e[q].to \in DOMAIN e /\ e[e[q].to].in = e[q].in
                       /\ e[q].status \in {"pending", "promoted"} => e[e[q].to].status = "active"
                       /\ e[q].status \notin {"pending", "promoted"} => e[e[q].to].status = e[q].status
    BY DEF ReviewInv
  <2>1. q \in DOMAIN d /\ e[q] = d[q]
    OBVIOUS
  <2>2. /\ d[q].to = <<"memory", q[2]>> /\ d[q].to \in DOMAIN d /\ d[d[q].to].in = d[q].in
        /\ d[q].status \in {"pending", "promoted"} => d[d[q].to].status = "active"
        /\ d[q].status \notin {"pending", "promoted"} => d[d[q].to].status = d[q].status
    BY <1>1, <2>1 DEF Records, ReviewInv
  <2>3. d[q].to[1] = "memory"
    BY <2>2
  <2>4. d[q].to \in DOMAIN e
    BY <1>6, <2>1, <2>2, <2>3
  <2>. QED  BY <2>1, <2>2, <2>3, <2>4
<1>12. MessageInv(e)
  <2>0. MessageInv(d)
    BY <1>1 DEF Records
  <2>1. ASSUME NEW r \in DOMAIN d, r[1] = "receipt"
        PROVE  d[r].in[1] = "notification" /\ d[r].in \in DOMAIN d /\ (r \in DOMAIN e <=> d[r].in \in DOMAIN e)
    <3>1. d[r].in[1] = "notification" /\ d[r].in \in DOMAIN d
      BY <2>0, <2>1 DEF MessageInv
    <3>. QED  BY <1>7, <2>1, <3>1
  <2>2. ASSUME NEW n \in DOMAIN e, n[1] = "notification"
        PROVE  /\ e[n].in[1] = "message"
               /\ (e[n].status = "read") <=> \E r \in DOMAIN e : r[1] = "receipt" /\ e[r].in = n
    <3>1. n \in DOMAIN d /\ e[n] = d[n]
      BY <2>2
    <3>2. (\E r \in DOMAIN d : r[1] = "receipt" /\ d[r].in = n)
          <=> \E r \in DOMAIN e : r[1] = "receipt" /\ e[r].in = n
      BY <1>4, <2>1
    <3>. QED  BY <2>0, <2>2, <3>1, <3>2 DEF MessageInv
  <2>. QED  BY <2>1, <2>2 DEF MessageInv
<1>13. RoutingInv(e)
  <2>. SUFFICES ASSUME NEW q \in DOMAIN e, q[1] = "routing"
                PROVE  /\ e[q].to[1] = "meeting" /\ e[q].to \in DOMAIN e
                       /\ e[q].in[1] = "room" /\ e[q].in \in DOMAIN e
                       /\ e[e[q].to].in[1] = "room" /\ e[e[q].to].in \in DOMAIN e
                       /\ e[e[q].to].in[2][1] = e[q].in[2][1]
    BY DEF RoutingInv
  <2>1. q \in DOMAIN d /\ e[q] = d[q]
    OBVIOUS
  <2>2. /\ d[q].to[1] = "meeting" /\ d[q].to \in DOMAIN d
        /\ d[q].in[1] = "room" /\ d[q].in \in DOMAIN d
        /\ d[d[q].to].in[1] = "room" /\ d[d[q].to].in \in DOMAIN d
        /\ d[d[q].to].in[2][1] = d[q].in[2][1]
    BY <1>1, <2>1 DEF Records, RoutingInv
  <2>3. d[d[d[q].to].in].in = d[d[q].in].in
    BY <1>1, <2>2 DEF Shaped, Sits, Holding
  <2>4. d[q].in \in DOMAIN e
    BY <1>7, <2>1, <2>2
  <2>5. d[d[q].to].in \in DOMAIN e
    BY <1>6, <2>2, <2>3, <2>4
  <2>6. d[q].to \in DOMAIN e
    BY <1>7, <2>2, <2>5
  <2>. QED  BY <2>1, <2>2, <2>4, <2>5, <2>6
<1>14. ApprovalInv(e)
  <2>. SUFFICES ASSUME NEW q \in DOMAIN e, q[1] = "approval"
                PROVE  /\ e[q].in = <<"server", q[2]>> /\ e[q].in \in DOMAIN e
                       /\ e[q].val /= <<>> => e[q].val[1] = e[e[q].in].rev /\ e[q].val[2] = e[e[q].in].val
    BY DEF ApprovalInv
  <2>1. q \in DOMAIN d /\ e[q] = d[q]
    OBVIOUS
  <2>2. /\ d[q].in = <<"server", q[2]>> /\ d[q].in \in DOMAIN d
        /\ d[q].val /= <<>> => d[q].val[1] = d[d[q].in].rev /\ d[q].val[2] = d[d[q].in].val
    BY <1>1, <2>1 DEF Records, ApprovalInv
  <2>3. d[q].in[1] = "server"
    BY <2>2
  <2>4. d[q].in \in DOMAIN e
    BY <1>7, <2>1, <2>2, <2>3
  <2>. QED  BY <2>1, <2>2, <2>3, <2>4
<1>15. RateInv(e)
  <2>0. RateInv(d)
    BY <1>1 DEF Records
  <2>1. \A k \in DOMAIN e : k[1] = "rate" => e[k].rev <= RateLimit /\ e[k].in = Nobody
    BY <1>4, <2>0 DEF RateInv
  <2>2. Sources(e) \subseteq Sources(d)
    BY <1>4 DEF Sources, Section
  <2>3. IsFiniteSet(Sources(d)) /\ Cardinality(Sources(d)) <= SourceCapacity
    BY <2>0 DEF RateInv
  <2>4. IsFiniteSet(Sources(e)) /\ Cardinality(Sources(e)) <= Cardinality(Sources(d))
    BY <2>2, <2>3, FS_Subset
  <2>5. Cardinality(Sources(e)) \in Nat /\ Cardinality(Sources(d)) \in Nat
    BY <2>3, <2>4, FS_CardinalityType
  <2>. QED  BY <2>1, <2>3, <2>4, <2>5, LimitsAreNumbers DEF RateInv
<1>16. SuccessionInv(e)
  <2>. SUFFICES ASSUME NEW r \in DOMAIN e, r[1] = "replacement" PROVE Follows(e, r)
    BY DEF SuccessionInv
  <2>1. r \in DOMAIN d /\ e[r] = d[r] /\ Follows(d, r)
    BY <1>1 DEF SuccessionInv
  <2>2. PICK t, g : t = d[r].to /\ g = d[t].in
    OBVIOUS
  <2>3. t \in DOMAIN d /\ g \in DOMAIN d /\ t[1] = "token" /\ g[1] = "grant" /\ d[g].by = d[r].by
        /\ d[g].in = d[r].in
    BY <2>1, <2>2 DEF Follows
  <2>4. g \in DOMAIN e
    BY <1>6, <2>1, <2>3
  <2>5. t \in DOMAIN e
    BY <1>7, <2>2, <2>3, <2>4
  <2>6. e[t] = d[t] /\ e[g] = d[g]
    BY <2>3, <2>4, <2>5
  <2>. QED  BY <2>1, <2>2, <2>3, <2>4, <2>5, <2>6 DEF Follows
<1>. QED  BY <1>5, <1>8, <1>9, <1>10, <1>11, <1>12, <1>13, <1>14, <1>15, <1>16 DEF Good, Records

\* The calls whose last section uses what an earlier one read.
Seeing == AfterMaster \cup AfterSession \cup AfterReading
          \cup {"create_human_session", "approve_connector_pairing_request"}

\* A call at its own section, with a document it may change: its number is in no key yet.
Serves(l, c, d, U) ==
    /\ Formed(l, c) /\ U \subseteq 1..RequestsOf(l) /\ c.n \in Nat /\ c.n \notin U
    /\ Good(d, U \cup {c.n})
    /\ c.op \in Seeing => Good(c.seen[1], U \cup {c.n})

\* A document that is good for some numbers is good for fewer.
LEMMA FewerGood ==
  ASSUME NEW d, NEW U, NEW V, V \subseteq U, Good(d, U)
  PROVE  Good(d, V)
BY DEF Good, Shaped, Sits, Unused

\* A call that changes free sections only leaves a good document.
LEMMA FreeGood ==
  ASSUME NEW d, NEW e, NEW X, NEW U, X \subseteq Free, Makes(d, e, X, U), SuccessionInv(d),
        Records(d)
  PROVE  Good(e, U)
<1>1. Makes(d, e, Free, U)
  BY MakesFewer
<1>. QED  BY <1>1, SuccessionStays, RecordsStay DEF Good, Makes

\* What a call makes under its own number is not there yet.
LEMMA FreshIs ==
  ASSUME NEW d, NEW U, NEW n, Shaped(d, U \cup {n})
  PROVE  /\ <<"claim", n>> \notin DOMAIN d /\ <<"grant", n>> \notin DOMAIN d
         /\ <<"meeting", n>> \notin DOMAIN d /\ <<"memory", n>> \notin DOMAIN d
         /\ <<"receipt", n>> \notin DOMAIN d /\ <<"review", n>> \notin DOMAIN d
         /\ <<"revision", n>> \notin DOMAIN d /\ <<"routing", n>> \notin DOMAIN d
         /\ <<"server", n>> \notin DOMAIN d /\ <<"token", n>> \notin DOMAIN d
         /\ <<"replacement", n>> \notin DOMAIN d
         /\ \A a : <<"notification", <<n, a>>>> \notin DOMAIN d
<1>1. \A s : s \in Generated /\ s /= "notification" => <<s, n>> \notin DOMAIN d
  <2>. SUFFICES ASSUME NEW s, s \in Generated, s /= "notification", <<s, n>> \in DOMAIN d PROVE
        FALSE
    OBVIOUS
  <2>1. Unused(<<s, n>>, d[<<s, n>>], U \cup {n})
    BY DEF Shaped, Sits
  <2>. QED  BY <2>1 DEF Unused, Number
<1>2. \A a : <<"notification", <<n, a>>>> \notin DOMAIN d
  <2>. SUFFICES ASSUME NEW a, <<"notification", <<n, a>>>> \in DOMAIN d PROVE FALSE
    OBVIOUS
  <2>1. Unused(<<"notification", <<n, a>>>>, d[<<"notification", <<n, a>>>>], U \cup {n})
    BY DEF Shaped, Sits
  <2>. QED  BY <2>1 DEF Unused, Number, Generated
<1>3. /\ "claim" \in Generated /\ "grant" \in Generated /\ "meeting" \in Generated
      /\ "memory" \in Generated /\ "receipt" \in Generated /\ "review" \in Generated
      /\ "revision" \in Generated /\ "routing" \in Generated /\ "server" \in Generated
      /\ "token" \in Generated /\ "replacement" \in Generated
  BY DEF Generated
<1>. QED  BY <1>1, <1>2, <1>3

\* What a call finds that is served on a good document.
LEMMA ServesIs ==
  ASSUME NEW l, NEW c, NEW d, NEW U, Serves(l, c, d, U)
  PROVE  /\ Sent(c, U) /\ Shaped(d, U) /\ Shaped(d, U \cup {c.n}) /\ SuccessionInv(d) /\ Records(d)
         /\ c.op \in Seeing => Good(c.seen[1], U) /\ Shaped(c.seen[1], U \cup {c.n})
<1>1. Sent(c, U)
  BY DEF Serves, Formed, Sent, IsKey
<1>2. Good(d, U) /\ (c.op \in Seeing => Good(c.seen[1], U))
  BY FewerGood DEF Serves
<1>. QED  BY <1>1, <1>2 DEF Good, Serves


WorkspaceOps == {"meeting_rooms", "create_meeting_room", "mark_meeting_room_read", "upsert_project",
    "upsert_knowledge_document", "upsert_external_link", "register_sync_device", "rotate_sync_device",
    "revoke_sync_device", "register_agent", "record_audit", "set_outbound_mcp_project_policy",
    "record_outbound_mcp_authorization_decision"}

\* The calls of a workspace that no record depends on change these sections only.
LEMMA WorkspaceMakes ==
  ASSUME NEW l, NEW c, NEW d, NEW U, Serves(l, c, d, U), Do(d, c.op, c) /= Refused,
         c.op \in WorkspaceOps
  PROVE Makes(d, Do(d, c.op, c), {"audit", "project", "knowledge", "link", "device", "agent", "read", "mention",
      "policy", "goal", "game", "check", "task", "gamesession"}, U)
<1>0. /\ Sent(c, U) /\ Shaped(d, U) /\ Shaped(d, U \cup {c.n}) /\ SuccessionInv(d) /\ Records(d)
      /\ c.op \in Seeing => Good(c.seen[1], U) /\ Shaped(c.seen[1], U \cup {c.n})
  BY ServesIs
<1>1. CASE c.op = "meeting_rooms"
  BY <1>0, <1>1, meeting_roomsMakes, MakesFewer DEF Do, Serves, Formed, InFits, WithoutLock
<1>2. CASE c.op = "create_meeting_room"
  BY <1>0, <1>2, create_meeting_roomMakes, MakesFewer DEF Do, Serves, Formed, InFits, WithoutLock
<1>3. CASE c.op = "mark_meeting_room_read"
  BY <1>0, <1>3, mark_meeting_room_readMakes, MakesFewer DEF Do, Serves, Formed, InFits, OfFits, WithoutLock
<1>4. CASE c.op = "upsert_project"
  BY <1>0, <1>4, upsert_projectMakes, MakesFewer DEF Do, Serves, Formed, ChosenFits, InFits, OfFits, WithoutLock
<1>5. CASE c.op = "upsert_knowledge_document"
  BY <1>0, <1>5, upsert_knowledge_documentMakes, MakesFewer DEF Do, Serves, Formed, InFits, OfFits, WithoutLock
<1>6. CASE c.op = "upsert_external_link"
  BY <1>0, <1>6, upsert_external_linkMakes, MakesFewer DEF Do, Serves, Formed, HowFits, InFits, OfFits, WithoutLock
<1>7. CASE c.op = "register_sync_device"
  BY <1>0, <1>7, register_sync_deviceMakes, MakesFewer DEF Do, Serves, Formed, InFits, OfFits, WithoutLock
<1>8. CASE c.op = "rotate_sync_device"
  BY <1>0, <1>8, rotate_sync_deviceMakes, MakesFewer DEF Do, Serves, Formed, OfFits
<1>9. CASE c.op = "revoke_sync_device"
  BY <1>0, <1>9, revoke_sync_deviceMakes, MakesFewer DEF Do, Serves, Formed, OfFits
<1>10. CASE c.op = "register_agent"
  BY <1>0, <1>10, register_agentMakes, MakesFewer DEF Do, Serves, Formed, AfterConnector, AfterMaster, AfterSession,
      AsFits, InFits, WithoutLock
<1>11. CASE c.op = "record_audit"
  BY <1>0, <1>11, record_auditMakes, MakesFewer DEF Do
<1>12. CASE c.op = "set_outbound_mcp_project_policy"
  BY <1>0, <1>12, set_outbound_mcp_project_policyMakes, MakesFewer DEF Do, Serves, Formed, HowFits, ToFits
<1>13. CASE c.op = "record_outbound_mcp_authorization_decision"
  BY <1>0, <1>13, record_outbound_mcp_authorization_decisionMakes, MakesFewer DEF Do, Serves, Formed, OfFits
<1>. QED BY <1>1, <1>2, <1>3, <1>4, <1>5, <1>6, <1>7, <1>8, <1>9, <1>10, <1>11, <1>12, <1>13 DEF WorkspaceOps

VisitsOps == {"create_human_session", "reauthenticate_human_session", "revoke_human_session",
    "reauthenticate_human_account_session", "logout_human_account"}

\* The calls on a human session change sessions only.
LEMMA VisitsMakes ==
  ASSUME NEW l, NEW c, NEW d, NEW U, Serves(l, c, d, U), Do(d, c.op, c) /= Refused,
         c.op \in VisitsOps
  PROVE Makes(d, Do(d, c.op, c), {"recovery", "session"}, U)
<1>0. /\ Sent(c, U) /\ Shaped(d, U) /\ Shaped(d, U \cup {c.n}) /\ SuccessionInv(d) /\ Records(d)
      /\ c.op \in Seeing => Good(c.seen[1], U) /\ Shaped(c.seen[1], U \cup {c.n})
  BY ServesIs
<1>1. CASE c.op = "create_human_session"
  BY <1>0, <1>1, create_human_sessionMakes, MakesFewer DEF Do, Serves, Formed, AfterConnector, AfterMaster,
      AfterSession, AsFits, Seeing, AfterReading, Good
<1>2. CASE c.op = "reauthenticate_human_session"
  BY <1>0, <1>2, reauthenticate_human_sessionMakes, MakesFewer DEF Do, Serves, Formed, OfFits
<1>3. CASE c.op = "revoke_human_session"
  BY <1>0, <1>3, revoke_human_sessionMakes, MakesFewer DEF Do, Serves, Formed, OfFits
<1>4. CASE c.op = "reauthenticate_human_account_session"
  BY <1>0, <1>4, reauthenticate_human_account_sessionMakes, MakesFewer DEF Do, Serves, Formed, AfterConnector,
      AfterMaster, AfterSession, AsFits
<1>5. CASE c.op = "logout_human_account"
  BY <1>0, <1>5, logout_human_accountMakes, MakesFewer DEF Do, Serves, Formed, AfterConnector, AfterMaster,
      AfterSession, AsFits
<1>. QED BY <1>1, <1>2, <1>3, <1>4, <1>5 DEF VisitsOps

GovernanceOps == {"create_free_account", "create_bootstrap_account", "bootstrap_company_master_token",
    "delegate_company_master_credential", "register_top_level_agent_company_master_credential",
    "create_company_master_proof", "create_human_account", "create_human_account_with_session",
    "login_human_account", "open_host_local_human_session", "reauthenticate_and_rotate_human_account_session",
    "prove_and_link_company_master", "select_human_company_membership"}

\* The calls on accounts and masters change free sections only.
LEMMA GovernanceMakes ==
  ASSUME NEW l, NEW c, NEW d, NEW U, Serves(l, c, d, U), Do(d, c.op, c) /= Refused,
         c.op \in GovernanceOps
  PROVE Makes(d, Do(d, c.op, c), Free, U)
<1>0. /\ Sent(c, U) /\ Shaped(d, U) /\ Shaped(d, U \cup {c.n}) /\ SuccessionInv(d) /\ Records(d)
      /\ c.op \in Seeing => Good(c.seen[1], U) /\ Shaped(c.seen[1], U \cup {c.n})
  BY ServesIs
<1>1. CASE c.op = "create_free_account"
  BY <1>0, <1>1, create_free_accountMakes DEF Do
<1>2. CASE c.op = "create_bootstrap_account"
  BY <1>0, <1>2, create_bootstrap_accountMakes DEF Do, Serves, Formed, ChosenFits, OfFits
<1>3. CASE c.op = "bootstrap_company_master_token"
  BY <1>0, <1>3, bootstrap_company_master_tokenMakes, MakesFewer DEF Do, Serves, Formed, OfFits, Free
<1>4. CASE c.op = "delegate_company_master_credential"
  BY <1>0, <1>4, delegate_company_master_credentialMakes, MakesFewer DEF Do, Serves, Formed, AfterConnector,
      AfterMaster, AfterSession, AsFits, ChosenFits, InFits, OfFits, WithoutLock, Free
<1>5. CASE c.op = "register_top_level_agent_company_master_credential"
  BY <1>0, <1>5, register_top_level_agent_company_master_credentialMakes, MakesFewer DEF Do, Serves, Formed,
      AfterConnector, AfterMaster, AfterSession, AsFits, ChosenFits, InFits, OfFits, WithoutLock, Free
<1>6. CASE c.op = "create_company_master_proof"
  BY <1>0, <1>6, create_company_master_proofMakes, MakesFewer DEF Do, Serves, Formed, AfterConnector, AfterMaster,
      AfterSession, AsFits, Seeing, AfterReading, Good, Free
<1>7. CASE c.op = "create_human_account"
  BY <1>0, <1>7, create_human_accountMakes DEF Do, Serves, Formed, AfterConnector, AfterMaster, AfterSession, AsFits
<1>8. CASE c.op = "create_human_account_with_session"
  BY <1>0, <1>8, create_human_account_with_sessionMakes DEF Do, Serves, Formed, AfterConnector, AfterMaster,
      AfterSession, AsFits
<1>9. CASE c.op = "login_human_account"
  BY <1>0, <1>9, login_human_accountMakes DEF Do, Seeing, AfterMaster, AfterSession, AfterReading, Good
<1>10. CASE c.op = "open_host_local_human_session"
  BY <1>0, <1>10, open_host_local_human_sessionMakes DEF Do
<1>11. CASE c.op = "reauthenticate_and_rotate_human_account_session"
  BY <1>0, <1>11, reauthenticate_and_rotate_human_account_sessionMakes DEF Do, Serves, Formed, AfterConnector,
      AfterMaster, AfterSession, AsFits
<1>12. CASE c.op = "prove_and_link_company_master"
  BY <1>0, <1>12, prove_and_link_company_masterMakes DEF Do, Serves, Formed, OfFits
<1>13. CASE c.op = "select_human_company_membership"
  BY <1>0, <1>13, select_human_company_membershipMakes DEF Do, Serves, Formed, AfterConnector, AfterMaster,
      AfterSession, AsFits, OfFits
<1>. QED BY <1>1, <1>2, <1>3, <1>4, <1>5, <1>6, <1>7, <1>8, <1>9, <1>10, <1>11, <1>12, <1>13 DEF GovernanceOps

CompanyOps == {"set_human_top_level_agent_master_credential_setting", "human_operational_context",
    "transition_human_operational_context", "record_company_export_receipt", "create_company_closure_intent",
    "close_company", "soft_delete_company", "restore_company"}

\* The calls on companies change free sections only.
LEMMA CompanyMakes ==
  ASSUME NEW l, NEW c, NEW d, NEW U, Serves(l, c, d, U), Do(d, c.op, c) /= Refused,
         c.op \in CompanyOps
  PROVE Makes(d, Do(d, c.op, c), Free, U)
<1>0. /\ Sent(c, U) /\ Shaped(d, U) /\ Shaped(d, U \cup {c.n}) /\ SuccessionInv(d) /\ Records(d)
      /\ c.op \in Seeing => Good(c.seen[1], U) /\ Shaped(c.seen[1], U \cup {c.n})
  BY ServesIs
<1>1. CASE c.op = "set_human_top_level_agent_master_credential_setting"
  BY <1>0, <1>1, set_human_top_level_agent_master_credential_settingMakes DEF Do, Serves, Formed, OfFits
<1>2. CASE c.op = "human_operational_context"
  BY <1>0, <1>2, human_operational_contextMakes DEF Do, Serves, Formed, AfterConnector, AfterMaster, AfterSession,
      AsFits
<1>3. CASE c.op = "transition_human_operational_context"
  BY <1>0, <1>3, transition_human_operational_contextMakes DEF Do, Serves, Formed, AfterConnector, AfterMaster,
      AfterSession, AsFits, OfFits
<1>4. CASE c.op = "record_company_export_receipt"
  BY <1>0, <1>4, record_company_export_receiptMakes DEF Do, Seeing, AfterMaster, AfterSession, AfterReading, Good
<1>5. CASE c.op = "create_company_closure_intent"
  BY <1>0, <1>5, create_company_closure_intentMakes DEF Do, Seeing, AfterMaster, AfterSession, AfterReading, Good
<1>6. CASE c.op = "close_company"
  BY <1>0, <1>6, close_companyMakes DEF Do, Serves, Formed, OfFits, Seeing, AfterMaster, AfterSession, AfterReading,
      Good
<1>7. CASE c.op = "soft_delete_company"
  BY <1>0, <1>7, soft_delete_companyMakes DEF Do, Serves, Formed, OfFits, Seeing, AfterMaster, AfterSession,
      AfterReading, Good
<1>8. CASE c.op = "restore_company"
  BY <1>0, <1>8, restore_companyMakes DEF Do, Seeing, AfterMaster, AfterSession, AfterReading, Good
<1>. QED BY <1>1, <1>2, <1>3, <1>4, <1>5, <1>6, <1>7, <1>8 DEF CompanyOps

AgentsOps == {"request_agent_access", "decide_agent_access_request", "deny_agent_access_request",
    "register_scope_node", "issue_agent_invite", "revoke_agent_invite", "redeem_agent_invite", "revoke_agent_token",
    "prepare_agent_token_replacement", "confirm_agent_token_replacement", "cancel_agent_token_replacement",
    "expire_pending_agent_token_replacements", "prepare_human_agent_token_replacement",
    "human_agent_token_replacement_status", "confirm_human_agent_token_replacement",
    "cancel_human_agent_token_replacement"}

\* The calls on agents and their access change free sections only.
LEMMA AgentsMakes ==
  ASSUME NEW l, NEW c, NEW d, NEW U, Serves(l, c, d, U), Do(d, c.op, c) /= Refused,
         c.op \in AgentsOps
  PROVE Makes(d, Do(d, c.op, c), Free, U)
<1>0. /\ Sent(c, U) /\ Shaped(d, U) /\ Shaped(d, U \cup {c.n}) /\ SuccessionInv(d) /\ Records(d)
      /\ c.op \in Seeing => Good(c.seen[1], U) /\ Shaped(c.seen[1], U \cup {c.n})
  BY ServesIs
<1>1. CASE c.op = "request_agent_access"
  BY <1>0, <1>1, request_agent_accessMakes DEF Do, Serves, Formed, InFits, ToFits, WithoutLock
<1>2. CASE c.op = "decide_agent_access_request"
  BY <1>0, <1>2, decide_agent_access_requestMakes DEF Do, Serves, Formed, AfterConnector, AfterMaster, AfterSession,
      AsFits, OfFits, Seeing, AfterReading, Good
<1>3. CASE c.op = "deny_agent_access_request"
  BY <1>0, <1>3, deny_agent_access_requestMakes DEF Do, Serves, Formed, OfFits
<1>4. CASE c.op = "register_scope_node"
  BY <1>0, <1>4, register_scope_nodeMakes DEF Do, Serves, Formed, OfFits
<1>5. CASE c.op = "issue_agent_invite"
  BY <1>0, <1>5, issue_agent_inviteMakes DEF Do, Serves, Formed, AfterConnector, AfterMaster, AfterSession, AsFits,
      OfFits, Seeing, AfterReading, Good
<1>6. CASE c.op = "revoke_agent_invite"
  BY <1>0, <1>6, revoke_agent_inviteMakes DEF Do, Serves, Formed, OfFits
<1>7. CASE c.op = "redeem_agent_invite"
  BY <1>0, <1>7, redeem_agent_inviteMakes, FreshIs DEF Do, Serves, Formed, ChosenFits, OfFits, ToFits
<1>8. CASE c.op = "revoke_agent_token"
  BY <1>0, <1>8, revoke_agent_tokenMakes DEF Do, Serves, Formed, OfFits
<1>9. CASE c.op = "prepare_agent_token_replacement"
  <2>1. Do(d, c.op, c) = prepare_agent_token_replacement(d, c) /\ c.of[1] = "token"
    BY <1>9 DEF Do, Serves, Formed, OfFits
  <2>. QED BY <1>0, <2>1, prepare_agent_token_replacementMakes, FreshIs
<1>10. CASE c.op = "confirm_agent_token_replacement"
  BY <1>0, <1>10, confirm_agent_token_replacementMakes DEF Do, Serves, Formed, AfterConnector, AfterMaster,
      AfterSession, AsFits
<1>11. CASE c.op = "cancel_agent_token_replacement"
  BY <1>0, <1>11, cancel_agent_token_replacementMakes DEF Do, Serves, Formed, OfFits
<1>12. CASE c.op = "expire_pending_agent_token_replacements"
  BY <1>0, <1>12, expire_pending_agent_token_replacementsMakes DEF Do
<1>13. CASE c.op = "prepare_human_agent_token_replacement"
  <2>1. Do(d, c.op, c) = prepare_human_agent_token_replacement(d, c) /\ c.of[1] = "token" /\ c.op \in Seeing
    BY <1>13 DEF Do, Serves, Formed, OfFits, Seeing, AfterMaster, AfterSession, AfterReading
  <2>. QED BY <1>0, <2>1, prepare_human_agent_token_replacementMakes, FreshIs DEF Good
<1>14. CASE c.op = "human_agent_token_replacement_status"
  BY <1>0, <1>14, human_agent_token_replacement_statusMakes DEF Do, Serves, Formed, OfFits
<1>15. CASE c.op = "confirm_human_agent_token_replacement"
  BY <1>0, <1>15, confirm_human_agent_token_replacementMakes DEF Do, Serves, Formed, OfFits
<1>16. CASE c.op = "cancel_human_agent_token_replacement"
  BY <1>0, <1>16, cancel_human_agent_token_replacementMakes DEF Do, Serves, Formed, OfFits
<1>. QED BY <1>1, <1>2, <1>3, <1>4, <1>5, <1>6, <1>7, <1>8, <1>9, <1>10, <1>11, <1>12, <1>13, <1>14, <1>15, <1>16
    DEF AgentsOps

ConnectorsOps == {"purge_abandoned_connector_pairings", "create_connector_pairing_request",
    "approve_connector_pairing_request", "claim_connector_authorization_code",
    "exchange_connector_authorization_code", "cancel_connector_pairing_request",
    "connector_pairing_authorization_context", "select_human_connector_company_membership",
    "activate_connector_pairing", "prepare_connector_rotation", "activate_connector_rotation",
    "revoke_connector_pairing", "disconnect_connector_pairing", "cancel_connector_pairing"}

\* The calls on connectors change free sections only.
LEMMA ConnectorsMakes ==
  ASSUME NEW l, NEW c, NEW d, NEW U, Serves(l, c, d, U), Do(d, c.op, c) /= Refused,
         c.op \in ConnectorsOps
  PROVE Makes(d, Do(d, c.op, c), Free, U)
<1>0. /\ Sent(c, U) /\ Shaped(d, U) /\ Shaped(d, U \cup {c.n}) /\ SuccessionInv(d) /\ Records(d)
      /\ c.op \in Seeing => Good(c.seen[1], U) /\ Shaped(c.seen[1], U \cup {c.n})
  BY ServesIs
<1>1. CASE c.op = "purge_abandoned_connector_pairings"
  BY <1>0, <1>1, purge_abandoned_connector_pairingsMakes DEF Do
<1>2. CASE c.op = "create_connector_pairing_request"
  BY <1>0, <1>2, create_connector_pairing_requestMakes DEF Do
<1>3. CASE c.op = "approve_connector_pairing_request"
  BY <1>0, <1>3, approve_connector_pairing_requestMakes DEF Do, Serves, Formed, InFits, OfFits, WithoutLock, Seeing,
      AfterMaster, AfterSession, AfterReading, Good
<1>4. CASE c.op = "claim_connector_authorization_code"
  BY <1>0, <1>4, claim_connector_authorization_codeMakes DEF Do, Serves, Formed, OfFits
<1>5. CASE c.op = "exchange_connector_authorization_code"
  BY <1>0, <1>5, exchange_connector_authorization_codeMakes DEF Do, Serves, Formed, OfFits
<1>6. CASE c.op = "cancel_connector_pairing_request"
  BY <1>0, <1>6, cancel_connector_pairing_requestMakes DEF Do, Serves, Formed, OfFits
<1>7. CASE c.op = "connector_pairing_authorization_context"
  BY <1>0, <1>7, connector_pairing_authorization_contextMakes DEF Do, Serves, Formed, OfFits
<1>8. CASE c.op = "select_human_connector_company_membership"
  BY <1>0, <1>8, select_human_connector_company_membershipMakes DEF Do, Serves, Formed, AfterConnector, AfterMaster,
      AfterSession, AsFits, OfFits
<1>9. CASE c.op = "activate_connector_pairing"
  BY <1>0, <1>9, activate_connector_pairingMakes DEF Do, Serves, Formed, AfterConnector, AfterMaster, AfterSession,
      AsFits, OfFits
<1>10. CASE c.op = "prepare_connector_rotation"
  BY <1>0, <1>10, prepare_connector_rotationMakes DEF Do, Serves, Formed, OfFits
<1>11. CASE c.op = "activate_connector_rotation"
  BY <1>0, <1>11, activate_connector_rotationMakes DEF Do, Serves, Formed, AfterConnector, AfterMaster,
      AfterSession, AsFits, OfFits
<1>12. CASE c.op = "revoke_connector_pairing"
  BY <1>0, <1>12, revoke_connector_pairingMakes DEF Do, Serves, Formed, OfFits
<1>13. CASE c.op = "disconnect_connector_pairing"
  BY <1>0, <1>13, disconnect_connector_pairingMakes DEF Do, Serves, Formed, OfFits
<1>14. CASE c.op = "cancel_connector_pairing"
  BY <1>0, <1>14, cancel_connector_pairingMakes DEF Do, Serves, Formed, OfFits
<1>. QED BY <1>1, <1>2, <1>3, <1>4, <1>5, <1>6, <1>7, <1>8, <1>9, <1>10, <1>11, <1>12, <1>13, <1>14 DEF
    ConnectorsOps

TalkOps == {"submit_meeting_message", "submit_routing_decision", "submit_message", "ack"}

\* The calls on rooms and messages change what is said of one of them, and keep it right.
LEMMA TalkMakes ==
  ASSUME NEW l, NEW c, NEW d, NEW U, Serves(l, c, d, U), Do(d, c.op, c) /= Refused,
         c.op \in TalkOps
  PROVE  \/ Makes(d, Do(d, c.op, c), {"meeting", "routing"}, U) /\ RoutingInv(Do(d, c.op, c))
         \/ Makes(d, Do(d, c.op, c), {"message", "notification", "receipt"}, U) /\ MessageInv(Do(d, c.op, c))
<1>0. /\ Sent(c, U) /\ Shaped(d, U) /\ Shaped(d, U \cup {c.n}) /\ SuccessionInv(d) /\ Records(d)
      /\ c.op \in Seeing => Good(c.seen[1], U) /\ Shaped(c.seen[1], U \cup {c.n})
  BY ServesIs
<1>1. CASE c.op = "submit_meeting_message"
  <2>1. Do(d, c.op, c) = submit_meeting_message(d, c) /\ c.in[1] = "workspace" /\ c.of[1] = "room"
    BY <1>1 DEF Do, Serves, Formed, InFits, OfFits, WithoutLock
  <2>. QED BY <1>0, <2>1, submit_meeting_messageMakes, FreshIs DEF Records
<1>2. CASE c.op = "submit_routing_decision"
  <2>1. Do(d, c.op, c) = submit_routing_decision(d, c) /\ c.in[1] = "workspace" /\ c.of[1] = "room" /\ c.to[1] =
      "room"
    BY <1>2 DEF Do, Serves, Formed, InFits, OfFits, ToFits, WithoutLock
  <2>. QED BY <1>0, <2>1, submit_routing_decisionMakes, FreshIs DEF Records
<1>3. CASE c.op = "submit_message"
  <2>1. Do(d, c.op, c) = submit_message(d, c) /\ c.in[1] = "workspace"
    BY <1>3 DEF Do, Serves, Formed, InFits, WithoutLock
  <2>. QED BY <1>0, <2>1, submit_messageMakes, FreshIs DEF Records
<1>4. CASE c.op = "ack"
  <2>1. Do(d, c.op, c) = ack(d, c) /\ ack(d, c) /= Refused /\ c.of[1] = "notification"
    BY <1>4 DEF Do, Serves, Formed, OfFits
  <2>. QED BY <1>0, <2>1, ackMakes, FreshIs DEF Records
<1>. QED BY <1>1, <1>2, <1>3, <1>4 DEF TalkOps

MutationOps == {"submit_sync_mutation"}

\* A sync mutation changes the records of the document it read, and keeps what is said of them.
LEMMA MutationMakes ==
  ASSUME NEW l, NEW c, NEW d, NEW U, Serves(l, c, d, U), Do(d, c.op, c) /= Refused,
         c.op \in MutationOps
  PROVE Makes(c.seen[1], Do(d, c.op, c), {"revision", "syncmemory", "syncreceipt"}, U) /\ SyncInv(Do(d, c.op, c))
<1>0. /\ Sent(c, U) /\ Shaped(d, U) /\ Shaped(d, U \cup {c.n}) /\ SuccessionInv(d) /\ Records(d)
      /\ c.op \in Seeing => Good(c.seen[1], U) /\ Shaped(c.seen[1], U \cup {c.n})
  BY ServesIs
<1>1. CASE c.op = "submit_sync_mutation"
  BY <1>0, <1>1, submit_sync_mutationMakes, FreshIs DEF Do, Serves, Formed, InFits, OfFits, WithoutLock, Seeing,
      AfterMaster, AfterSession, AfterReading, Records, Good
<1>. QED BY <1>1 DEF MutationOps

PackagesOps == {"create_uai_package", "upsert_uai_record", "submit_memory", "decide_review",
    "submit_human_operational_memory"}

\* The calls on packages, memories and reviews keep what is said of these.
LEMMA PackagesMakes ==
  ASSUME NEW l, NEW c, NEW d, NEW U, Serves(l, c, d, U), Do(d, c.op, c) /= Refused,
         c.op \in PackagesOps
  PROVE  \/ Makes(d, Do(d, c.op, c), {"package", "record", "recordrevision"}, U) /\ PackInv(Do(d, c.op, c))
         \/ Makes(d, Do(d, c.op, c), {"memory", "review", "idem"}, U) /\ ReviewInv(Do(d, c.op, c))
<1>0. /\ Sent(c, U) /\ Shaped(d, U) /\ Shaped(d, U \cup {c.n}) /\ SuccessionInv(d) /\ Records(d)
      /\ c.op \in Seeing => Good(c.seen[1], U) /\ Shaped(c.seen[1], U \cup {c.n})
  BY ServesIs
<1>1. CASE c.op = "create_uai_package"
  BY <1>0, <1>1, create_uai_packageMakes DEF Do, Serves, Formed, InFits, WithoutLock, Records
<1>2. CASE c.op = "upsert_uai_record"
  BY <1>0, <1>2, upsert_uai_recordMakes DEF Do, Records
<1>3. CASE c.op = "submit_memory"
  <2>1. Do(d, c.op, c) = submit_memory(d, c) /\ c.n \notin U /\ c.in[1] = "workspace"
    BY <1>3 DEF Do, Serves, Formed, ChosenFits, InFits, WithoutLock
  <2>2. Lies(<<"memory", c.n>>, c.in)
    BY <1>0, <2>1, LevelIs DEF Lies, Sent
  <2>3. ReviewInv(d) /\ <<"memory", c.n>> \notin DOMAIN d /\ <<"review", c.n>> \notin DOMAIN d
    BY <1>0, <2>1, FreshIs DEF Records, Good
  <2>. QED BY <1>0, <2>1, <2>2, <2>3, submit_memoryMakes
<1>4. CASE c.op = "decide_review"
  BY <1>0, <1>4, decide_reviewMakes DEF Do, Serves, Formed, HowFits, OfFits, Records
<1>5. CASE c.op = "submit_human_operational_memory"
  BY <1>0, <1>5, submit_human_operational_memoryMakes, FreshIs DEF Do, Serves, Formed, Records
<1>. QED BY <1>1, <1>2, <1>3, <1>4, <1>5 DEF PackagesOps

EditClaimsOps == {"uai_edit_claims", "acquire_uai_edit_claim", "heartbeat_uai_edit_claim",
    "complete_uai_edit_claim", "release_uai_edit_claim"}

\* The calls on edit claims keep what is said of claims and heads.
LEMMA EditClaimsMakes ==
  ASSUME NEW l, NEW c, NEW d, NEW U, Serves(l, c, d, U), Do(d, c.op, c) /= Refused,
         c.op \in EditClaimsOps
  PROVE Makes(d, Do(d, c.op, c), {"claim", "uaihead"}, U) /\ ClaimsInv(Do(d, c.op, c))
<1>0. /\ Sent(c, U) /\ Shaped(d, U) /\ Shaped(d, U \cup {c.n}) /\ SuccessionInv(d) /\ Records(d)
      /\ c.op \in Seeing => Good(c.seen[1], U) /\ Shaped(c.seen[1], U \cup {c.n})
  BY ServesIs
<1>1. CASE c.op = "uai_edit_claims"
  BY <1>0, <1>1, uai_edit_claimsMakes DEF Do, Records
<1>2. CASE c.op = "acquire_uai_edit_claim"
  BY <1>0, <1>2, acquire_uai_edit_claimMakes, FreshIs, NobodyIsNoKey DEF Do, Serves, Formed, InFits, OfFits,
      WithoutLock, Records
<1>3. CASE c.op = "heartbeat_uai_edit_claim"
  BY <1>0, <1>3, heartbeat_uai_edit_claimMakes DEF Do, Records
<1>4. CASE c.op = "complete_uai_edit_claim"
  BY <1>0, <1>4, complete_uai_edit_claimMakes DEF Do, Serves, Formed, OfFits, Records
<1>5. CASE c.op = "release_uai_edit_claim"
  BY <1>0, <1>5, release_uai_edit_claimMakes DEF Do, Serves, Formed, OfFits, Records
<1>. QED BY <1>1, <1>2, <1>3, <1>4, <1>5 DEF EditClaimsOps

ServersOps == {"consume_connector_rate_limit", "consume_commons_layered_rate_limit", "create_outbound_mcp_server",
    "update_outbound_mcp_server", "disable_outbound_mcp_server", "set_outbound_mcp_server_approval"}

\* The calls on servers and windows keep what is said of these.
LEMMA ServersMakes ==
  ASSUME NEW l, NEW c, NEW d, NEW U, Serves(l, c, d, U), Do(d, c.op, c) /= Refused,
         c.op \in ServersOps
  PROVE  \/ Makes(d, Do(d, c.op, c), {"rate"}, U) /\ RateInv(Do(d, c.op, c))
         \/ Makes(d, Do(d, c.op, c), {"server", "approval"}, U) /\ ApprovalInv(Do(d, c.op, c))
<1>0. /\ Sent(c, U) /\ Shaped(d, U) /\ Shaped(d, U \cup {c.n}) /\ SuccessionInv(d) /\ Records(d)
      /\ c.op \in Seeing => Good(c.seen[1], U) /\ Shaped(c.seen[1], U \cup {c.n})
  BY ServesIs
<1>1. CASE c.op = "consume_connector_rate_limit"
  BY <1>0, <1>1, consume_connector_rate_limitMakes DEF Do, Serves, Formed, OfFits, ToFits, Records
<1>2. CASE c.op = "consume_commons_layered_rate_limit"
  BY <1>0, <1>2, _consume_commons_layered_rate_limit_lockedMakes DEF Do, Serves, Formed, OfFits, ToFits, Records
<1>3. CASE c.op = "create_outbound_mcp_server"
  BY <1>0, <1>3, create_outbound_mcp_serverMakes, FreshIs DEF Do, Serves, Formed, ToFits, Records
<1>4. CASE c.op = "update_outbound_mcp_server"
  BY <1>0, <1>4, update_outbound_mcp_serverMakes DEF Do, Serves, Formed, OfFits, Records
<1>5. CASE c.op = "disable_outbound_mcp_server"
  BY <1>0, <1>5, disable_outbound_mcp_serverMakes DEF Do, Serves, Formed, OfFits, Records
<1>6. CASE c.op = "set_outbound_mcp_server_approval"
  BY <1>0, <1>6, set_outbound_mcp_server_approvalMakes DEF Do, Serves, Formed, HowFits, OfFits, Records
<1>. QED BY <1>1, <1>2, <1>3, <1>4, <1>5, <1>6 DEF ServersOps

\* A purge saves a good document.
LEMMA PurgeGood ==
  ASSUME NEW l, NEW c, NEW d, NEW U, Serves(l, c, d, U), Do(d, c.op, c) /= Refused,
         c.op = "permanently_purge_company"
  PROVE  Good(Do(d, c.op, c), U)
<1>. DEFINE o == ManagedCompany(c.seen[1], c.as)
            inside == {k \in DOMAIN d : o \in Ancestors(d, k)}
            kept == {d[k].by : k \in Section(d, "company") \ inside}
            gone == inside \cup (Section(d, "account") \ kept)
            left == Drop(d, gone)
            e == [k \in DOMAIN left |->
                    IF k[1] = "session" /\ left[k].by \in gone
                    THEN [left[k] EXCEPT !.by = Nobody] ELSE left[k]]
<1>1. Do(d, c.op, c) = permanently_purge_company(d, c)
  BY DEF Do
<1>2. permanently_purge_company(d, c) /= Refused
  BY <1>1
<1>3. /\ permanently_purge_company(d, c) = e
      /\ _management_human_session(c.seen[1], Then(c))
      /\ Status(d, o) \in {"closed", "soft_deleted"}
  BY <1>2, Zenon DEF permanently_purge_company
<1>4. c.as \in DOMAIN c.seen[1] /\ c.as[1] = "session"
  BY <1>3, ManagementIs
<1>5. Shaped(c.seen[1], U \cup {c.n})
  BY ServesIs DEF Serves, Seeing, AfterSession
<1>6. Root(o)
  BY <1>4, <1>5, ManagedIs
<1>7. Good(d, U)
  BY FewerGood DEF Serves
<1>8. o \in DOMAIN d
  BY <1>3 DEF Status
<1>9. o[1] = "company"
  <2>1. o /= Nobody
    BY <1>7, <1>8, ShapeIs DEF Good
  <2>. QED  BY <1>6, <2>1 DEF Root, Level
<1>. HIDE DEF o, kept
<1>10. DOMAIN e = DOMAIN d \ gone
  BY DEF Drop
<1>11. \A k \in DOMAIN d : k[1] /= "account" => (k \in gone <=> o \in Ancestors(d, k))
  BY DEF Section
<1>12. /\ \A k \in DOMAIN e : k[1] /= "session" => e[k] = d[k]
       /\ \A k \in DOMAIN e : e[k] = d[k] \/ e[k] = [d[k] EXCEPT !.by = Nobody]
  BY DEF Drop
<1>. HIDE DEF e, gone
<1>13. Good(e, U)
  BY <1>7, <1>9, <1>10, <1>11, <1>12, PurgeKeeps
<1>. QED  BY <1>1, <1>3, <1>13

\* The sections that prepare a call's own one, or that change nothing.
Aux == {"load", "authenticate_company_master", "authenticate_human_owner",
        "authenticate_human_session", "authenticate_human_account_session",
        "authenticate_connector_token", "authenticate_agent_token",
        "rotate_human_account_session_csrf", "audit_log", "expire_connector_pairings",
        "claim_idempotency", "record_idempotency", "release_idempotency_claim"}

Reserving == {"claim_idempotency", "record_idempotency", "release_idempotency_claim"}

\* The sections that serve several calls save good documents.
LEMMA AuxGood ==
  ASSUME NEW c, NEW d, NEW U, NEW s \in Aux, Good(d, U), Do(d, s, c) /= Refused,
         s \in Reserving => IsKey(c.key) /\ c.key[1] = "idem"
  PROVE  Good(Do(d, s, c), U)
<1>0. Shaped(d, U) /\ SuccessionInv(d) /\ Records(d)
  BY DEF Good
<1>1. CASE s = "load"
  BY <1>1, Zenon DEF Do
<1>2. CASE s = "authenticate_company_master"
  BY <1>2 DEF Do, authenticate_company_master
<1>3. CASE s = "authenticate_human_owner"
  BY <1>3 DEF Do, authenticate_human_owner
<1>4. CASE s = "authenticate_human_session"
  BY <1>4 DEF Do, authenticate_human_session
<1>5. CASE s = "authenticate_human_account_session"
  BY <1>5 DEF Do, authenticate_human_account_session
<1>6. CASE s = "authenticate_connector_token"
  BY <1>6 DEF Do, authenticate_connector_token
<1>7. CASE s = "authenticate_agent_token"
  BY <1>7 DEF Do, authenticate_agent_token
<1>8. CASE s = "rotate_human_account_session_csrf"
  BY <1>8 DEF Do, rotate_human_account_session_csrf
<1>9. CASE s = "audit_log"
  BY <1>9 DEF Do, audit_log
<1>10. CASE s = "expire_connector_pairings"
  <2>1. Do(d, s, c) = expire_connector_pairings(d, c)
    BY <1>10 DEF Do
  <2>2. Makes(d, expire_connector_pairings(d, c), Free, U)
    BY <1>0, <2>1, expire_connector_pairingsMakes
  <2>. QED  BY <1>0, <2>1, <2>2, FreeGood
<1>11. CASE s = "claim_idempotency"
  <2>1. Do(d, s, c) = claim_idempotency(d, c)
    BY <1>11 DEF Do
  <2>2. Makes(d, claim_idempotency(d, c), {"idem"}, U)
    BY <1>0, <1>11, <2>1, claim_idempotencyMakes DEF Reserving
  <2>. QED  BY <1>0, <2>1, <2>2, FreeGood DEF Free
<1>12. CASE s = "record_idempotency"
  <2>1. Do(d, s, c) = record_idempotency(d, c)
    BY <1>12 DEF Do
  <2>2. Makes(d, record_idempotency(d, c), {"idem"}, U)
    BY <1>0, <1>12, <2>1, record_idempotencyMakes DEF Reserving
  <2>. QED  BY <1>0, <2>1, <2>2, FreeGood DEF Free
<1>13. CASE s = "release_idempotency_claim"
  <2>1. Do(d, s, c) = release_idempotency_claim(d, c)
    BY <1>13 DEF Do
  <2>2. Makes(d, release_idempotency_claim(d, c), {"idem"}, U)
    BY <1>0, <1>13, <2>1, release_idempotency_claimMakes DEF Reserving
  <2>. QED  BY <1>0, <2>1, <2>2, FreeGood DEF Free
<1>. QED
  BY <1>1, <1>2, <1>3, <1>4, <1>5, <1>6, <1>7, <1>8, <1>9, <1>10, <1>11, <1>12, <1>13 DEF Aux

Own == WorkspaceOps \cup VisitsOps \cup GovernanceOps \cup CompanyOps \cup AgentsOps \cup ConnectorsOps
       \cup EditClaimsOps \cup MutationOps \cup PackagesOps \cup TalkOps \cup ServersOps
       \cup {"permanently_purge_company"}

\* No other section saves anything.
LEMMA NothingElse ==
  ASSUME NEW d, NEW c, NEW s, s \notin Aux, s \notin Own
  PROVE  Do(d, s, c) = Refused
<1>1. s /= "meeting_rooms" /\ s /= "create_meeting_room" /\ s /= "submit_meeting_message" /\ s
      /= "submit_routing_decision" /\ s /= "mark_meeting_room_read" /\ s /= "upsert_project" /\
      s /= "upsert_knowledge_document" /\ s /= "upsert_external_link" /\ s /=
      "register_sync_device" /\ s /= "rotate_sync_device" /\ s /= "revoke_sync_device" /\ s /=
      "submit_sync_mutation" /\ s /= "register_agent" /\ s /= "create_uai_package" /\ s /=
      "upsert_uai_record" /\ s /= "uai_edit_claims" /\ s /= "acquire_uai_edit_claim" /\ s /=
      "heartbeat_uai_edit_claim" /\ s /= "complete_uai_edit_claim" /\ s /=
      "release_uai_edit_claim" /\ s /= "submit_memory" /\ s /= "decide_review" /\ s /=
      "submit_message" /\ s /= "ack" /\ s /= "audit_log" /\ s /= "record_audit" /\ s /=
      "consume_connector_rate_limit" /\ s /= "consume_commons_layered_rate_limit" /\ s /=
      "claim_idempotency" /\ s /= "release_idempotency_claim" /\ s /= "record_idempotency" /\ s
      /= "set_outbound_mcp_project_policy" /\ s /= "create_outbound_mcp_server" /\ s /=
      "update_outbound_mcp_server" /\ s /= "disable_outbound_mcp_server" /\ s /=
      "set_outbound_mcp_server_approval" /\ s /= "record_outbound_mcp_authorization_decision" /\
      s /= "create_free_account" /\ s /= "create_bootstrap_account" /\ s /=
      "authenticate_company_master" /\ s /= "bootstrap_company_master_token" /\ s /=
      "delegate_company_master_credential" /\ s /=
      "register_top_level_agent_company_master_credential" /\ s /= "authenticate_human_owner" /\
      s /= "create_human_session" /\ s /= "authenticate_human_session" /\ s /=
      "reauthenticate_human_session" /\ s /= "revoke_human_session" /\ s /=
      "create_company_master_proof" /\ s /= "create_human_account" /\ s /=
      "create_human_account_with_session" /\ s /= "login_human_account" /\ s /=
      "open_host_local_human_session" /\ s /= "authenticate_human_account_session" /\ s /=
      "rotate_human_account_session_csrf" /\ s /= "reauthenticate_human_account_session" /\ s /=
      "reauthenticate_and_rotate_human_account_session" /\ s /= "logout_human_account" /\ s /=
      "prove_and_link_company_master" /\ s /= "select_human_company_membership" /\ s /=
      "set_human_top_level_agent_master_credential_setting" /\ s /= "human_operational_context"
      /\ s /= "transition_human_operational_context" /\ s /= "submit_human_operational_memory"
      /\ s /= "record_company_export_receipt" /\ s /= "create_company_closure_intent" /\ s /=
      "close_company" /\ s /= "soft_delete_company" /\ s /= "restore_company" /\ s /=
      "permanently_purge_company" /\ s /= "request_agent_access" /\ s /=
      "decide_agent_access_request" /\ s /= "deny_agent_access_request" /\ s /=
      "register_scope_node" /\ s /= "issue_agent_invite" /\ s /= "revoke_agent_invite" /\ s /=
      "redeem_agent_invite" /\ s /= "authenticate_agent_token" /\ s /= "revoke_agent_token" /\ s
      /= "prepare_agent_token_replacement" /\ s /= "confirm_agent_token_replacement" /\ s /=
      "cancel_agent_token_replacement" /\ s /= "expire_pending_agent_token_replacements" /\ s /=
      "prepare_human_agent_token_replacement" /\ s /= "human_agent_token_replacement_status" /\
      s /= "confirm_human_agent_token_replacement" /\ s /=
      "cancel_human_agent_token_replacement" /\ s /= "expire_connector_pairings" /\ s /=
      "purge_abandoned_connector_pairings" /\ s /= "create_connector_pairing_request" /\ s /=
      "approve_connector_pairing_request" /\ s /= "claim_connector_authorization_code" /\ s /=
      "exchange_connector_authorization_code" /\ s /= "cancel_connector_pairing_request" /\ s /=
      "connector_pairing_authorization_context" /\ s /=
      "select_human_connector_company_membership" /\ s /= "authenticate_connector_token" /\ s /=
      "activate_connector_pairing" /\ s /= "prepare_connector_rotation" /\ s /=
      "activate_connector_rotation" /\ s /= "revoke_connector_pairing" /\ s /=
      "disconnect_connector_pairing" /\ s /= "cancel_connector_pairing"
  BY DEF Aux, Own, WorkspaceOps, VisitsOps, GovernanceOps, CompanyOps, AgentsOps, ConnectorsOps,
         EditClaimsOps, MutationOps, PackagesOps, TalkOps, ServersOps
<1>. QED  BY <1>1, Zenon DEF Do

\* A call's own section saves a good document.
LEMMA OwnGood ==
  ASSUME NEW l, NEW c, NEW d, NEW U, Serves(l, c, d, U), Do(d, c.op, c) /= Refused, c.op \notin Aux
  PROVE  Good(Do(d, c.op, c), U)
<1>1. c.op \in Own
  BY NothingElse
<1>0. SuccessionInv(d) /\ Records(d)
  BY DEF Serves, Good
<1>2. CASE c.op \in WorkspaceOps \cup VisitsOps
  BY <1>0, <1>2, WorkspaceMakes, VisitsMakes, FreeGood DEF Free
<1>3. CASE c.op \in GovernanceOps \cup CompanyOps \cup AgentsOps \cup ConnectorsOps
  BY <1>0, <1>3, GovernanceMakes, CompanyMakes, AgentsMakes, ConnectorsMakes, FreeGood
<1>4. CASE c.op \in EditClaimsOps
  BY <1>0, <1>4, EditClaimsMakes, ClaimsRecords, SuccessionStays DEF Good, Makes
<1>5. CASE c.op \in MutationOps
  <2>1. Good(c.seen[1], U)
    BY <1>5, ServesIs DEF MutationOps, Seeing, AfterReading
  <2>. QED  BY <1>5, <2>1, MutationMakes, SyncRecords, SuccessionStays DEF Good, Makes
<1>6. CASE c.op \in PackagesOps
  BY <1>0, <1>6, PackagesMakes, PackRecords, ReviewRecords, SuccessionStays DEF Good, Makes
<1>7. CASE c.op \in TalkOps
  BY <1>0, <1>7, TalkMakes, RoutingRecords, MessageRecords, SuccessionStays DEF Good, Makes
<1>8. CASE c.op \in ServersOps
  BY <1>0, <1>8, ServersMakes, RateRecords, ApprovalRecords, SuccessionStays DEF Good, Makes
<1>12. CASE c.op = "permanently_purge_company"
  BY <1>12, PurgeGood
<1>. QED
  BY <1>1, <1>2, <1>3, <1>4, <1>5, <1>6, <1>7, <1>8, <1>12 DEF Own

================================================================================
