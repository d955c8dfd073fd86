----------------------- MODULE FileCredentialsProofs -----------------------
(***************************************************************************)
(* Lemmas about the credentials of FileStore's documents, for any document *)
(* and any call: what a token says of its grant, a pairing of its          *)
(* credential, an authority of its proof, an invite of its request and a   *)
(* company that was closed of all that was in it (Credentials), and that   *)
(* each method of the store which saves a document keeps it so.  The       *)
(* theorem on the file itself is in ClaimsAndFilesProofs.                  *)
(***************************************************************************)
EXTENDS FileDocumentsProofs

---------------------------------------------------------------------------
(* What a document's credentials tell of each other. *)

\* A token has a grant of its own; a grant that follows a token is of that token's company
\* and not active beside it; a live token has a live grant.
TokensInv(d) ==
    /\ \A t \in DOMAIN d : t[1] = "token" => d[t].in \in DOMAIN d
    /\ \A t, u \in DOMAIN d : t[1] = "token" /\ u[1] = "token" /\ d[t].in = d[u].in => t = u
    /\ \A g \in DOMAIN d : g[1] = "grant" /\ d[g].by /= Nobody =>
          d[g].by \in DOMAIN d /\ d[d[d[g].by].in].in = d[g].in
    /\ \A g \in DOMAIN d : g[1] = "grant" /\ d[g].by /= Nobody /\ d[g].status = "active" =>
          d[d[g].by].status /= "active"
    /\ \A t \in DOMAIN d : t[1] = "token" /\ d[t].status = "active" =>
          d[d[t].in].status \in {"active", "pending_activation"}

\* A company has masters, and no more active ones than the limit.
MastersOf(d, o) == {m \in DOMAIN d : m[1] = "master" /\ d[m].in = o}
Counted(d, o) ==
    /\ IsFiniteSet(MastersOf(d, o))
    /\ Cardinality({m \in MastersOf(d, o) : d[m].status = "active"}) <= MasterLimit
MastersInv(d) ==
    /\ \A m \in DOMAIN d : m[1] = "master" => d[m].in \in DOMAIN d
    /\ \A o \in DOMAIN d : o[1] = "company" => MastersOf(d, o) /= {} /\ Counted(d, o)

\* An authority was made by a proof of its company, which made no other one.
ProofsInv(d) ==
    /\ \A a \in DOMAIN d : a[1] = "authority" =>
          /\ d[a].to \in DOMAIN d /\ d[a].to[1] = "proof"
          /\ d[d[a].to].in = d[a].in /\ d[d[a].to].status = "consumed"
    /\ \A a, b \in DOMAIN d : a[1] = "authority" /\ b[1] = "authority" /\ d[a].to = d[b].to => a = b

\* An invite's request is of its company, was approved and names no other invite.
InvitesInv(d) ==
    \A i \in DOMAIN d : i[1] = "invite" =>
       /\ d[i].to \in DOMAIN d /\ d[d[i].to].in = d[i].in
       /\ d[d[i].to].by = i /\ d[d[i].to].status = "approved"

\* A pairing names its request, which made no other one, and its credential; only that one
\* may be active, and is when the pairing is; a rotation's credentials are of its pairing.
PairingsInv(d) ==
    /\ \A k \in DOMAIN d : k[1] = "credential" =>
          /\ d[k].in \in DOMAIN d
          /\ d[k].status = "active" => d[d[k].in].status = "active" /\ d[d[k].in].by = k
    /\ \A p \in DOMAIN d : p[1] = "pairing" =>
          /\ d[p].by \in DOMAIN d /\ d[d[p].by].in = p
          /\ d[p].status = "active" => d[d[p].by].status = "active"
          /\ d[p].status = "pending_activation" =>
                \A k \in DOMAIN d : k[1] = "credential" /\ d[k].in = p => k = d[p].by
          /\ d[p].to \in DOMAIN d /\ d[d[p].to].in = d[p].in
          /\ d[d[p].to].status \in {"exchanged", "active", "canceled"}
          /\ d[p].status = "pending_activation" => d[d[p].to].status = "exchanged"
    /\ \A p, q \in DOMAIN d : p[1] = "pairing" /\ q[1] = "pairing" /\ d[p].to = d[q].to => p = q
    /\ \A r \in DOMAIN d : r[1] = "rotation" =>
          /\ d[r].in \in DOMAIN d
          /\ d[r].to \in DOMAIN d /\ d[d[r].to].in = d[r].in
          /\ d[r].by \in DOMAIN d /\ d[d[r].by].in = d[r].in

\* A name is claimed by one pairing request of a company.
Claims(x) == x.status \in Unclaimed \cup {"exchanged", "active"}
NamesInv(d) ==
    \A r, s \in DOMAIN d :
       /\ r[1] = "pairrequest" /\ s[1] = "pairrequest" /\ Claims(d[r]) /\ Claims(d[s])
       /\ d[r].in = d[s].in /\ d[r].val[1] = d[s].val[1]
       => r = s

\* A company that was closed has nothing left that is active.
IsShut(x) == x.status = "closed" \/ (x.status = "soft_deleted" /\ x.val[2] = "closed")

\* What is open, and in which company.
Opens(d, k, o) ==
    \/ k[1] \in {"master", "workspace", "pairing"} /\ d[k].status = "active" /\ d[k].in = o
    \/ k[1] = "invite" /\ d[k].status = "issued" /\ d[k].in = o
    \/ k[1] = "token" /\ d[k].status = "active" /\ d[d[k].in].in = o

\* Nothing opens a door of a company that is shut.
ShutInv(d) == \A o \in DOMAIN d : o[1] = "company" /\ IsShut(d[o]) => \A k \in DOMAIN d : ~Opens(d, k, o)

\* All that a document tells of credentials.
Credentials(d) ==
    /\ TokensInv(d) /\ MastersInv(d) /\ ProofsInv(d) /\ InvitesInv(d)
    /\ PairingsInv(d) /\ NamesInv(d) /\ ShutInv(d)

---------------------------------------------------------------------------
(* Documents whose credentials are the same. *)

\* A document holds entries and nothing else.
Entries(d) == \A k \in DOMAIN d : IsEntry(d[k])

\* The entries of a shaped document are entries, and what they lie under and name is of the
\* sections it should be of.
LEMMA LinksAre ==
  ASSUME NEW d, NEW U, Shaped(d, U)
  PROVE  /\ Entries(d) /\ Nobody \notin DOMAIN d
         /\ \A k \in DOMAIN d : IsKey(k)
         /\ \A t \in DOMAIN d : t[1] = "token" => d[t].in[1] = "grant"
         /\ \A g \in DOMAIN d : g[1] = "grant" /\ d[g].by /= Nobody => d[g].by[1] = "token"
         /\ \A i \in DOMAIN d : i[1] = "invite" /\ d[i].to /= Nobody => d[i].to[1] = "request"
         /\ \A k \in DOMAIN d : k[1] = "credential" => d[k].in[1] = "pairing"
         /\ \A p \in DOMAIN d : p[1] = "pairing" =>
               /\ d[p].by /= Nobody => d[p].by[1] = "credential"
               /\ d[p].to /= Nobody => d[p].to[1] = "pairrequest"
         /\ \A r \in DOMAIN d : r[1] = "rotation" =>
               /\ d[r].in[1] = "pairing"
               /\ d[r].by /= Nobody => d[r].by[1] = "credential"
               /\ d[r].to /= Nobody => d[r].to[1] = "credential"
         /\ \A s \in {"master", "workspace", "grant", "pairing", "invite", "request", "proof", "authority",
              "pairrequest"} :
               \A k \in DOMAIN d : k[1] = s => d[k].in = Nobody \/ d[k].in[1] = "company"
<1>1. Nobody \notin DOMAIN d
  BY ShapeIs
<1>2. ASSUME NEW k \in DOMAIN d PROVE IsKey(k) /\ IsEntry(d[k]) /\ Holding(k, d[k]) /\ Lies(k, d[k].in)
  BY DEF Shaped, Sits
<1>3. ASSUME NEW k \in DOMAIN d, Level(k[1]) = 2 PROVE d[k].in = Nobody \/ d[k].in[1] = "company"
  <2>1. Root(d[k].in)
    BY <1>3, RootIs
  <2>2. \A s : Level(s) = 1 => s = "company"
    BY DEF Level
  <2>. QED  BY <2>1, <2>2 DEF Root
<1>4. ASSUME NEW s \in {"master", "workspace", "grant", "pairing", "invite", "request", "proof", "authority",
      "pairrequest"},
             NEW k \in DOMAIN d, k[1] = s
      PROVE  d[k].in = Nobody \/ d[k].in[1] = "company"
  BY <1>3, <1>4, LevelIs
<1>. QED  BY <1>1, <1>2, <1>4 DEF Entries, Holding, Ref

\* A marked document differs in the status of what was marked.
LEMMA Marked ==
  ASSUME NEW d, Entries(d), NEW K, NEW s \in EntryStatuses
  PROVE  /\ DOMAIN Mark(d, K, s) = DOMAIN d
         /\ Entries(Mark(d, K, s))
         /\ \A k \in DOMAIN d :
               /\ Mark(d, K, s)[k].status = IF k \in K THEN s ELSE d[k].status
               /\ Mark(d, K, s)[k].in = d[k].in /\ Mark(d, K, s)[k].by = d[k].by
               /\ Mark(d, K, s)[k].to = d[k].to /\ Mark(d, K, s)[k].rev = d[k].rev
               /\ Mark(d, K, s)[k].val = d[k].val
               /\ k \notin K => Mark(d, K, s)[k] = d[k]
<1>1. PICK e : e = Mark(d, K, s)
  OBVIOUS
<1>2. DOMAIN e = DOMAIN d
  BY <1>1, MarkIs
<1>3. ASSUME NEW k \in DOMAIN d, k \notin K PROVE e[k] = d[k]
  BY <1>1, <1>3, MarkIs
<1>4. ASSUME NEW k \in DOMAIN d, k \in K
      PROVE  e[k] = [status |-> s, in |-> d[k].in, by |-> d[k].by, to |-> d[k].to, rev |-> d[k].rev,
                     val |-> d[k].val]
  <2>1. e[k] = [d[k] EXCEPT !.status = s]
    BY <1>1, <1>4, MarkIs
  <2>2. IsEntry(d[k])
    BY DEF Entries
  <2>. QED  BY <2>1, <2>2, MarkedEntry
<1>5. ASSUME NEW k \in DOMAIN e PROVE IsEntry(e[k])
  <2>1. IsEntry(d[k])
    BY <1>2 DEF Entries
  <2>. QED  BY <1>2, <1>3, <1>4, <2>1 DEF IsEntry
<1>. QED  BY <1>1, <1>2, <1>3, <1>4, <1>5 DEF Entries

\* A document with the same tokens and grants keeps what is said of them.
LEMMA TokensStay ==
  ASSUME NEW d, NEW U, Shaped(d, U), TokensInv(d), NEW e, Same(d, e, {"token", "grant"})
  PROVE  TokensInv(e)
<1>1. ASSUME NEW k, k[1] \in {"token", "grant"}
      PROVE  (k \in DOMAIN d <=> k \in DOMAIN e) /\ (k \in DOMAIN d => e[k] = d[k])
  BY <1>1 DEF Same
<1>2. ASSUME NEW t \in DOMAIN e, t[1] = "token"
      PROVE  t \in DOMAIN d /\ e[t] = d[t] /\ d[t].in \in DOMAIN d /\ d[t].in \in DOMAIN e
             /\ e[d[t].in] = d[d[t].in]
  BY <1>1, <1>2, LinksAre DEF TokensInv
<1>3. ASSUME NEW g \in DOMAIN e, g[1] = "grant", e[g].by /= Nobody
      PROVE  g \in DOMAIN d /\ e[g] = d[g] /\ d[g].by \in DOMAIN d /\ d[g].by \in DOMAIN e
             /\ d[g].by[1] = "token"
  BY <1>1, <1>3, LinksAre DEF TokensInv
<1>4. \A g \in DOMAIN e : g[1] = "grant" /\ e[g].by /= Nobody =>
      e[g].by \in DOMAIN e /\ e[e[e[g].by].in].in = e[g].in
  BY <1>2, <1>3 DEF TokensInv
<1>5. \A g \in DOMAIN e : g[1] = "grant" /\ e[g].by /= Nobody /\ e[g].status = "active" =>
      e[e[g].by].status /= "active"
  BY <1>2, <1>3 DEF TokensInv
<1>6. \A t, u \in DOMAIN e : t[1] = "token" /\ u[1] = "token" /\ e[t].in = e[u].in => t = u
  BY <1>2 DEF TokensInv
<1>7. \A t \in DOMAIN e : t[1] = "token" /\ e[t].status = "active" =>
      e[e[t].in].status \in {"active", "pending_activation"}
  BY <1>2 DEF TokensInv
<1>8. \A t \in DOMAIN e : t[1] = "token" => e[t].in \in DOMAIN e
  BY <1>2
<1>. QED  BY <1>4, <1>5, <1>6, <1>7, <1>8 DEF TokensInv

\* A document with the same masters of the same companies keeps what is said of them.
LEMMA MastersStay ==
  ASSUME NEW d, NEW U, Shaped(d, U), MastersInv(d), NEW e,
         \A k : k[1] \in {"master", "company"} => (k \in DOMAIN d <=> k \in DOMAIN e),
         \A k \in DOMAIN d : k[1] = "master" =>
             e[k].in = d[k].in /\ (e[k].status = "active" => d[k].status = "active")
  PROVE  MastersInv(e)
<1>1. ASSUME NEW m \in DOMAIN e, m[1] = "master"
      PROVE  m \in DOMAIN d /\ e[m].in = d[m].in /\ e[m].in \in DOMAIN e
  <2>1. m \in DOMAIN d /\ e[m].in = d[m].in
    BY <1>1
  <2>2. d[m].in \in DOMAIN d
    BY <1>1, <2>1 DEF MastersInv
  <2>3. d[m].in[1] = "company"
    BY <1>1, <2>1, <2>2, LinksAre
  <2>. QED  BY <2>1, <2>2, <2>3
<1>2. ASSUME NEW o \in DOMAIN e, o[1] = "company" PROVE MastersOf(e, o) /= {} /\ Counted(e, o)
  <2>1. o \in DOMAIN d /\ MastersOf(e, o) = MastersOf(d, o)
    BY <1>1, <1>2 DEF MastersOf
  <2>2. MastersOf(d, o) /= {} /\ Counted(d, o)
    BY <1>2, <2>1 DEF MastersInv
  <2>3. PICK A : A = {m \in MastersOf(d, o) : d[m].status = "active"}
    OBVIOUS
  <2>4. PICK B : B = {m \in MastersOf(e, o) : e[m].status = "active"}
    OBVIOUS
  <2>5. B \subseteq A
    BY <2>1, <2>3, <2>4 DEF MastersOf
  <2>6. IsFiniteSet(A) /\ Cardinality(A) <= MasterLimit
    BY <2>2, <2>3, FS_Subset DEF Counted
  <2>7. IsFiniteSet(B) /\ Cardinality(B) <= Cardinality(A) /\ Cardinality(A) \in Nat /\ Cardinality(B) \in Nat
    BY <2>5, <2>6, FS_Subset, FS_CardinalityType
  <2>8. Cardinality(B) <= MasterLimit
    BY <2>6, <2>7, MasterLimitIsNumber
  <2>. QED  BY <2>1, <2>2, <2>4, <2>8 DEF Counted
<1>. QED  BY <1>1, <1>2 DEF MastersInv

\* A document with the same proofs and authorities keeps what is said of them.
LEMMA ProofsStay ==
  ASSUME NEW d, ProofsInv(d), NEW e, Same(d, e, {"authority"}),
         \A k \in DOMAIN d : k[1] = "proof" =>
            k \in DOMAIN e /\ e[k].in = d[k].in /\ (d[k].status = "consumed" => e[k].status = "consumed")
  PROVE  ProofsInv(e)
<1>1. ASSUME NEW k, k[1] = "authority"
      PROVE  (k \in DOMAIN d <=> k \in DOMAIN e) /\ (k \in DOMAIN d => e[k] = d[k])
  BY <1>1 DEF Same
<1>2. ASSUME NEW a \in DOMAIN e, a[1] = "authority"
      PROVE  a \in DOMAIN d /\ e[a] = d[a] /\ d[a].to \in DOMAIN d /\ d[a].to[1] = "proof"
             /\ d[d[a].to].in = d[a].in /\ d[d[a].to].status = "consumed"
  BY <1>1, <1>2 DEF ProofsInv
<1>3. ASSUME NEW a \in DOMAIN e, a[1] = "authority"
      PROVE  e[a].to \in DOMAIN e /\ e[a].to[1] = "proof" /\ e[e[a].to].in = e[a].in
             /\ e[e[a].to].status = "consumed"
  BY <1>2, <1>3
<1>4. \A a, b \in DOMAIN e : a[1] = "authority" /\ b[1] = "authority" /\ e[a].to = e[b].to => a = b
  BY <1>2 DEF ProofsInv
<1>. QED  BY <1>3, <1>4 DEF ProofsInv

\* A document with the same invites, whose requests stay as they are, keeps what is said of them.
LEMMA InvitesStay ==
  ASSUME NEW d, InvitesInv(d), NEW U, Shaped(d, U), NEW e,
         \A i \in DOMAIN e : i[1] = "invite" => i \in DOMAIN d /\ e[i].in = d[i].in /\ e[i].to = d[i].to,
         \A r \in DOMAIN d : r[1] = "request" /\ d[r].status = "approved" =>
            /\ r \in DOMAIN e /\ e[r].in = d[r].in /\ e[r].status = "approved"
            /\ d[r].by \in DOMAIN e => e[r].by = d[r].by
  PROVE  InvitesInv(e)
<1>1. ASSUME NEW i \in DOMAIN e, i[1] = "invite"
      PROVE  /\ i \in DOMAIN d /\ e[i].in = d[i].in /\ e[i].to = d[i].to
             /\ d[i].to \in DOMAIN d /\ d[d[i].to].in = d[i].in
             /\ d[d[i].to].by = i /\ d[d[i].to].status = "approved"
  BY <1>1 DEF InvitesInv
<1>2. ASSUME NEW i \in DOMAIN e, i[1] = "invite" PROVE d[i].to[1] = "request"
  BY <1>1, <1>2, LinksAre
<1>. QED  BY <1>1, <1>2 DEF InvitesInv

\* A company that is shut was so before, and what is open was so before or is not in a shut one.
LEMMA ShutStays ==
  ASSUME NEW d, ShutInv(d), NEW e,
         \A o \in DOMAIN e : o[1] = "company" /\ IsShut(e[o]) => o \in DOMAIN d /\ IsShut(d[o]),
         \A o \in DOMAIN d : o[1] = "company" /\ IsShut(d[o]) =>
            \A k \in DOMAIN e : Opens(e, k, o) => k \in DOMAIN d /\ Opens(d, k, o)
  PROVE  ShutInv(e)
BY DEF ShutInv

\* A document with the same requests keeps what is said of the names they claim.
LEMMA NamesStay ==
  ASSUME NEW d, NamesInv(d), NEW e,
         \A r \in DOMAIN e : r[1] = "pairrequest" /\ Claims(e[r]) =>
            r \in DOMAIN d /\ Claims(d[r]) /\ e[r].in = d[r].in /\ e[r].val[1] = d[r].val[1]
  PROVE  NamesInv(e)
BY DEF NamesInv

\* Marks end tokens and grants, or make a grant active whose predecessor is not.
LEMMA TokensMarked ==
  ASSUME NEW d, NEW U, Shaped(d, U), TokensInv(d), NEW e,
         \A k : k[1] \in {"token", "grant"} => (k \in DOMAIN d <=> k \in DOMAIN e),
         \A k \in DOMAIN d : k[1] \in {"token", "grant"} => e[k].in = d[k].in /\ e[k].by = d[k].by,
         \A t \in DOMAIN d : t[1] = "token" /\ e[t].status = "active" => d[t].status = "active",
         \A t \in DOMAIN d : t[1] = "token" /\ e[t].status = "active" =>
            \/ e[d[t].in].status = d[d[t].in].status
            \/ e[d[t].in].status \in {"active", "pending_activation"},
         \A g \in DOMAIN d : g[1] = "grant" /\ e[g].status = "active" =>
            \/ d[g].status = "active"
            \/ d[g].by \in DOMAIN d => e[d[g].by].status /= "active"
  PROVE  TokensInv(e)
<1>1. ASSUME NEW t \in DOMAIN e, t[1] = "token"
      PROVE  t \in DOMAIN d /\ e[t].in = d[t].in /\ d[t].in \in DOMAIN d /\ d[t].in \in DOMAIN e
             /\ e[d[t].in].in = d[d[t].in].in
  BY <1>1, LinksAre DEF TokensInv
<1>2. ASSUME NEW g \in DOMAIN e, g[1] = "grant", e[g].by /= Nobody
      PROVE  g \in DOMAIN d /\ e[g].by = d[g].by /\ e[g].in = d[g].in /\ d[g].by \in DOMAIN d
             /\ d[g].by \in DOMAIN e /\ d[g].by[1] = "token"
  BY <1>2, LinksAre DEF TokensInv
<1>3. \A g \in DOMAIN e : g[1] = "grant" /\ e[g].by /= Nobody =>
      e[g].by \in DOMAIN e /\ e[e[e[g].by].in].in = e[g].in
  BY <1>1, <1>2 DEF TokensInv
<1>4. ASSUME NEW g \in DOMAIN e, g[1] = "grant", e[g].by /= Nobody, e[g].status = "active"
      PROVE  e[e[g].by].status /= "active"
  BY <1>2, <1>4 DEF TokensInv
<1>5. \A t, u \in DOMAIN e : t[1] = "token" /\ u[1] = "token" /\ e[t].in = e[u].in => t = u
  BY <1>1 DEF TokensInv
<1>6. ASSUME NEW t \in DOMAIN e, t[1] = "token", e[t].status = "active"
      PROVE  e[e[t].in].status \in {"active", "pending_activation"}
  BY <1>1, <1>6 DEF TokensInv
<1>. QED  BY <1>1, <1>3, <1>4, <1>5, <1>6 DEF TokensInv

\* One more token with a grant of its own.
LEMMA TokensAdded ==
  ASSUME NEW d, NEW U, Shaped(d, U), TokensInv(d), NEW e, NEW g, NEW t,
         g[1] = "grant", t[1] = "token", g \notin DOMAIN d, t \notin DOMAIN d,
         \A k : k[1] \in {"token", "grant"} => (k \in DOMAIN e <=> k \in DOMAIN d \cup {g, t}),
         \A k \in DOMAIN d : k[1] \in {"token", "grant"} => e[k] = d[k],
         e[t].in = g, e[g].status \in {"active", "pending_activation"},
         e[g].by /= Nobody =>
            /\ e[g].by \in DOMAIN d /\ e[g].by[1] = "token" /\ d[d[e[g].by].in].in = e[g].in
            /\ e[g].status = "active" => d[e[g].by].status /= "active"
  PROVE  TokensInv(e)
<1>1. ASSUME NEW u \in DOMAIN d, u[1] = "token"
      PROVE  /\ u \in DOMAIN e /\ e[u] = d[u] /\ d[u].in \in DOMAIN d /\ d[u].in[1] = "grant"
             /\ d[u].in \in DOMAIN e /\ e[d[u].in] = d[d[u].in] /\ d[u].in /= g
  BY <1>1, LinksAre DEF TokensInv
<1>2. ASSUME NEW h \in DOMAIN d, h[1] = "grant", d[h].by /= Nobody
      PROVE  h \in DOMAIN e /\ e[h] = d[h] /\ d[h].by \in DOMAIN d /\ d[h].by[1] = "token"
  BY <1>2, LinksAre DEF TokensInv
<1>3. /\ \A u \in DOMAIN e : u[1] = "token" => u = t \/ u \in DOMAIN d
      /\ \A h \in DOMAIN e : h[1] = "grant" => h = g \/ h \in DOMAIN d
      /\ g \in DOMAIN e /\ t \in DOMAIN e
  OBVIOUS
<1>4. ASSUME NEW u \in DOMAIN e, u[1] = "token" PROVE e[u].in \in DOMAIN e
  BY <1>1, <1>3, <1>4
<1>5. ASSUME NEW u \in DOMAIN e, NEW v \in DOMAIN e, u[1] = "token", v[1] = "token", e[u].in = e[v].in
      PROVE  u = v
  BY <1>1, <1>3, <1>5 DEF TokensInv
<1>6. ASSUME NEW h \in DOMAIN e, h[1] = "grant", e[h].by /= Nobody
      PROVE  e[h].by \in DOMAIN e /\ e[e[e[h].by].in].in = e[h].in
  <2>1. CASE h = g
    BY <1>1, <1>6, <2>1
  <2>2. CASE h \in DOMAIN d
    <3>1. e[h] = d[h] /\ d[h].by \in DOMAIN d /\ d[h].by[1] = "token"
      BY <1>2, <1>6, <2>2
    <3>2. d[d[d[h].by].in].in = d[h].in
      BY <1>6, <2>2, <3>1 DEF TokensInv
    <3>. QED  BY <1>1, <3>1, <3>2
  <2>. QED  BY <1>3, <1>6, <2>1, <2>2
<1>7. ASSUME NEW h \in DOMAIN e, h[1] = "grant", e[h].by /= Nobody, e[h].status = "active"
      PROVE  e[e[h].by].status /= "active"
  <2>1. CASE h = g
    BY <1>1, <1>7, <2>1
  <2>2. CASE h \in DOMAIN d
    <3>1. e[h] = d[h] /\ d[h].by \in DOMAIN d /\ d[h].by[1] = "token"
      BY <1>2, <1>7, <2>2
    <3>2. d[d[h].by].status /= "active"
      BY <1>7, <2>2, <3>1 DEF TokensInv
    <3>. QED  BY <1>1, <3>1, <3>2
  <2>. QED  BY <1>3, <1>7, <2>1, <2>2
<1>8. ASSUME NEW u \in DOMAIN e, u[1] = "token", e[u].status = "active"
      PROVE  e[e[u].in].status \in {"active", "pending_activation"}
  <2>1. CASE u = t
    BY <2>1
  <2>2. CASE u \in DOMAIN d
    BY <1>1, <1>8, <2>2 DEF TokensInv
  <2>. QED  BY <1>3, <1>8, <2>1, <2>2
<1>. QED  BY <1>4, <1>5, <1>6, <1>7, <1>8 DEF TokensInv

\* Marks end pairings, credentials and their requests, or make them active together.
LEMMA PairingsMarked ==
  ASSUME NEW d, NEW U, Shaped(d, U), PairingsInv(d), NEW e,
         \A k : k[1] \in {"credential", "pairing", "rotation"} => (k \in DOMAIN d <=> k \in DOMAIN e),
         \A k \in DOMAIN d : k[1] \in {"credential", "pairing", "rotation"} =>
            e[k].in = d[k].in /\ e[k].by = d[k].by /\ e[k].to = d[k].to,
         \A r \in DOMAIN d : r[1] = "pairrequest" /\ d[r].status \in {"exchanged", "active", "canceled"} =>
            r \in DOMAIN e /\ e[r].in = d[r].in /\ e[r].status \in {"exchanged", "active", "canceled"},
         \A k \in DOMAIN d : k[1] = "credential" /\ e[k].status = "active" =>
            e[d[k].in].status = "active" /\ d[d[k].in].by = k,
         \A p \in DOMAIN d : p[1] = "pairing" /\ e[p].status = "active" => e[d[p].by].status = "active",
         \A p \in DOMAIN d : p[1] = "pairing" /\ e[p].status = "pending_activation" =>
            d[p].status = "pending_activation" /\ e[d[p].to].status = d[d[p].to].status
  PROVE  PairingsInv(e)
<1>1. ASSUME NEW k \in DOMAIN e, k[1] = "credential"
      PROVE  k \in DOMAIN d /\ e[k].in = d[k].in /\ d[k].in \in DOMAIN d /\ d[k].in \in DOMAIN e
             /\ d[k].in[1] = "pairing"
  BY <1>1, LinksAre DEF PairingsInv
<1>2. ASSUME NEW p \in DOMAIN e, p[1] = "pairing"
      PROVE  /\ p \in DOMAIN d /\ e[p].in = d[p].in /\ e[p].by = d[p].by /\ e[p].to = d[p].to
             /\ d[p].by \in DOMAIN d /\ d[p].by[1] = "credential" /\ d[p].by \in DOMAIN e
             /\ d[d[p].by].in = p /\ e[d[p].by].in = p
             /\ d[p].to \in DOMAIN d /\ d[p].to[1] = "pairrequest"
             /\ d[d[p].to].in = d[p].in /\ d[d[p].to].status \in {"exchanged", "active", "canceled"}
  <2>1. p \in DOMAIN d
    BY <1>2
  <2>2. /\ d[p].by \in DOMAIN d /\ d[d[p].by].in = p
        /\ d[p].to \in DOMAIN d
        /\ d[d[p].to].in = d[p].in /\ d[d[p].to].status \in {"exchanged", "active", "canceled"}
    BY <1>2, <2>1 DEF PairingsInv
  <2>3. d[p].by[1] = "credential" /\ d[p].to[1] = "pairrequest"
    BY <1>2, <2>1, <2>2, LinksAre
  <2>4. e[p].in = d[p].in /\ e[p].by = d[p].by /\ e[p].to = d[p].to /\ d[p].by \in DOMAIN e
        /\ e[d[p].by].in = d[d[p].by].in
    BY <1>2, <2>1, <2>2, <2>3
  <2>. QED  BY <2>1, <2>2, <2>3, <2>4
<1>3. ASSUME NEW p \in DOMAIN e, p[1] = "pairing"
      PROVE  d[p].to \in DOMAIN e /\ e[d[p].to].in = d[p].in /\
          e[d[p].to].status \in {"exchanged", "active", "canceled"}
  BY <1>2, <1>3
<1>4. ASSUME NEW k \in DOMAIN e, k[1] = "credential"
      PROVE  e[k].in \in DOMAIN e /\ (e[k].status = "active" => e[e[k].in].status = "active" /\ e[e[k].in].by = k)
  <2>1. k \in DOMAIN d /\ e[k].in = d[k].in /\ d[k].in \in DOMAIN d /\ d[k].in \in DOMAIN e
             /\ d[k].in[1] = "pairing"
    BY <1>1, <1>4
  <2>2. e[d[k].in].by = d[d[k].in].by
    BY <2>1
  <2>. QED  BY <1>4, <2>1, <2>2
<1>5. ASSUME NEW p \in DOMAIN e, p[1] = "pairing", e[p].status = "pending_activation",
             NEW k \in DOMAIN e, k[1] = "credential", e[k].in = p
      PROVE  k = e[p].by
  <2>1. d[p].status = "pending_activation" /\ p \in DOMAIN d /\ e[p].by = d[p].by
    BY <1>2, <1>5
  <2>2. k \in DOMAIN d /\ d[k].in = p
    BY <1>1, <1>5
  <2>. QED  BY <1>5, <2>1, <2>2 DEF PairingsInv
<1>6. ASSUME NEW p \in DOMAIN e, p[1] = "pairing", e[p].status = "pending_activation"
      PROVE  e[e[p].to].status = "exchanged"
  <2>1. d[p].status = "pending_activation" /\ e[d[p].to].status = d[d[p].to].status /\ p \in DOMAIN d
        /\ e[p].to = d[p].to
    BY <1>2, <1>6
  <2>. QED  BY <1>6, <2>1 DEF PairingsInv
<1>7. \A p, q \in DOMAIN e : p[1] = "pairing" /\ q[1] = "pairing" /\ e[p].to = e[q].to => p = q
  BY <1>2 DEF PairingsInv
<1>8. ASSUME NEW r \in DOMAIN e, r[1] = "rotation"
      PROVE  /\ e[r].in \in DOMAIN e
             /\ e[r].to \in DOMAIN e /\ e[e[r].to].in = e[r].in
             /\ e[r].by \in DOMAIN e /\ e[e[r].by].in = e[r].in
  <2>1. r \in DOMAIN d /\ e[r].in = d[r].in /\ e[r].to = d[r].to /\ e[r].by = d[r].by
    BY <1>8
  <2>2. /\ d[r].in \in DOMAIN d
        /\ d[r].to \in DOMAIN d /\ d[d[r].to].in = d[r].in
        /\ d[r].by \in DOMAIN d /\ d[d[r].by].in = d[r].in
    BY <1>8, <2>1 DEF PairingsInv
  <2>3. d[r].in[1] = "pairing" /\ d[r].to[1] = "credential" /\ d[r].by[1] = "credential"
    BY <1>8, <2>1, <2>2, LinksAre
  <2>. QED  BY <2>1, <2>2, <2>3
<1>9. \A p \in DOMAIN e : p[1] = "pairing" =>
          /\ e[p].by \in DOMAIN e /\ e[e[p].by].in = p
          /\ e[p].status = "active" => e[e[p].by].status = "active"
          /\ e[p].to \in DOMAIN e /\ e[e[p].to].in = e[p].in
          /\ e[e[p].to].status \in {"exchanged", "active", "canceled"}
  BY <1>2, <1>3
<1>. QED  BY <1>4, <1>5, <1>6, <1>7, <1>8, <1>9 DEF PairingsInv

\* The sections that credentials are told of.
Told == {"company", "master", "workspace", "token", "grant", "proof", "authority", "invite", "request",
         "pairing", "credential", "rotation", "pairrequest"}

\* A document with the same pairings keeps what is said of them.
LEMMA PairingsStay ==
  ASSUME NEW d, NEW U, Shaped(d, U), PairingsInv(d), NEW e,
         Same(d, e, {"pairing", "credential", "rotation", "pairrequest"})
  PROVE  PairingsInv(e)
<1>1. ASSUME NEW k, k[1] \in {"pairing", "credential", "rotation", "pairrequest"}
      PROVE  (k \in DOMAIN d <=> k \in DOMAIN e) /\ (k \in DOMAIN d => e[k] = d[k])
  BY <1>1 DEF Same
<1>2. ASSUME NEW k \in DOMAIN d, k[1] = "credential", e[k].status = "active"
      PROVE  e[d[k].in].status = "active" /\ d[d[k].in].by = k
  <2>1. d[k].in \in DOMAIN d /\ d[k].in[1] = "pairing" /\ d[d[k].in].status = "active" /\ d[d[k].in].by = k
    BY <1>1, <1>2, LinksAre DEF PairingsInv
  <2>. QED  BY <1>1, <2>1
<1>3. ASSUME NEW p \in DOMAIN d, p[1] = "pairing"
      PROVE  /\ e[p] = d[p] /\ e[d[p].by] = d[d[p].by] /\ e[d[p].to] = d[d[p].to]
             /\ d[p].status = "active" => d[d[p].by].status = "active"
  <2>1. /\ d[p].by \in DOMAIN d /\ d[p].to \in DOMAIN d
        /\ d[p].status = "active" => d[d[p].by].status = "active"
    BY <1>3 DEF PairingsInv
  <2>2. d[p].by[1] = "credential" /\ d[p].to[1] = "pairrequest"
    BY <1>3, <2>1, LinksAre
  <2>. QED  BY <1>1, <1>3, <2>1, <2>2
<1>. QED  BY <1>1, <1>2, <1>3, PairingsMarked

\* Documents that agree on some sections agree on fewer.
LEMMA SameFewer ==
  ASSUME NEW d, NEW e, NEW S, NEW T, T \subseteq S, Same(d, e, S)
  PROVE  Same(d, e, T)
BY DEF Same

\* What is open in a document with the same tokens was open.
LEMMA OpensSame ==
  ASSUME NEW d, NEW U, Shaped(d, U), TokensInv(d), NEW e, NEW k, NEW o, k \in DOMAIN d, e[k] = d[k],
         \A g \in DOMAIN d : g[1] = "grant" => e[g].in = d[g].in
  PROVE  Opens(e, k, o) <=> Opens(d, k, o)
<1>1. CASE k[1] = "token"
  <2>1. d[k].in \in DOMAIN d /\ d[k].in[1] = "grant"
    BY <1>1, LinksAre DEF TokensInv
  <2>. QED  BY <1>1, <2>1 DEF Opens
<1>2. CASE k[1] /= "token"
  BY <1>2 DEF Opens
<1>. QED  BY <1>1, <1>2

\* A document with the same companies and the same open entries keeps what is said of them.
LEMMA ShutSame ==
  ASSUME NEW d, NEW U, Shaped(d, U), TokensInv(d), ShutInv(d), NEW e,
         Same(d, e, {"company", "master", "workspace", "token", "grant", "invite", "pairing"})
  PROVE  ShutInv(e)
<1>1. ASSUME NEW k, k[1] \in {"company", "master", "workspace", "token", "grant", "invite", "pairing"}
      PROVE  (k \in DOMAIN d <=> k \in DOMAIN e) /\ (k \in DOMAIN d => e[k] = d[k])
  BY <1>1 DEF Same
<1>2. ASSUME NEW k \in DOMAIN e, NEW o, Opens(e, k, o) PROVE k \in DOMAIN d /\ Opens(d, k, o)
  <2>1. k \in DOMAIN d /\ e[k] = d[k]
    BY <1>1, <1>2 DEF Opens
  <2>2. \A g \in DOMAIN d : g[1] = "grant" => e[g].in = d[g].in
    BY <1>1
  <2>. QED  BY <1>2, <2>1, <2>2, OpensSame
<1>3. \A o \in DOMAIN e : o[1] = "company" /\ IsShut(e[o]) => o \in DOMAIN d /\ IsShut(d[o])
  BY <1>1
<1>. QED  BY <1>2, <1>3, ShutStays

\* A document that differs in no section that credentials are told of keeps what is told of
\* them.
LEMMA CredentialsStay ==
  ASSUME NEW d, NEW U, Shaped(d, U), Credentials(d), NEW e, Same(d, e, Told)
  PROVE  Credentials(e)
<1>1. ASSUME NEW k, k[1] \in Told
      PROVE  (k \in DOMAIN d <=> k \in DOMAIN e) /\ (k \in DOMAIN d => e[k] = d[k])
  BY <1>1 DEF Same
<1>2. TokensInv(e)
  BY <1>1, TokensStay DEF Same, Credentials, Told
<1>3. MastersInv(e)
  BY <1>1, MastersStay DEF Credentials, Told
<1>4. ProofsInv(e)
  BY <1>1, ProofsStay DEF Same, Credentials, Told
<1>5. InvitesInv(e)
  BY <1>1, InvitesStay DEF Credentials, Told
<1>6. PairingsInv(e)
  BY <1>1, PairingsStay DEF Same, Credentials, Told
<1>7. NamesInv(e)
  BY <1>1, NamesStay DEF Credentials, Told
<1>8. ShutInv(e)
  BY <1>1, ShutSame DEF Same, Credentials, Told
<1>. QED  BY <1>2, <1>3, <1>4, <1>5, <1>6, <1>7, <1>8 DEF Credentials

\* Nothing is told of the blank document's credentials.
LEMMA BlankCredentials == Credentials(_blank_store)
<1>1. DOMAIN _blank_store = {}
  BY DEF _blank_store
<1>. QED
  BY <1>1 DEF Credentials, TokensInv, MastersInv, ProofsInv, InvitesInv, PairingsInv, NamesInv, ShutInv

\* What of the second and third level lies in a company.
LEMMA InsideIs ==
  ASSUME NEW d, NEW U, Shaped(d, U), NEW o, o[1] = "company"
  PROVE  /\ \A k \in DOMAIN d : k[1] \in {"master", "workspace", "grant", "pairing", "invite", "request", "proof",
                                  "authority", "pairrequest"} =>
               (o \in Ancestors(d, k) <=> d[k].in = o)
         /\ \A k \in DOMAIN d : k[1] \in {"token", "credential", "rotation"} /\ d[k].in \in DOMAIN d =>
               (o \in Ancestors(d, k) <=> d[d[k].in].in = o)
<1>1. ASSUME NEW k \in DOMAIN d, k[1] \in {"master", "workspace", "grant", "pairing", "invite", "request", "proof",
                                  "authority", "pairrequest"}
      PROVE  o \in Ancestors(d, k) <=> d[k].in = o
  <2>1. o \in Ancestors(d, k) <=> o \in Ancestors(d, d[k].in)
    BY <1>1, AncestorsUp
  <2>2. d[k].in = Nobody \/ d[k].in[1] = "company"
    BY <1>1, LinksAre
  <2>3. CASE d[k].in = Nobody
    <3>1. Nobody \notin DOMAIN d /\ Nobody[1] = "nobody" /\ o /= Nobody
      BY LinksAre, NobodyIsNoKey
    <3>2. Ancestors(d, Nobody) = {}
      BY <3>1 DEF Ancestors, Parent, In
    <3>. QED  BY <2>1, <2>3, <3>1, <3>2
  <2>4. CASE d[k].in[1] = "company"
    <3>1. PICK p : p = d[k].in
      OBVIOUS
    <3>2. In(d, p) = Nobody
      <4>1. CASE p \in DOMAIN d
        BY <2>4, <3>1, <4>1, LevelIs, LevelType, ShapeIs DEF In, Lies
      <4>. QED  BY <4>1 DEF In
    <3>3. In(d, Nobody) = Nobody
      BY LinksAre DEF In
    <3>4. Ancestors(d, p) = {p} \ {Nobody} /\ o /= Nobody
      BY <3>2, <3>3, NobodyIsNoKey DEF Ancestors, Parent
    <3>. QED  BY <2>1, <3>1, <3>4
  <2>. QED  BY <2>2, <2>3, <2>4
<1>2. ASSUME NEW k \in DOMAIN d, k[1] \in {"token", "credential", "rotation"}, d[k].in \in DOMAIN d
      PROVE  o \in Ancestors(d, k) <=> d[d[k].in].in = o
  <2>1. o \in Ancestors(d, k) <=> o \in Ancestors(d, d[k].in)
    BY <1>2, AncestorsUp
  <2>2. d[k].in[1] \in {"grant", "pairing"}
    BY <1>2, LinksAre
  <2>. QED  BY <1>1, <1>2, <2>1, <2>2
<1>. QED  BY <1>1, <1>2

\* What is promised of the file's credentials follows.
LEMMA CredentialsTell ==
  ASSUME NEW d, NEW U, Shaped(d, U), Credentials(d)
  PROVE  /\ OneHeir(d) /\ TokensHaveGrants(d) /\ MastersCounted(d) /\ ProofsSpent(d)
         /\ InvitesNamed(d) /\ ConnectorsAgree(d) /\ NamesClaimedOnce(d) /\ ClosedHasNone(d)
<1>0. /\ TokensInv(d) /\ MastersInv(d) /\ ProofsInv(d) /\ InvitesInv(d)
      /\ PairingsInv(d) /\ NamesInv(d) /\ ShutInv(d) /\ Nobody \notin DOMAIN d
  BY LinksAre DEF Credentials
<1>1. OneHeir(d)
  BY <1>0 DEF OneHeir, Section, Live, Status, TokensInv
<1>2. TokensHaveGrants(d)
  BY <1>0 DEF TokensHaveGrants, Section, Live, Status, TokensInv
<1>3. MastersCounted(d)
  <2>. SUFFICES ASSUME NEW o \in DOMAIN d, o[1] = "company"
                PROVE  Cardinality({k \in Within(d, "master", o) : d[k].status = "active"}) <= MasterLimit
    BY DEF MastersCounted, Section
  <2>1. Within(d, "master", o) = MastersOf(d, o)
    BY InsideIs DEF Within, Section, MastersOf
  <2>. QED  BY <1>0, <2>1 DEF MastersInv, Counted
<1>4. ProofsSpent(d)
  BY <1>0 DEF ProofsSpent, Section, ProofsInv
<1>5. InvitesNamed(d)
  BY <1>0 DEF InvitesNamed, Section, InvitesInv
<1>6. ConnectorsAgree(d)
  <2>1. \A k \in Section(d, "credential") : Live(d, k) => Live(d, d[k].in) /\ d[d[k].in].by = k
    BY <1>0 DEF Section, Live, Status, PairingsInv
  <2>2. \A p \in Section(d, "pairing") : Live(d, p) => Live(d, d[p].by)
    BY <1>0 DEF Section, Live, Status, PairingsInv
  <2>3. \A p, q \in Section(d, "pairing") : d[p].to = d[q].to => p = q
    BY <1>0 DEF Section, PairingsInv
  <2>. QED  BY <2>1, <2>2, <2>3 DEF ConnectorsAgree
<1>7. NamesClaimedOnce(d)
  BY <1>0 DEF NamesClaimedOnce, NamesInv, Section, Claims
<1>8. ClosedHasNone(d)
  <2>. SUFFICES ASSUME NEW o \in DOMAIN d, o[1] = "company", d[o].status = "closed"
                PROVE  /\ \A s \in {"master", "token", "credential"} : \A k \in Within(d, s, o) : ~Live(d, k)
                       /\ \A i \in Within(d, "invite", o) : d[i].status /= "issued"
    BY DEF ClosedHasNone, Section
  <2>1. \A k \in DOMAIN d : ~Opens(d, k, o)
    BY <1>0 DEF ShutInv, IsShut
  <2>2. ASSUME NEW k \in Within(d, "master", o) PROVE ~Live(d, k)
    BY <2>1, <2>2, InsideIs DEF Within, Section, Opens, Live, Status
  <2>3. ASSUME NEW k \in Within(d, "token", o) PROVE ~Live(d, k)
    <3>1. k \in DOMAIN d /\ k[1] = "token" /\ d[k].in \in DOMAIN d /\ o \in Ancestors(d, k)
      BY <1>0, <2>3 DEF Within, Section, TokensInv
    <3>2. d[d[k].in].in = o
      BY <3>1, InsideIs
    <3>. QED  BY <2>1, <3>1, <3>2 DEF Opens, Live, Status
  <2>4. ASSUME NEW k \in Within(d, "credential", o) PROVE ~Live(d, k)
    <3>1. k \in DOMAIN d /\ k[1] = "credential" /\ d[k].in \in DOMAIN d /\ o \in Ancestors(d, k)
          /\ d[k].in[1] = "pairing"
      BY <1>0, <2>4, LinksAre DEF Within, Section, PairingsInv
    <3>2. d[d[k].in].in = o
      BY <3>1, InsideIs
    <3>3. d[d[k].in].status /= "active"
      BY <2>1, <3>1, <3>2 DEF Opens
    <3>. QED  BY <1>0, <3>1, <3>3 DEF PairingsInv, Live, Status
  <2>5. ASSUME NEW i \in Within(d, "invite", o) PROVE d[i].status /= "issued"
    BY <2>1, <2>5, InsideIs DEF Within, Section, Opens
  <2>. QED  BY <2>2, <2>3, <2>4, <2>5
<1>. QED  BY <1>1, <1>2, <1>3, <1>4, <1>5, <1>6, <1>7, <1>8

---------------------------------------------------------------------------
(* Calls that change nothing that credentials are told of. *)

\* A document made by changes to other sections only is the same on those told of.
LEMMA Untold ==
  ASSUME NEW d, NEW e, NEW X, NEW U, Makes(d, e, X, U), X \cap Told = {}
  PROVE  Same(d, e, Told)
<1>1. Told \cap X = {} /\ "room" \notin Told
  BY DEF Told
<1>. QED  BY <1>1, SameIs

\* So is one after a put or a mark elsewhere.
LEMMA SamePut ==
  ASSUME NEW d, NEW e, NEW S, Same(d, e, S), NEW k, NEW x, k[1] \notin S
  PROVE  Same(d, Put(e, k, x), S)
BY DEF Same, Put

\* Marking entries of other sections leaves documents that agree on some.
LEMMA SameMark ==
  ASSUME NEW d, NEW e, NEW S, Same(d, e, S), NEW K, NEW s, \A k \in K : k[1] \notin S
  PROVE  Same(d, Mark(e, K, s), S)
BY DEF Same, Mark

\* A document agrees with itself.
LEMMA SameSelf ==
  ASSUME NEW d, NEW S
  PROVE  Same(d, d, S)
BY DEF Same

\* The calls of these groups change nothing that credentials are told of.
LEMMA OthersSame ==
  ASSUME NEW l, NEW c, NEW d, NEW U, Serves(l, c, d, U), Do(d, c.op, c) /= Refused,
         c.op \in WorkspaceOps \cup VisitsOps \cup TalkOps \cup PackagesOps \cup EditClaimsOps \cup ServersOps
  PROVE  Same(d, Do(d, c.op, c), Told)
<1>1. CASE c.op \in WorkspaceOps \cup VisitsOps
  BY <1>1, WorkspaceMakes, VisitsMakes, Untold DEF Told
<1>2. CASE c.op \in TalkOps
  BY <1>2, TalkMakes, Untold DEF Told
<1>3. CASE c.op \in PackagesOps
  BY <1>3, PackagesMakes, Untold DEF Told
<1>4. CASE c.op \in EditClaimsOps \cup ServersOps
  BY <1>4, EditClaimsMakes, ServersMakes, Untold DEF Told
<1>. QED  BY <1>1, <1>2, <1>3, <1>4

\* A sync mutation leaves what credentials are told of as the document it read has it.
LEMMA MutationSame ==
  ASSUME NEW l, NEW c, NEW d, NEW U, Serves(l, c, d, U), Do(d, c.op, c) /= Refused,
         c.op \in MutationOps
  PROVE  Same(c.seen[1], Do(d, c.op, c), Told)
BY MutationMakes, Untold DEF Told

\* A session that follows another is no credential.
LEMMA SuccessorSame ==
  ASSUME NEW d, NEW c, NEW a, NEW r, c.as[1] = "session"
  PROVE  Same(d, Successor(d, c, a, r), Told)
<1>1. Same(d, Mark(d, {c.as}, "revoked"), Told)
  BY SameSelf, SameMark DEF Told
<1>. QED  BY <1>1, SamePut DEF Successor, Told

\* The calls that replace or choose a human session, and those on contexts, intents and scopes.
Sessions == {"login_human_account", "open_host_local_human_session",
    "reauthenticate_and_rotate_human_account_session", "select_human_company_membership",
    "select_human_connector_company_membership", "human_operational_context",
    "transition_human_operational_context", "record_company_export_receipt",
    "create_company_closure_intent", "register_scope_node"}

\* The other calls on sessions, contexts, intents and scopes change nothing that credentials are told of.
LEMMA SessionsSame ==
  ASSUME NEW l, NEW c, NEW d, NEW U, Serves(l, c, d, U), Do(d, c.op, c) /= Refused, c.op \in Sessions
  PROVE  Same(d, Do(d, c.op, c), Told)
<1>0. \A S : Same(d, d, S)
  BY SameSelf
<1>1. ASSUME c.op = "login_human_account" PROVE Same(d, Do(d, c.op, c), Told)
  BY <1>0, <1>1, SamePut DEF Do, login_human_account, Told
<1>2. ASSUME c.op = "open_host_local_human_session" PROVE Same(d, Do(d, c.op, c), Told)
  BY <1>0, <1>2, SamePut DEF Do, open_host_local_human_session, Told
<1>3. ASSUME c.op = "reauthenticate_and_rotate_human_account_session" PROVE Same(d, Do(d, c.op, c), Told)
  <2>1. c.as[1] = "session"
    BY <1>3 DEF Serves, Formed, AsFits, AfterSession
  <2>. QED  BY <1>3, <2>1, SuccessorSame DEF Do, reauthenticate_and_rotate_human_account_session
<1>4. ASSUME c.op \in {"select_human_company_membership", "select_human_connector_company_membership"}
      PROVE  Same(d, Do(d, c.op, c), Told)
  <2>1. c.as[1] = "session"
    BY <1>4 DEF Serves, Formed, AsFits, AfterSession
  <2>2. Do(d, c.op, c) = select_human_company_membership(d, c)
    BY <1>4 DEF Do, select_human_connector_company_membership
  <2>. QED  BY <2>1, <2>2, SuccessorSame DEF select_human_company_membership
<1>5. ASSUME c.op = "human_operational_context" PROVE Same(d, Do(d, c.op, c), Told)
  BY <1>0, <1>5, SamePut DEF Do, human_operational_context, ContextKey, Told
<1>6. ASSUME c.op = "transition_human_operational_context" PROVE Same(d, Do(d, c.op, c), Told)
  <2>1. c.as[1] = "session"
    BY <1>6 DEF Serves, Formed, AsFits, AfterSession
  <2>2. \A k : ContextKey(k)[1] \notin Told
    BY DEF ContextKey, Told
  <2>3. PICK e : e = Successor(d, c, d[c.as].by, d[c.as].rev)
    OBVIOUS
  <2>4. Do(d, c.op, c) = Put(e, ContextKey(<<"session", c.n>>),
        [New("chosen", c.of) EXCEPT !.by = d[c.as].by, !.rev = c.n])
    BY <1>6, <2>3, Zenon DEF Do, transition_human_operational_context
  <2>. QED  BY <2>1, <2>2, <2>3, <2>4, SuccessorSame, SamePut
<1>7. ASSUME c.op = "record_company_export_receipt" PROVE Same(d, Do(d, c.op, c), Told)
  BY <1>0, <1>7, SamePut DEF Do, record_company_export_receipt, Told
<1>8. ASSUME c.op = "create_company_closure_intent" PROVE Same(d, Do(d, c.op, c), Told)
  BY <1>0, <1>8, SamePut DEF Do, create_company_closure_intent, Told
<1>9. ASSUME c.op = "register_scope_node" PROVE Same(d, Do(d, c.op, c), Told)
  <2>1. c.of[1] \notin Told
    BY <1>9 DEF Serves, Formed, OfFits, ParentRules, Told
  <2>. QED  BY <1>0, <1>9, <2>1, SamePut DEF Do, register_scope_node
<1>. QED  BY <1>1, <1>2, <1>3, <1>4, <1>5, <1>6, <1>7, <1>8, <1>9 DEF Sessions

\* The sweep of a load changes nothing that credentials are told of.
LEMMA SweepSame ==
  ASSUME NEW d, NEW L
  PROVE  Same(d, _normalize_store(d, L), Told)
<1>1. PICK e : e = _prune_audit_log_data(d, L)
  OBVIOUS
<1>2. PICK K : K = Section(d, "audit") \cap L
  OBVIOUS
<1>6. e = [k \in DOMAIN d \ K |-> d[k]]
  BY <1>1, <1>2 DEF _prune_audit_log_data, Drop
<1>3. PICK f : f = _prune_coordination_data(e, L)
  OBVIOUS
<1>4. ASSUME NEW k, k[1] \in Told
      PROVE  (k \in DOMAIN e <=> k \in DOMAIN f) /\ (k \in DOMAIN e => f[k] = e[k])
  <2>1. k[1] \notin {"read", "message", "notification", "receipt", "meeting"}
    BY <1>4 DEF Told
  <2>. QED  BY <1>3, <2>1 DEF _prune_coordination_data, Section, Drop
<1>5. ASSUME NEW k, k[1] \in Told
      PROVE  (k \in DOMAIN d <=> k \in DOMAIN e) /\ (k \in DOMAIN d => e[k] = d[k])
  BY <1>2, <1>5, <1>6 DEF Told, Section
<1>. QED  BY <1>1, <1>3, <1>4, <1>5 DEF Same, _normalize_store

---------------------------------------------------------------------------
(* Tokens and grants that end, and successors. *)

\* e is d with other statuses in the sections S.
Restated(d, e, S) ==
    /\ DOMAIN e = DOMAIN d /\ Entries(e)
    /\ \A k \in DOMAIN d : /\ e[k].in = d[k].in /\ e[k].by = d[k].by /\ e[k].to = d[k].to
                           /\ e[k].rev = d[k].rev /\ e[k].val = d[k].val
                           /\ k[1] \notin S => e[k] = d[k]

\* A marked document has other statuses.
LEMMA RestatedMark ==
  ASSUME NEW d, NEW e, NEW S, Restated(d, e, S), NEW K, NEW s \in EntryStatuses,
         \A k \in K : k \in DOMAIN d => k[1] \in S
  PROVE  /\ Restated(d, Mark(e, K, s), S)
         /\ \A k \in DOMAIN d : Mark(e, K, s)[k].status = IF k \in K THEN s ELSE e[k].status
<1>1. PICK f : f = Mark(e, K, s)
  OBVIOUS
<1>2. /\ DOMAIN f = DOMAIN e /\ Entries(f)
      /\ \A k \in DOMAIN e :
            /\ f[k].status = IF k \in K THEN s ELSE e[k].status
            /\ f[k].in = e[k].in /\ f[k].by = e[k].by /\ f[k].to = e[k].to
            /\ f[k].rev = e[k].rev /\ f[k].val = e[k].val
            /\ k \notin K => f[k] = e[k]
  BY <1>1, Marked DEF Restated
<1>3. Restated(d, f, S)
  BY <1>2 DEF Restated
<1>. QED  BY <1>1, <1>2, <1>3 DEF Restated

\* A document restates itself.
LEMMA RestatedSelf ==
  ASSUME NEW d, Entries(d), NEW S
  PROVE  Restated(d, d, S)
BY DEF Restated

\* Tokens and grants get other statuses: no token comes alive, a live one has a live grant
\* and a grant comes alive when its predecessor does not live.
LEMMA TokensRestated ==
  ASSUME NEW d, NEW U, Shaped(d, U), Credentials(d), NEW e, Restated(d, e, Lasting),
         \A t \in DOMAIN d : t[1] = "token" /\ e[t].status = "active" =>
            /\ d[t].status = "active"
            /\ \/ e[d[t].in].status = d[d[t].in].status
               \/ e[d[t].in].status \in {"active", "pending_activation"},
         \A g \in DOMAIN d : g[1] = "grant" /\ e[g].status = "active" =>
            \/ d[g].status = "active"
            \/ d[g].by \in DOMAIN d => e[d[g].by].status /= "active"
  PROVE  Credentials(e)
<1>1. \A k : k \in DOMAIN d <=> k \in DOMAIN e
  BY DEF Restated
<1>2. \A k \in DOMAIN d : e[k].in = d[k].in /\ e[k].by = d[k].by
  BY DEF Restated
<1>3. \A k \in DOMAIN d : k[1] \notin {"grant", "token", "replacement"} => e[k] = d[k]
  BY DEF Restated, Lasting
<1>4. TokensInv(d) /\ MastersInv(d) /\ ProofsInv(d) /\ InvitesInv(d) /\ PairingsInv(d) /\ NamesInv(d) /\ ShutInv(d)
  BY DEF Credentials
<1>5. TokensInv(e)
  BY <1>1, <1>2, <1>4, TokensMarked
<1>6. MastersInv(e)
  BY <1>1, <1>3, <1>4, MastersStay
<1>7. ProofsInv(e)
  <2>1. Same(d, e, {"authority"})
    BY <1>1, <1>3 DEF Same
  <2>. QED  BY <1>1, <1>3, <1>4, <2>1, ProofsStay
<1>8. InvitesInv(e)
  BY <1>1, <1>3, <1>4, InvitesStay
<1>9. PairingsInv(e)
  <2>1. Same(d, e, {"pairing", "credential", "rotation", "pairrequest"})
    BY <1>1, <1>3 DEF Same
  <2>. QED  BY <1>4, <2>1, PairingsStay
<1>10. NamesInv(e)
  BY <1>1, <1>3, <1>4, NamesStay
<1>11. ShutInv(e)
  <2>1. ASSUME NEW k \in DOMAIN e, NEW o, Opens(e, k, o) PROVE k \in DOMAIN d /\ Opens(d, k, o)
    <3>1. CASE k[1] = "token"
      <4>1. k \in DOMAIN d /\ d[k].in \in DOMAIN d
        BY <1>1, <1>4, <3>1 DEF TokensInv
      <4>2. e[k].status = "active" /\ e[k].in = d[k].in /\ e[d[k].in].in = d[d[k].in].in
            /\ e[e[k].in].in = o
        BY <1>2, <2>1, <3>1, <4>1 DEF Opens
      <4>. QED  BY <3>1, <4>1, <4>2 DEF Opens
    <3>2. CASE k[1] /= "token"
      BY <1>1, <1>3, <2>1, <3>2 DEF Opens
    <3>. QED  BY <3>1, <3>2
  <2>2. \A o \in DOMAIN e : o[1] = "company" => o \in DOMAIN d /\ e[o] = d[o]
    BY <1>1, <1>3
  <2>. QED  BY <1>4, <2>1, <2>2, ShutStays
<1>. QED  BY <1>5, <1>6, <1>7, <1>8, <1>9, <1>10, <1>11 DEF Credentials

\* Tokens end with the grants they have.
LEMMA TokensEnd ==
  ASSUME NEW d, NEW U, Shaped(d, U), Credentials(d), NEW e, Restated(d, e, Lasting), NEW T, NEW G,
         \A t \in DOMAIN d : t[1] = "token" =>
            e[t].status = IF t \in T THEN "revoked" ELSE d[t].status,
         \A g \in DOMAIN d : g[1] = "grant" =>
            IF g \in G THEN e[g].status /= "active" ELSE e[g].status = d[g].status,
         \A t \in DOMAIN d : t[1] = "token" /\ d[t].in \in G => t \in T
  PROVE  Credentials(e)
<1>1. ASSUME NEW t \in DOMAIN d, t[1] = "token", e[t].status = "active"
      PROVE  d[t].status = "active" /\ e[d[t].in].status = d[d[t].in].status
  <2>1. t \notin T /\ d[t].status = "active"
    BY <1>1
  <2>2. d[t].in \in DOMAIN d /\ d[t].in[1] = "grant"
    BY <1>1, LinksAre DEF Credentials, TokensInv
  <2>3. d[t].in \notin G
    BY <1>1, <2>1
  <2>. QED  BY <2>1, <2>2, <2>3
<1>2. ASSUME NEW g \in DOMAIN d, g[1] = "grant", e[g].status = "active" PROVE d[g].status = "active"
  BY <1>2
<1>. QED  BY <1>1, <1>2, TokensRestated

\* A token ends, and its grant.
LEMMA TokenEnds ==
  ASSUME NEW d, NEW U, Shaped(d, U), Credentials(d), NEW t \in DOMAIN d, t[1] = "token",
         NEW s \in EntryStatuses, s /= "active"
  PROVE  Credentials(Mark(Mark(d, {t}, "revoked"), {d[t].in}, s))
<1>1. PICK e : e = Mark(d, {t}, "revoked")
  OBVIOUS
<1>2. PICK f : f = Mark(e, {d[t].in}, s)
  OBVIOUS
<1>3. d[t].in[1] = "grant" /\ t[1] \in Lasting /\ d[t].in[1] \in Lasting /\ Entries(d)
  BY LinksAre DEF Lasting
<1>4. Restated(d, e, Lasting) /\ \A k \in DOMAIN d : e[k].status = IF k = t THEN "revoked" ELSE d[k].status
  BY <1>1, <1>3, RestatedSelf, RestatedMark, StatusesAre
<1>5. Restated(d, f, Lasting) /\ \A k \in DOMAIN d : f[k].status = IF k = d[t].in THEN s ELSE e[k].status
  BY <1>2, <1>3, <1>4, RestatedMark
<1>6. \A u \in DOMAIN d : u[1] = "token" /\ d[u].in \in {d[t].in} => u \in {t}
  BY DEF Credentials, TokensInv
<1>7. \A u \in DOMAIN d : u[1] = "token" => f[u].status = IF u \in {t} THEN "revoked" ELSE d[u].status
  BY <1>3, <1>4, <1>5
<1>8. \A g \in DOMAIN d : g[1] = "grant" =>
            IF g \in {d[t].in} THEN f[g].status /= "active" ELSE f[g].status = d[g].status
  BY <1>3, <1>4, <1>5
<1>9. Credentials(f)
  BY <1>5, <1>6, <1>7, <1>8, TokensEnd
<1>. QED  BY <1>1, <1>2, <1>9

\* Both may be revoked at once.
LEMMA TokenRevoked ==
  ASSUME NEW d, NEW U, Shaped(d, U), Credentials(d), NEW t \in DOMAIN d, t[1] = "token"
  PROVE  Credentials(Mark(d, {t, d[t].in}, "revoked"))
<1>1. PICK f : f = Mark(d, {t, d[t].in}, "revoked")
  OBVIOUS
<1>3. d[t].in[1] = "grant" /\ t[1] \in Lasting /\ d[t].in[1] \in Lasting /\ Entries(d)
  BY LinksAre DEF Lasting
<1>4. Restated(d, f, Lasting) /\ \A k \in DOMAIN d : f[k].status = IF k \in {t, d[t].in} THEN "revoked"
      ELSE d[k].status
  BY <1>1, <1>3, RestatedSelf, RestatedMark, StatusesAre
<1>6. \A u \in DOMAIN d : u[1] = "token" /\ d[u].in \in {d[t].in} => u \in {t}
  BY DEF Credentials, TokensInv
<1>7. \A u \in DOMAIN d : u[1] = "token" => f[u].status = IF u \in {t} THEN "revoked" ELSE d[u].status
  BY <1>3, <1>4
<1>8. \A g \in DOMAIN d : g[1] = "grant" =>
            IF g \in {d[t].in} THEN f[g].status /= "active" ELSE f[g].status = d[g].status
  BY <1>3, <1>4
<1>9. Credentials(f)
  BY <1>4, <1>6, <1>7, <1>8, TokensEnd
<1>. QED  BY <1>1, <1>9

\* Successors that were not confirmed end with their grants.
LEMMA LapsedCredentials ==
  ASSUME NEW d, NEW U, Shaped(d, U), Credentials(d), NEW R, \A r \in R : r[1] = "replacement" /\ r \in DOMAIN d
  PROVE  /\ Credentials(LapsedAll(d, R)) /\ Restated(d, LapsedAll(d, R), Lasting)
         /\ \A k \in DOMAIN d : k[1] = "token" /\ (\A r \in R : d[r].to /= k) =>
              LapsedAll(d, R)[k].status = d[k].status
<1>1. PICK T : T = {d[r].to : r \in R} \cap DOMAIN d
  OBVIOUS
<1>2. PICK G : G = {d[t].in : t \in T} \cap DOMAIN d
  OBVIOUS
<1>3. PICK e : e = Mark(d, R, "expired")
  OBVIOUS
<1>4. PICK f : f = Mark(e, T, "revoked")
  OBVIOUS
<1>5. PICK h : h = Mark(f, G, "expired")
  OBVIOUS
<1>6. LapsedAll(d, R) = h
  BY <1>1, <1>2, <1>3, <1>4, <1>5 DEF LapsedAll
<1>7. \A t \in T : t \in DOMAIN d /\ t[1] = "token"
  BY <1>1, AgentsFree, ShapeIs DEF Ref
<1>8. \A g \in G : g \in DOMAIN d /\ g[1] = "grant"
  BY <1>2, <1>7, AgentsFree
<1>9. /\ \A r \in R : r[1] \in Lasting
      /\ \A t \in T : t[1] \in Lasting
      /\ \A g \in G : g[1] \in Lasting
      /\ Entries(d)
  BY <1>7, <1>8, LinksAre DEF Lasting
<1>10. Restated(d, e, Lasting) /\ \A k \in DOMAIN d : e[k].status = IF k \in R THEN "expired" ELSE d[k].status
  <2>1. Restated(d, d, Lasting)
    BY <1>9, RestatedSelf
  <2>2. \A r \in R : r \in DOMAIN d => r[1] \in Lasting
    BY DEF Lasting
  <2>3. "expired" \in EntryStatuses
    BY StatusesAre
  <2>. QED  BY <1>3, <2>1, <2>2, <2>3, RestatedMark
<1>11. Restated(d, f, Lasting) /\ \A k \in DOMAIN d : f[k].status = IF k \in T THEN "revoked" ELSE e[k].status
  <2>1. "revoked" \in EntryStatuses /\ \A k \in T : k \in DOMAIN d => k[1] \in Lasting
    BY <1>9, StatusesAre
  <2>. QED  BY <1>4, <1>10, <2>1, RestatedMark
<1>12. Restated(d, h, Lasting) /\ \A k \in DOMAIN d : h[k].status = IF k \in G THEN "expired" ELSE f[k].status
  <2>1. "expired" \in EntryStatuses /\ \A k \in G : k \in DOMAIN d => k[1] \in Lasting
    BY <1>9, StatusesAre
  <2>. QED  BY <1>5, <1>11, <2>1, RestatedMark
<1>13. \A u \in DOMAIN d : u[1] = "token" => h[u].status = IF u \in T THEN "revoked" ELSE d[u].status
  BY <1>8, <1>10, <1>11, <1>12
<1>14. \A g \in DOMAIN d : g[1] = "grant" =>
            IF g \in G THEN h[g].status /= "active" ELSE h[g].status = d[g].status
  BY <1>7, <1>10, <1>11, <1>12
<1>15. \A u \in DOMAIN d : u[1] = "token" /\ d[u].in \in G => u \in T
  BY <1>2, <1>7 DEF Credentials, TokensInv
<1>16. Credentials(h)
  BY <1>12, <1>13, <1>14, <1>15, TokensEnd
<1>17. \A k \in DOMAIN d : k[1] = "token" /\ (\A r \in R : d[r].to /= k) => h[k].status = d[k].status
  BY <1>1, <1>13
<1>. QED  BY <1>6, <1>12, <1>16, <1>17

\* What is told of sections that a call leaves alone stays.
LEMMA OthersStay ==
  ASSUME NEW d, NEW U, Shaped(d, U), Credentials(d), NEW e, NEW X, Same(d, e, Told \ X)
  PROVE  /\ X \cap {"token", "grant"} = {} => TokensInv(e)
         /\ X \cap {"master", "company"} = {} => MastersInv(e)
         /\ X \cap {"proof", "authority"} = {} => ProofsInv(e)
         /\ X \cap {"invite", "request"} = {} => InvitesInv(e)
         /\ X \cap {"pairing", "credential", "rotation", "pairrequest"} = {} => PairingsInv(e)
         /\ X \cap {"pairrequest"} = {} => NamesInv(e)
         /\ X \cap {"company", "master", "workspace", "token", "grant", "invite", "pairing"} = {} => ShutInv(e)
<1>0. TokensInv(d) /\ MastersInv(d) /\ ProofsInv(d) /\ InvitesInv(d) /\ PairingsInv(d) /\ NamesInv(d) /\ ShutInv(d)
  BY DEF Credentials
<1>1. ASSUME NEW S, S \subseteq Told, X \cap S = {} PROVE Same(d, e, S)
  BY <1>1 DEF Same
<1>2. ASSUME NEW S, S \subseteq Told, X \cap S = {}
      PROVE  \A k : k[1] \in S => (k \in DOMAIN d <=> k \in DOMAIN e) /\ (k \in DOMAIN d => e[k] = d[k])
  BY <1>1, <1>2 DEF Same
<1>3. ASSUME X \cap {"token", "grant"} = {} PROVE TokensInv(e)
  <2>1. Same(d, e, {"token", "grant"})
    BY <1>1, <1>3 DEF Told
  <2>. QED  BY <1>0, <2>1, TokensStay
<1>4. ASSUME X \cap {"master", "company"} = {} PROVE MastersInv(e)
  <2>1. \A k : k[1] \in {"master", "company"} =>
        (k \in DOMAIN d <=> k \in DOMAIN e) /\ (k \in DOMAIN d => e[k] = d[k])
    BY <1>2, <1>4 DEF Told
  <2>. QED  BY <1>0, <2>1, MastersStay
<1>5. ASSUME X \cap {"proof", "authority"} = {} PROVE ProofsInv(e)
  <2>1. \A k : k[1] \in {"proof", "authority"} =>
        (k \in DOMAIN d <=> k \in DOMAIN e) /\ (k \in DOMAIN d => e[k] = d[k])
    BY <1>2, <1>5 DEF Told
  <2>2. Same(d, e, {"authority"})
    BY <2>1 DEF Same
  <2>. QED  BY <1>0, <2>1, <2>2, ProofsStay
<1>6. ASSUME X \cap {"invite", "request"} = {} PROVE InvitesInv(e)
  <2>1. \A k : k[1] \in {"invite", "request"} =>
        (k \in DOMAIN d <=> k \in DOMAIN e) /\ (k \in DOMAIN d => e[k] = d[k])
    BY <1>2, <1>6 DEF Told
  <2>. QED  BY <1>0, <2>1, InvitesStay
<1>7. ASSUME X \cap {"pairing", "credential", "rotation", "pairrequest"} = {} PROVE PairingsInv(e)
  <2>1. Same(d, e, {"pairing", "credential", "rotation", "pairrequest"})
    BY <1>1, <1>7 DEF Told
  <2>. QED  BY <1>0, <2>1, PairingsStay
<1>8. ASSUME X \cap {"pairrequest"} = {} PROVE NamesInv(e)
  <2>1. \A k : k[1] \in {"pairrequest"} => (k \in DOMAIN d <=> k \in DOMAIN e) /\ (k \in DOMAIN d => e[k] = d[k])
    BY <1>2, <1>8 DEF Told
  <2>. QED  BY <1>0, <2>1, NamesStay
<1>9. ASSUME X \cap {"company", "master", "workspace", "token", "grant", "invite", "pairing"} = {} PROVE ShutInv(e)
  <2>1. Same(d, e, {"company", "master", "workspace", "token", "grant", "invite", "pairing"})
    BY <1>1, <1>9 DEF Told
  <2>. QED  BY <1>0, <2>1, ShutSame
<1>. QED  BY <1>3, <1>4, <1>5, <1>6, <1>7, <1>8, <1>9

\* An entry's place, not its status, makes a document shaped.
LEMMA RestatedShaped ==
  ASSUME NEW d, NEW U, Shaped(d, U), NEW e, NEW S, Restated(d, e, S)
  PROVE  Shaped(e, U)
<1>. SUFFICES ASSUME NEW k \in DOMAIN e PROVE Sits(k, e[k], U)
  BY DEF Shaped
<1>1. Sits(k, d[k], U) /\ IsEntry(e[k]) /\ e[k].in = d[k].in /\ e[k].by = d[k].by /\ e[k].to = d[k].to
      /\ e[k].val = d[k].val
  BY DEF Shaped, Restated, Entries
<1>2. Holding(k, e[k])
  BY <1>1 DEF Sits, Holding
<1>3. Unused(k, e[k], U)
  BY <1>1 DEF Sits, Unused
<1>. QED  BY <1>1, <1>2, <1>3 DEF Sits

\* A replacement's status is no credential's.
LEMMA ReplacementMarked ==
  ASSUME NEW d, NEW U, Shaped(d, U), NEW e, Restated(d, e, Lasting), Credentials(e), NEW r, r[1] = "replacement",
      NEW s
  PROVE  Credentials(Mark(e, {r}, s))
<1>1. Shaped(e, U)
  BY RestatedShaped
<1>2. Same(e, Mark(e, {r}, s), Told)
  BY SameSelf, SameMark DEF Told
<1>. QED  BY <1>1, <1>2, CredentialsStay

\* A successor's grant comes alive when its predecessor ends.
LEMMA SuccessorCredentials ==
  ASSUME NEW d, NEW U, Shaped(d, U), Credentials(d), NEW t \in DOMAIN d, t[1] = "token",
         d[d[t].in].by \in DOMAIN d
  PROVE  Restated(d, SuccessorActive(d, t), Lasting) /\ Credentials(SuccessorActive(d, t))
<1>1. PICK g : g = d[t].in
  OBVIOUS
<1>2. PICK old : old = d[g].by
  OBVIOUS
<1>3. PICK h : h = d[old].in
  OBVIOUS
<1>4. /\ g \in DOMAIN d /\ g[1] = "grant" /\ old \in DOMAIN d /\ old[1] = "token"
      /\ h \in DOMAIN d /\ h[1] = "grant" /\ Entries(d)
      /\ \A u \in DOMAIN d : u[1] = "token" => d[u].in \in DOMAIN d /\ d[u].in[1] = "grant"
  <2>1. g \in DOMAIN d /\ g[1] = "grant" /\ Nobody \notin DOMAIN d /\ Entries(d)
    BY <1>1, LinksAre DEF Credentials, TokensInv
  <2>2. old \in DOMAIN d /\ old /= Nobody
    BY <1>1, <1>2, <2>1
  <2>3. old[1] = "token"
    BY <1>2, <2>1, <2>2, LinksAre
  <2>. QED  BY <1>3, <2>1, <2>2, <2>3, LinksAre DEF Credentials, TokensInv
<1>5. PICK a : a = Mark(d, {g}, "active")
  OBVIOUS
<1>6. PICK b : b = Mark(a, {old}, "revoked")
  OBVIOUS
<1>7. PICK e : e = Mark(b, {h}, "superseded")
  OBVIOUS
<1>8. SuccessorActive(d, t) = e
  BY <1>1, <1>2, <1>3, <1>5, <1>6, <1>7 DEF SuccessorActive
<1>9. /\ "grant" \in Lasting /\ "token" \in Lasting
      /\ "active" \in EntryStatuses /\ "revoked" \in EntryStatuses /\ "superseded" \in EntryStatuses
  BY StatusesAre DEF Lasting
<1>10. Restated(d, a, Lasting) /\ \A k \in DOMAIN d : a[k].status = IF k = g THEN "active" ELSE d[k].status
  <2>1. Restated(d, d, Lasting)
    BY <1>4, RestatedSelf
  <2>. QED  BY <1>4, <1>5, <1>9, <2>1, RestatedMark
<1>11. Restated(d, b, Lasting) /\ \A k \in DOMAIN d : b[k].status = IF k = old THEN "revoked" ELSE a[k].status
  BY <1>4, <1>6, <1>9, <1>10, RestatedMark
<1>12. Restated(d, e, Lasting) /\ \A k \in DOMAIN d : e[k].status = IF k = h THEN "superseded" ELSE b[k].status
  BY <1>4, <1>7, <1>9, <1>11, RestatedMark
<1>13. ASSUME NEW u \in DOMAIN d, u[1] = "token", e[u].status = "active"
       PROVE  /\ d[u].status = "active"
              /\ \/ e[d[u].in].status = d[d[u].in].status
                 \/ e[d[u].in].status \in {"active", "pending_activation"}
  <2>1. u /= old /\ d[u].status = "active"
    BY <1>4, <1>10, <1>11, <1>12, <1>13
  <2>2. d[u].in /= h
    BY <1>3, <1>4, <1>13, <2>1 DEF Credentials, TokensInv
  <2>3. d[u].in \in DOMAIN d /\ d[u].in[1] = "grant"
    BY <1>4, <1>13
  <2>. QED  BY <1>4, <1>10, <1>11, <1>12, <2>1, <2>2, <2>3
<1>14. ASSUME NEW u \in DOMAIN d, u[1] = "grant", e[u].status = "active"
       PROVE  d[u].status = "active" \/ (d[u].by \in DOMAIN d => e[d[u].by].status /= "active")
  <2>1. u /= h
    BY <1>12, <1>14
  <2>2. CASE u = g
    <3>1. e[old].status = "revoked"
      BY <1>4, <1>11, <1>12
    <3>. QED  BY <1>2, <2>2, <3>1
  <2>3. CASE u /= g
    BY <1>4, <1>10, <1>11, <1>12, <1>14, <2>1, <2>3
  <2>. QED  BY <2>2, <2>3
<1>15. Credentials(e)
  BY <1>12, <1>13, <1>14, TokensRestated
<1>. QED  BY <1>8, <1>12, <1>15

\* What a new token leaves alone.
Spared == Told \ {"token", "grant", "invite"}

\* One more token with a grant of its own, in a company that is not shut.
LEMMA TokenAdded ==
  ASSUME NEW d, NEW U, Shaped(d, U), Credentials(d), NEW e, NEW g, NEW t,
         g[1] = "grant", t[1] = "token", g \notin DOMAIN d, t \notin DOMAIN d,
         \A k : k[1] \in {"token", "grant"} => (k \in DOMAIN e <=> k \in DOMAIN d \cup {g, t}),
         \A k \in DOMAIN d : k[1] \in {"token", "grant"} => e[k] = d[k],
         e[t].in = g, e[g].status \in {"active", "pending_activation"},
         e[g].by /= Nobody =>
            /\ e[g].by \in DOMAIN d /\ e[g].by[1] = "token" /\ d[d[e[g].by].in].in = e[g].in
            /\ e[g].status = "active" => d[e[g].by].status /= "active",
         Same(d, e, Spared),
         \A i \in DOMAIN e : i[1] = "invite" =>
            i \in DOMAIN d /\ e[i].in = d[i].in /\ e[i].to = d[i].to
            /\ (e[i].status = "issued" => d[i].status = "issued"),
         \A o \in DOMAIN d : o[1] = "company" /\ IsShut(d[o]) => e[g].in /= o
  PROVE  Credentials(e)
<1>1. MastersInv(e) /\ ProofsInv(e) /\ PairingsInv(e) /\ NamesInv(e)
  <2>1. PICK X : X = {"token", "grant", "invite"}
    OBVIOUS
  <2>2. X \cap {"master", "company"} = {} /\ X \cap {"proof", "authority"} = {} /\
        X \cap {"pairing", "credential", "rotation", "pairrequest"} = {} /\ X \cap {"pairrequest"} = {}
    BY <2>1
  <2>3. Same(d, e, Told \ X)
    BY <2>1 DEF Spared
  <2>. QED  BY <2>2, <2>3, OthersStay
<1>2. TokensInv(e)
  BY TokensAdded DEF Credentials
<1>3. \A k : k[1] \in Spared => (k \in DOMAIN d <=> k \in DOMAIN e) /\ (k \in DOMAIN d => e[k] = d[k])
  BY DEF Same
<1>4. InvitesInv(e)
  <2>1. \A r \in DOMAIN d : r[1] = "request" => r \in DOMAIN e /\ e[r] = d[r]
    BY <1>3 DEF Told, Spared
  <2>. QED  BY <2>1, InvitesStay DEF Credentials
<1>5. ShutInv(e)
  <2>1. \A o \in DOMAIN e : o[1] = "company" => o \in DOMAIN d /\ e[o] = d[o]
    BY <1>3 DEF Told, Spared
  <2>2. ASSUME NEW o \in DOMAIN d, o[1] = "company", IsShut(d[o]), NEW k \in DOMAIN e, Opens(e, k, o)
        PROVE  k \in DOMAIN d /\ Opens(d, k, o)
    <3>1. CASE k[1] = "token"
      <4>1. e[k].status = "active" /\ e[e[k].in].in = o
        BY <2>2, <3>1 DEF Opens
      <4>2. k /= t
        BY <2>2, <4>1
      <4>3. k \in DOMAIN d /\ e[k] = d[k]
        BY <3>1, <4>2
      <4>4. d[k].in \in DOMAIN d /\ d[k].in[1] = "grant"
        BY <3>1, <4>3, LinksAre DEF Credentials, TokensInv
      <4>. QED  BY <3>1, <4>1, <4>3, <4>4 DEF Opens
    <3>2. CASE k[1] = "invite"
      BY <2>2, <3>2 DEF Opens
    <3>3. CASE k[1] \in {"master", "workspace", "pairing"}
      <4>1. k \in DOMAIN d /\ e[k] = d[k]
        BY <1>3, <3>3 DEF Told, Spared
      <4>. QED  BY <2>2, <3>3, <4>1 DEF Opens
    <3>. QED  BY <2>2, <3>1, <3>2, <3>3 DEF Opens
  <2>3. ShutInv(d)
    BY DEF Credentials
  <2>. QED  BY <2>1, <2>2, <2>3, ShutStays
<1>. QED  BY <1>1, <1>2, <1>4, <1>5 DEF Credentials

\* A prepared successor lies in a company that has its predecessor open.
LEMMA SuccessorMadeCredentials ==
  ASSUME NEW d, NEW U, Shaped(d, U), Credentials(d), NEW c, NEW t \in DOMAIN d, t[1] = "token",
      d[t].status = "active",
         <<"grant", c.n>> \notin DOMAIN d, <<"token", c.n>> \notin DOMAIN d,
         NEW h, Same(SuccessorMade(d, c, t), h, Told)
  PROVE  Credentials(h)
<1>1. PICK g : g = <<"grant", c.n>>
  OBVIOUS
<1>2. PICK u : u = <<"token", c.n>>
  OBVIOUS
<1>3. PICK x : x = [New("pending_activation", d[d[t].in].in) EXCEPT !.to = d[d[t].in].to, !.by = t]
  OBVIOUS
<1>4. PICK y : y = [New("active", g) EXCEPT !.by = d[t].by]
  OBVIOUS
<1>5. PICK a : a = Put(d, g, x)
  OBVIOUS
<1>6. PICK e : e = Put(a, u, y)
  OBVIOUS
<1>7. SuccessorMade(d, c, t) = e
  BY <1>1, <1>2, <1>3, <1>4, <1>5, <1>6 DEF SuccessorMade
<1>8. x.status = "pending_activation" /\ x.in = d[d[t].in].in /\ x.by = t /\ y.in = g
  BY <1>3, <1>4 DEF New
<1>9. g[1] = "grant" /\ u[1] = "token" /\ g \notin DOMAIN d /\ u \notin DOMAIN d /\ g /= u
  BY <1>1, <1>2
<1>10. /\ DOMAIN e = DOMAIN d \cup {g, u} /\ e[g] = x /\ e[u] = y
       /\ \A k \in DOMAIN d : e[k] = d[k]
  BY <1>5, <1>6, <1>9 DEF Put
<1>11. \A k : k[1] \in Told => (k \in DOMAIN e <=> k \in DOMAIN h) /\ (k \in DOMAIN e => h[k] = e[k])
  BY <1>7 DEF Same
<1>12. Same(d, h, Spared)
  BY <1>9, <1>10, <1>11 DEF Same, Spared
<1>13. \A i \in DOMAIN h : i[1] = "invite" => i \in DOMAIN d /\ h[i] = d[i]
  BY <1>9, <1>10, <1>11 DEF Told
<1>14. /\ \A k : k[1] \in {"token", "grant"} => (k \in DOMAIN h <=> k \in DOMAIN d \cup {g, u})
       /\ \A k \in DOMAIN d : k[1] \in {"token", "grant"} => h[k] = d[k]
       /\ h[g] = x /\ h[u] = y
  BY <1>9, <1>10, <1>11 DEF Told
<1>15. \A o \in DOMAIN d : o[1] = "company" /\ IsShut(d[o]) => x.in /= o
  BY <1>8 DEF Credentials, ShutInv, Opens
<1>16. /\ h[u].in = g /\ h[g].status \in {"active", "pending_activation"}
       /\ h[g].by /= Nobody =>
            /\ h[g].by \in DOMAIN d /\ h[g].by[1] = "token" /\ d[d[h[g].by].in].in = h[g].in
            /\ h[g].status = "active" => d[h[g].by].status /= "active"
       /\ \A o \in DOMAIN d : o[1] = "company" /\ IsShut(d[o]) => h[g].in /= o
  BY <1>8, <1>14, <1>15
<1>17. \A i \in DOMAIN h : i[1] = "invite" =>
            i \in DOMAIN d /\ h[i].in = d[i].in /\ h[i].to = d[i].to
            /\ (h[i].status = "issued" => d[i].status = "issued")
  BY <1>13
<1>. QED  BY <1>9, <1>12, <1>14, <1>16, <1>17, TokenAdded

\* Revoking an agent token keeps what is told of credentials.
LEMMA revoke_agent_tokenCredentials ==
  ASSUME NEW d, NEW U, Shaped(d, U), Credentials(d), NEW c, c.of[1] = "token", revoke_agent_token(d, c) /= Refused
  PROVE  Credentials(revoke_agent_token(d, c))
<1>1. c.of \in DOMAIN d /\ revoke_agent_token(d, c) = Mark(d, {c.of, d[c.of].in}, "revoked")
  BY DEF revoke_agent_token, Live, Status
<1>. QED  BY <1>1, TokenRevoked

\* Preparing a token's successor keeps what is told of credentials.
LEMMA prepare_agent_token_replacementCredentials ==
  ASSUME NEW d, NEW U, Shaped(d, U), Credentials(d), NEW c, c.of[1] = "token",
         <<"grant", c.n>> \notin DOMAIN d, <<"token", c.n>> \notin DOMAIN d,
         prepare_agent_token_replacement(d, c) /= Refused
  PROVE  Credentials(prepare_agent_token_replacement(d, c))
<1>1. Replaceable(d, c, c.of) /\ prepare_agent_token_replacement(d, c) = SuccessorMade(d, c, c.of)
  BY DEF prepare_agent_token_replacement
<1>2. c.of \in DOMAIN d /\ d[c.of].status = "active"
  BY <1>1 DEF Replaceable, Live, Status
<1>. QED  BY <1>1, <1>2, SameSelf, SuccessorMadeCredentials

\* Confirming a token's successor, with that successor, keeps what is told of credentials.
LEMMA confirm_agent_token_replacementCredentials ==
  ASSUME NEW d, NEW U, Shaped(d, U), Credentials(d), NEW c, c.as[1] = "token",
         confirm_agent_token_replacement(d, c) /= Refused
  PROVE  Credentials(confirm_agent_token_replacement(d, c))
<1>1. c.as \in DOMAIN d /\ In(d, c.as) = d[c.as].in
  BY DEF confirm_agent_token_replacement, Live, Status, In
<1>2. PICK g : g = In(d, c.as)
  OBVIOUS
<1>3. /\ d[g].by \in DOMAIN d
      /\ \/ confirm_agent_token_replacement(d, c) = Lapsed(d, c.as)
         \/ confirm_agent_token_replacement(d, c) = SuccessorActive(d, c.as)
  BY <1>2 DEF confirm_agent_token_replacement
<1>4. CASE confirm_agent_token_replacement(d, c) = Lapsed(d, c.as)
  BY <1>1, <1>4, TokenEnds, StatusesAre DEF Lapsed
<1>5. CASE confirm_agent_token_replacement(d, c) = SuccessorActive(d, c.as)
  BY <1>1, <1>2, <1>3, <1>5, SuccessorCredentials
<1>. QED  BY <1>3, <1>4, <1>5

\* Cancelling a token's successor keeps what is told of credentials.
LEMMA cancel_agent_token_replacementCredentials ==
  ASSUME NEW d, NEW U, Shaped(d, U), Credentials(d), NEW c, c.of[1] = "token",
         cancel_agent_token_replacement(d, c) /= Refused
  PROVE  Credentials(cancel_agent_token_replacement(d, c))
<1>1. PICK g : g = In(d, c.of)
  OBVIOUS
<1>2. Status(d, g) = "pending_activation"
      /\ cancel_agent_token_replacement(d, c) = Mark(Mark(d, {c.of}, "revoked"), {g}, "cancelled")
  BY <1>1 DEF cancel_agent_token_replacement
<1>3. g \in DOMAIN d
  BY <1>2 DEF Status
<1>4. c.of \in DOMAIN d /\ g = d[c.of].in
  BY <1>1, <1>3, LinksAre DEF In
<1>5. "cancelled" \in EntryStatuses
  BY StatusesAre
<1>. QED  BY <1>2, <1>4, <1>5, TokenEnds

\* Expiring successors that were not confirmed keeps what is told of credentials.
LEMMA expire_pending_agent_token_replacementsCredentials ==
  ASSUME NEW d, NEW U, Shaped(d, U), Credentials(d), NEW c,
         expire_pending_agent_token_replacements(d, c) /= Refused
  PROVE  Credentials(expire_pending_agent_token_replacements(d, c))
<1>1. PICK G : G = {g \in Section(d, "grant") \cap c.late : d[g].status = "pending_activation"}
  OBVIOUS
<1>2. PICK T : T = {t \in Section(d, "token") : d[t].in \in G}
  OBVIOUS
<1>3. PICK a : a = Mark(d, G, "expired")
  OBVIOUS
<1>4. PICK e : e = Mark(a, T, "revoked")
  OBVIOUS
<1>5. expire_pending_agent_token_replacements(d, c) = e
  BY <1>1, <1>2, <1>3, <1>4 DEF expire_pending_agent_token_replacements
<1>6. /\ \A g \in G : g \in DOMAIN d /\ g[1] = "grant" /\ g[1] \in Lasting
      /\ \A t \in T : t \in DOMAIN d /\ t[1] = "token" /\ t[1] \in Lasting
      /\ Entries(d) /\ "expired" \in EntryStatuses /\ "revoked" \in EntryStatuses
  BY <1>1, <1>2, LinksAre, StatusesAre DEF Section, Lasting
<1>7. Restated(d, a, Lasting) /\ \A k \in DOMAIN d : a[k].status = IF k \in G THEN "expired" ELSE d[k].status
  <2>1. Restated(d, d, Lasting)
    BY <1>6, RestatedSelf
  <2>. QED  BY <1>3, <1>6, <2>1, RestatedMark
<1>8. Restated(d, e, Lasting) /\ \A k \in DOMAIN d : e[k].status = IF k \in T THEN "revoked" ELSE a[k].status
  BY <1>4, <1>6, <1>7, RestatedMark
<1>9. \A u \in DOMAIN d : u[1] = "token" => e[u].status = IF u \in T THEN "revoked" ELSE d[u].status
  BY <1>6, <1>7, <1>8
<1>10. \A g \in DOMAIN d : g[1] = "grant" =>
            IF g \in G THEN e[g].status /= "active" ELSE e[g].status = d[g].status
  BY <1>6, <1>7, <1>8
<1>11. \A u \in DOMAIN d : u[1] = "token" /\ d[u].in \in G => u \in T
  BY <1>2 DEF Section
<1>12. Credentials(e)
  BY <1>8, <1>9, <1>10, <1>11, TokensEnd
<1>. QED  BY <1>5, <1>12

\* A token that is live follows no live one, so no successor of its own is among those that
\* lapse.
LEMMA prepare_human_agent_token_replacementCredentials ==
  ASSUME NEW d, NEW U, Shaped(d, U), SuccessionInv(d), Credentials(d), NEW c, c.of[1] = "token",
         <<"grant", c.n>> \notin DOMAIN d, <<"token", c.n>> \notin DOMAIN d,
         prepare_human_agent_token_replacement(d, c) /= Refused
  PROVE  Credentials(prepare_human_agent_token_replacement(d, c))
<1>1. PICK R : R = Waiting(d, c.of) \cap c.late
  OBVIOUS
<1>2. PICK e : e = LapsedAll(d, R)
  OBVIOUS
<1>3. PICK x : x = [New("prepared", ManagedCompany(c.seen[1], c.as))
                   EXCEPT !.by = c.of, !.to = <<"token", c.n>>, !.val = <<c.key>>]
  OBVIOUS
<1>4. PICK f : f = SuccessorMade(e, c, c.of)
  OBVIOUS
<1>5. /\ Replaceable(d, c, c.of)
      /\ prepare_human_agent_token_replacement(d, c) = Put(f, <<"replacement", c.n>>, x)
  BY <1>1, <1>2, <1>3, <1>4 DEF prepare_human_agent_token_replacement
<1>6. \A r \in R : r[1] = "replacement" /\ r \in DOMAIN d /\ d[r].by = c.of
  BY <1>1 DEF Waiting, Section
<1>7. Credentials(e) /\ Restated(d, e, Lasting)
      /\ \A k \in DOMAIN d : k[1] = "token" /\ (\A r \in R : d[r].to /= k) => e[k].status = d[k].status
  BY <1>2, <1>6, LapsedCredentials
<1>8. c.of \in DOMAIN d /\ d[c.of].status = "active" /\ d[c.of].in \in DOMAIN d /\ d[d[c.of].in].status = "active"
      /\ d[c.of].in[1] = "grant" /\ c.of /= Nobody
  BY <1>5, LinksAre DEF Replaceable, Live, Status
<1>9. \A r \in R : d[r].to /= c.of
  <2>1. ASSUME NEW r \in R, d[r].to = c.of PROVE FALSE
    <3>1. d[d[c.of].in].by = c.of
      BY <1>6, <2>1 DEF SuccessionInv, Follows
    <3>. QED  BY <1>8, <3>1 DEF Credentials, TokensInv
  <2>. QED  BY <2>1
<1>10. Shaped(e, U) /\ DOMAIN e = DOMAIN d /\ e[c.of].status = "active"
  BY <1>7, <1>8, <1>9, RestatedShaped DEF Restated
<1>11. Same(f, Put(f, <<"replacement", c.n>>, x), Told)
  BY SameSelf, SamePut DEF Told
<1>. QED  BY <1>4, <1>5, <1>7, <1>8, <1>10, <1>11, SuccessorMadeCredentials

\* Reading a human's replacement, which may expire it, keeps what is told of credentials.
LEMMA human_agent_token_replacement_statusCredentials ==
  ASSUME NEW d, NEW U, Shaped(d, U), Credentials(d), NEW c, c.of[1] = "replacement",
         human_agent_token_replacement_status(d, c) /= Refused
  PROVE  Credentials(human_agent_token_replacement_status(d, c))
<1>1. c.of \in DOMAIN d /\ human_agent_token_replacement_status(d, c) = LapsedAll(d, {c.of})
  BY DEF human_agent_token_replacement_status, Status
<1>2. PICK R : R = {c.of}
  OBVIOUS
<1>3. \A r \in R : r[1] = "replacement" /\ r \in DOMAIN d
  BY <1>1, <1>2
<1>. QED  BY <1>1, <1>2, <1>3, LapsedCredentials

\* The successor that the replacement names follows the token it replaces.
LEMMA confirm_human_agent_token_replacementCredentials ==
  ASSUME NEW d, NEW U, Shaped(d, U), SuccessionInv(d), Credentials(d), NEW c, c.of[1] = "replacement",
         confirm_human_agent_token_replacement(d, c) /= Refused
  PROVE  Credentials(confirm_human_agent_token_replacement(d, c))
<1>1. /\ Status(d, c.of) = "prepared"
      /\ \/ confirm_human_agent_token_replacement(d, c) = LapsedAll(d, {c.of})
         \/ /\ c.to = d[c.of].to /\ c.to \in DOMAIN d /\ Live(d, d[c.of].by)
            /\ confirm_human_agent_token_replacement(d, c) = Mark(SuccessorActive(d, c.to), {c.of}, "confirmed")
  BY DEF confirm_human_agent_token_replacement
<1>2. c.of \in DOMAIN d
  BY <1>1 DEF Status
<1>3. CASE confirm_human_agent_token_replacement(d, c) = LapsedAll(d, {c.of})
  <2>1. PICK R : R = {c.of}
    OBVIOUS
  <2>2. \A r \in R : r[1] = "replacement" /\ r \in DOMAIN d
    BY <1>2, <2>1
  <2>. QED  BY <1>3, <2>1, <2>2, LapsedCredentials
<1>4. CASE /\ c.to = d[c.of].to /\ c.to \in DOMAIN d /\ Live(d, d[c.of].by)
           /\ confirm_human_agent_token_replacement(d, c) = Mark(SuccessorActive(d, c.to), {c.of}, "confirmed")
  <2>1. c.to[1] = "token" /\ d[d[c.to].in].by = d[c.of].by
    BY <1>2, <1>4 DEF SuccessionInv, Follows
  <2>2. d[c.of].by \in DOMAIN d
    BY <1>4 DEF Live, Status
  <2>3. PICK e : e = SuccessorActive(d, c.to)
    OBVIOUS
  <2>4. Restated(d, e, Lasting) /\ Credentials(e)
    BY <1>4, <2>1, <2>2, <2>3, SuccessorCredentials
  <2>. QED  BY <1>4, <2>3, <2>4, ReplacementMarked
<1>. QED  BY <1>1, <1>3, <1>4

\* Cancelling a human's replacement keeps what is told of credentials.
LEMMA cancel_human_agent_token_replacementCredentials ==
  ASSUME NEW d, NEW U, Shaped(d, U), SuccessionInv(d), Credentials(d), NEW c, c.of[1] = "replacement",
         cancel_human_agent_token_replacement(d, c) /= Refused
  PROVE  Credentials(cancel_human_agent_token_replacement(d, c))
<1>1. PICK t : t = d[c.of].to
  OBVIOUS
<1>2. PICK e : e = Mark(Mark(d, {t}, "revoked"), {d[t].in}, "cancelled")
  OBVIOUS
<1>3. /\ Status(d, c.of) = "prepared"
      /\ cancel_human_agent_token_replacement(d, c) = Mark(e, {c.of}, "canceled")
  BY <1>1, <1>2 DEF cancel_human_agent_token_replacement
<1>4. c.of \in DOMAIN d
  BY <1>3 DEF Status
<1>5. t \in DOMAIN d /\ t[1] = "token" /\ d[t].in[1] = "grant"
  BY <1>1, <1>4 DEF SuccessionInv, Follows
<1>6. "cancelled" \in EntryStatuses /\ "revoked" \in EntryStatuses /\ "grant" \in Lasting /\ "token" \in Lasting /\
      Entries(d)
  BY StatusesAre, LinksAre DEF Lasting
<1>7. Credentials(e)
  BY <1>2, <1>5, <1>6, TokenEnds
<1>8. Restated(d, e, Lasting)
  <2>1. Restated(d, d, Lasting)
    BY <1>6, RestatedSelf
  <2>2. Restated(d, Mark(d, {t}, "revoked"), Lasting)
    BY <1>5, <1>6, <2>1, RestatedMark
  <2>. QED  BY <1>2, <1>5, <1>6, <2>2, RestatedMark
<1>. QED  BY <1>3, <1>7, <1>8, ReplacementMarked

\* An invite that was issued lies in a company that is not shut; the token it supersedes ends
\* before the one it makes counts.
LEMMA redeem_agent_inviteCredentials ==
  ASSUME NEW d, NEW U, Shaped(d, U), Credentials(d), NEW c, c.of[1] = "invite", c.to[1] = "token",
         <<"grant", c.n>> \notin DOMAIN d, redeem_agent_invite(d, c) /= Refused
  PROVE  Credentials(redeem_agent_invite(d, c))
<1>. DEFINE o0 == d[c.of].in
            request0 == d[c.of].to
            identity0 == CHOOSE k \in Named(d, o0, d[request0].val[1]) : TRUE
            old0 == d[request0].to
            first0 == Put(d, <<"grant", c.n>>, [New("active", o0) EXCEPT !.to = d[request0].val[2], !.by = old0])
            made0 == Put(first0, c.to, [New("active", <<"grant", c.n>>) EXCEPT !.by = identity0])
            ended0 == IF old0 = Nobody THEN made0 ELSE Mark(made0, {old0, d[old0].in}, "revoked")
            done0 == [ended0 EXCEPT ![c.of].status = "redeemed", ![c.of].by = c.key]
            places == {a \in Ancestors(d, d[request0].val[2]) : a[1] = "workspace"}
            agent == <<"agent", d[identity0].val[1]>>
            home == New("active", CHOOSE w \in places : TRUE)
<1>0. /\ Status(d, c.of) = "issued"
      /\ \/ redeem_agent_invite(d, c) = Mark(d, {c.of}, "expired")
         \/ /\ Status(d, request0) = "approved"
            /\ old0 /= Nobody => Live(d, old0) /\ d[d[old0].in].in = o0
            /\ c.to \notin DOMAIN d
            /\ redeem_agent_invite(d, c) = done0 \/ redeem_agent_invite(d, c) = Put(done0, agent, home)
  BY DEF redeem_agent_invite
<1>. HIDE DEF o0, request0, identity0, old0, first0, made0, ended0, done0, places, agent, home
<1>1. PICK o : o = o0
  OBVIOUS
<1>2. PICK request : request = request0
  OBVIOUS
<1>3. PICK identity : identity = identity0
  OBVIOUS
<1>4. PICK old : old = old0
  OBVIOUS
<1>5. PICK g : g = <<"grant", c.n>>
  OBVIOUS
<1>6. PICK x : x = [New("active", o0) EXCEPT !.to = d[request0].val[2], !.by = old0]
  OBVIOUS
<1>7. PICK y : y = [New("active", <<"grant", c.n>>) EXCEPT !.by = identity0]
  OBVIOUS
<1>8. PICK first : first = first0
  OBVIOUS
<1>9. PICK made : made = made0
  OBVIOUS
<1>10. PICK ended : ended = ended0
  OBVIOUS
<1>11. PICK done : done = done0
  OBVIOUS
<1>20. first = Put(d, g, x)
  BY <1>5, <1>6, <1>8 DEF first0
<1>21. made = Put(first, c.to, y)
  BY <1>7, <1>8, <1>9 DEF made0
<1>22. ended = IF old = Nobody THEN made ELSE Mark(made, {old, d[old].in}, "revoked")
  BY <1>4, <1>9, <1>10 DEF ended0
<1>23. done = [ended EXCEPT ![c.of].status = "redeemed", ![c.of].by = c.key]
  BY <1>10, <1>11 DEF done0
<1>12. PICK b : b = IF old = Nobody THEN d ELSE Mark(d, {old, d[old].in}, "revoked")
  OBVIOUS
<1>13. /\ Status(d, c.of) = "issued"
       /\ \/ redeem_agent_invite(d, c) = Mark(d, {c.of}, "expired")
          \/ /\ Status(d, request) = "approved"
             /\ old /= Nobody => Live(d, old) /\ d[d[old].in].in = o
             /\ c.to \notin DOMAIN d
             /\ redeem_agent_invite(d, c) = done \/ redeem_agent_invite(d, c) = Put(done, agent, home)
  BY <1>0, <1>1, <1>2, <1>4, <1>11
<1>24. /\ o = d[c.of].in /\ request = d[c.of].to /\ old = d[request].to
      /\ x.status = "active" /\ x.in = o /\ x.by = old /\ IsEntry(x)
      /\ y.in = g /\ IsEntry(y)
  BY <1>1, <1>2, <1>4, <1>5, <1>6, <1>7, StatusesAre DEF o0, request0, old0, New, IsEntry
<1>14. c.of \in DOMAIN d /\ d[c.of].status = "issued" /\ Entries(d) /\ Nobody \notin DOMAIN d
  BY <1>13, LinksAre DEF Status
<1>15. CASE redeem_agent_invite(d, c) = Mark(d, {c.of}, "expired")
  <2>1. PICK e : e = Mark(d, {c.of}, "expired")
    OBVIOUS
  <2>2. /\ DOMAIN e = DOMAIN d
        /\ \A k \in DOMAIN d : /\ e[k].in = d[k].in /\ e[k].to = d[k].to
                               /\ k /= c.of => e[k] = d[k]
        /\ e[c.of].status = "expired"
    BY <1>14, <2>1, Marked, StatusesAre
  <2>3. Same(d, e, Told \ {"invite"})
    BY <2>2 DEF Same
  <2>4. TokensInv(e) /\ MastersInv(e) /\ ProofsInv(e) /\ PairingsInv(e) /\ NamesInv(e)
    <3>1. PICK X : X = {"invite"}
      OBVIOUS
    <3>2. X \cap {"token", "grant"} = {} /\ X \cap {"master", "company"} = {} /\
          X \cap {"proof", "authority"} = {} /\ X \cap {"pairing", "credential", "rotation", "pairrequest"} = {} /\
          X \cap {"pairrequest"} = {}
      BY <3>1
    <3>3. Same(d, e, Told \ X)
      BY <2>3, <3>1
    <3>. QED  BY <3>2, <3>3, OthersStay
  <2>5. InvitesInv(e)
    BY <2>2, InvitesStay DEF Credentials
  <2>6. ShutInv(e)
    <3>1. \A o1 \in DOMAIN e : o1[1] = "company" => e[o1] = d[o1]
      BY <2>2
    <3>2. \A g1 \in DOMAIN d : g1[1] = "grant" => e[g1].in = d[g1].in
      BY <2>2
    <3>3. ASSUME NEW k \in DOMAIN e, NEW o1, Opens(e, k, o1) PROVE k \in DOMAIN d /\ Opens(d, k, o1)
      <4>1. CASE k = c.of
        BY <2>2, <3>3, <4>1 DEF Opens
      <4>2. CASE k /= c.of
        BY <2>2, <3>2, <3>3, <4>2, OpensSame DEF Credentials
      <4>. QED  BY <4>1, <4>2
    <3>. QED  BY <2>2, <3>1, <3>3, ShutStays DEF Credentials
  <2>. QED  BY <1>15, <2>1, <2>4, <2>5, <2>6 DEF Credentials
<1>16. CASE /\ Status(d, request) = "approved"
            /\ old /= Nobody => Live(d, old) /\ d[d[old].in].in = o
            /\ c.to \notin DOMAIN d
            /\ redeem_agent_invite(d, c) = done \/ redeem_agent_invite(d, c) = Put(done, agent, home)
  <2>1. request \in DOMAIN d /\ request[1] = "request"
    BY <1>24, <1>14, <1>16, LinksAre DEF Status
  <2>2. old = Nobody \/ (old \in DOMAIN d /\ old[1] = "token" /\ d[old].in \in DOMAIN d /\ d[old].in[1] = "grant")
    <3>1. old = Nobody \/ old[1] = "token"
      BY <1>24, <2>1, AgentsFree DEF Ref
    <3>2. old /= Nobody => old \in DOMAIN d
      BY <1>16 DEF Live, Status
    <3>. QED  BY <3>1, <3>2, LinksAre DEF Credentials, TokensInv
  <2>3. x.status = "active" /\ x.in = o /\ x.by = old /\ y.in = g
    BY <1>24
  <2>4. /\ DOMAIN made = DOMAIN d \cup {g, c.to} /\ made[g] = x /\ made[c.to] = y
        /\ g /= c.to /\ g[1] = "grant" /\ g \notin DOMAIN d
        /\ \A k \in DOMAIN d : made[k] = d[k]
    BY <1>5, <1>16, <1>20, <1>21 DEF Put
  <2>5. Entries(made)
    BY <1>14, <1>24, <2>4 DEF Entries
  <2>6. /\ Shaped(b, U) /\ Credentials(b) /\ DOMAIN b = DOMAIN d
        /\ \A k \in DOMAIN d : /\ b[k].in = d[k].in /\ b[k].to = d[k].to
                               /\ k[1] \notin {"token", "grant"} => b[k] = d[k]
        /\ old /= Nobody => b[old].status = "revoked"
        /\ DOMAIN ended = DOMAIN made /\ Entries(ended) /\ ended[g] = x /\ ended[c.to] = y
        /\ \A k \in DOMAIN d : ended[k] = b[k]
    <3>1. CASE old = Nobody
      BY <1>22, <1>12, <2>4, <2>5, <3>1
    <3>2. CASE old /= Nobody
      <4>1. PICK K : K = {old, d[old].in}
        OBVIOUS
      <4>2. b = Mark(d, K, "revoked") /\ ended = Mark(made, K, "revoked") /\ old \in K
        BY <1>22, <1>12, <3>2, <4>1
      <4>3. \A k \in K : k \in DOMAIN d /\ k[1] \in {"token", "grant"} /\ k[1] \in Lasting
        BY <2>2, <3>2, <4>1 DEF Lasting
      <4>4. Restated(d, b, Lasting) /\ b[old].status = "revoked"
        <5>1. Restated(d, d, Lasting)
          BY <1>14, RestatedSelf
        <5>. QED  BY <4>2, <4>3, <5>1, RestatedMark, StatusesAre
      <4>5. Shaped(b, U) /\ Credentials(b) /\ DOMAIN b = DOMAIN d
        <5>1. b = Mark(d, {old, d[old].in}, "revoked")
          BY <1>12, <3>2
        <5>2. Credentials(b)
          BY <2>2, <3>2, <5>1, TokenRevoked
        <5>. QED  BY <4>4, <5>2, RestatedShaped DEF Restated
      <4>6. DOMAIN ended = DOMAIN made /\ Entries(ended) /\ \A k \in DOMAIN made : k \notin K => ended[k] = made[k]
        BY <2>5, <4>2, Marked, StatusesAre
      <4>7. \A k \in K : ended[k] = [made[k] EXCEPT !.status = "revoked"] /\
            b[k] = [d[k] EXCEPT !.status = "revoked"]
        BY <2>4, <4>2, <4>3 DEF Mark
      <4>8. /\ \A k \in DOMAIN d : /\ b[k].in = d[k].in /\ b[k].to = d[k].to
                                   /\ k \notin K => b[k] = d[k]
        BY <1>14, <4>2, Marked, StatusesAre
      <4>9. \A k \in DOMAIN d : ended[k] = b[k]
        <5>1. ASSUME NEW k \in DOMAIN d, k \in K PROVE ended[k] = b[k]
          BY <2>4, <4>7, <5>1
        <5>2. ASSUME NEW k \in DOMAIN d, k \notin K PROVE ended[k] = b[k]
          BY <2>4, <4>6, <4>8, <5>2
        <5>. QED  BY <5>1, <5>2
      <4>10. g \notin K /\ c.to \notin K
        BY <1>16, <2>4, <4>3
      <4>11. ended[g] = x /\ ended[c.to] = y
        BY <2>4, <4>6, <4>10
      <4>. QED  BY <4>3, <4>4, <4>5, <4>6, <4>8, <4>9, <4>11
    <3>. QED  BY <3>1, <3>2
  <2>7. PICK e : e = redeem_agent_invite(d, c)
    OBVIOUS
  <2>8. /\ DOMAIN done = DOMAIN ended /\ \A j \in DOMAIN ended : j /= c.of => done[j] = ended[j]
        /\ done[c.of].status = "redeemed" /\ done[c.of].in = ended[c.of].in /\ done[c.of].to = ended[c.of].to
    <3>1. c.of \in DOMAIN ended /\ Entries(ended)
      BY <1>14, <2>4, <2>6
    <3>2. DOMAIN done = DOMAIN ended /\ \A j \in DOMAIN ended : j /= c.of => done[j] = ended[j]
      BY <1>23
    <3>3. PICK z : z = ended[c.of]
      OBVIOUS
    <3>4. done[c.of] = [z EXCEPT !.status = "redeemed", !.by = c.key]
      BY <1>23, <3>1, <3>3
    <3>5. PICK v : v = done[c.of]
      OBVIOUS
    <3>6. v = [status |-> "redeemed", in |-> z.in, by |-> c.key, to |-> z.to, rev |-> z.rev, val |-> z.val]
      BY <3>1, <3>3, <3>4, <3>5 DEF Entries, IsEntry
    <3>7. v.status = "redeemed" /\ v.in = z.in /\ v.to = z.to
      BY <3>6
    <3>. QED  BY <3>2, <3>3, <3>5, <3>7
  <2>9. Same(done, e, Told)
    BY <1>16, <2>7, SameSelf, SamePut DEF Told, agent
  <2>10. \A k : k[1] \in Told => (k \in DOMAIN e <=> k \in DOMAIN b \cup {g, c.to}) /\
                                 (k \in DOMAIN e => e[k] = done[k])
    BY <2>4, <2>6, <2>8, <2>9 DEF Same
  <2>11. /\ \A k : k[1] \in {"token", "grant"} => (k \in DOMAIN e <=> k \in DOMAIN b \cup {g, c.to})
         /\ \A k \in DOMAIN b : k[1] \in {"token", "grant"} => e[k] = b[k]
         /\ e[g] = x /\ e[c.to] = y
    BY <2>4, <2>6, <2>8, <2>10 DEF Told
  <2>12. Same(b, e, Spared)
    BY <2>4, <2>6, <2>8, <2>10 DEF Same, Spared
  <2>13. \A i \in DOMAIN e : i[1] = "invite" =>
            i \in DOMAIN b /\ e[i].in = b[i].in /\ e[i].to = b[i].to
            /\ (e[i].status = "issued" => b[i].status = "issued")
    <3>1. ASSUME NEW i \in DOMAIN e, i[1] = "invite"
          PROVE  i \in DOMAIN d /\ e[i] = done[i] /\ ended[i] = b[i]
      BY <2>4, <2>6, <2>10, <3>1 DEF Told
    <3>2. ASSUME NEW i \in DOMAIN e, i[1] = "invite"
          PROVE  IF i = c.of THEN done[i].status = "redeemed" /\ done[i].in = b[i].in /\ done[i].to = b[i].to
                 ELSE done[i] = b[i]
      BY <2>4, <2>6, <2>8, <3>1, <3>2
    <3>. QED  BY <2>6, <3>1, <3>2
  <2>14. \A s \in DOMAIN b : s[1] = "company" /\ IsShut(b[s]) => x.in /= s
    <3>1. Opens(d, c.of, o)
      BY <1>24, <1>14 DEF Opens
    <3>2. \A s \in DOMAIN d : s[1] = "company" => b[s] = d[s]
      BY <2>6
    <3>. QED  BY <1>14, <2>3, <2>6, <3>1, <3>2 DEF Credentials, ShutInv
  <2>15. /\ e[c.to].in = g /\ e[g].status \in {"active", "pending_activation"}
         /\ e[g].by /= Nobody =>
            /\ e[g].by \in DOMAIN b /\ e[g].by[1] = "token" /\ b[b[e[g].by].in].in = e[g].in
            /\ e[g].status = "active" => b[e[g].by].status /= "active"
         /\ \A s \in DOMAIN b : s[1] = "company" /\ IsShut(b[s]) => e[g].in /= s
    <3>1. old /= Nobody => /\ old \in DOMAIN b /\ old[1] = "token" /\ b[b[old].in].in = o
                           /\ b[old].status /= "active"
      BY <1>16, <2>2, <2>6
    <3>. QED  BY <2>3, <2>11, <2>14, <3>1
  <2>16. g \notin DOMAIN b /\ c.to \notin DOMAIN b
    BY <1>16, <2>4, <2>6
  <2>17. Credentials(e)
    <3>1. PICK t : t = c.to
      OBVIOUS
    <3>2. t[1] = "token"
      BY <3>1
    <3>. QED  BY <2>4, <2>6, <2>11, <2>12, <2>13, <2>15, <2>16, <3>1, <3>2, TokenAdded
  <2>. QED  BY <2>7, <2>17
<1>. QED  BY <1>13, <1>15, <1>16

---------------------------------------------------------------------------
(* Accounts and masters. *)

\* The default rooms of a workspace are no credentials.
LEMMA RoomsCredentials ==
  ASSUME NEW d, NEW U, Shaped(d, U), Credentials(d), NEW w
  PROVE  Credentials(_ensure_default_meeting_rooms(d, w))
<1>. DEFINE missing == {Room(w, s) : s \in _default_meeting_room_specs(d, w)} \ DOMAIN d
            f == _ensure_default_meeting_rooms(d, w)
<1>1. /\ DOMAIN f = DOMAIN d \cup missing
      /\ \A j \in DOMAIN d \ missing : f[j] = d[j]
      /\ missing \cap DOMAIN d = {}
  BY DEF _ensure_default_meeting_rooms, With
<1>2. \A k \in missing : k[1] = "room"
  BY DEF Room
<1>. HIDE DEF missing, f
<1>3. Same(d, f, Told)
  BY <1>1, <1>2 DEF Same, Told
<1>4. Credentials(f)
  BY <1>3, CredentialsStay
<1>. QED  BY <1>4 DEF f

\* A new account brings its company, with one master, and its workspace.
LEMMA AccountCredentials ==
  ASSUME NEW d, NEW U, Shaped(d, U), Credentials(d), NEW x, NEW m, NEW h,
         m[1] = "master", h[1] = "humancred", IsKey(m), IsKey(h),
         DOMAIN AccountGraph(x, m, h) \cap DOMAIN d = {}
  PROVE  Credentials(With(d, AccountGraph(x, m, h)))
<1>. DEFINE g == AccountGraph(x, m, h)
            o == <<"company", x>>
            w == <<"workspace", x>>
<1>1. DOMAIN g = {<<"account", x>>, o, <<"project", x>>, w, m, h}
  BY DEF AccountGraph
<1>2. /\ m /= <<"account", x>> /\ m /= o /\ m /= <<"project", x>> /\ m /= w
  OBVIOUS
<1>3. g[o].status = "active" /\ g[m].in = o /\ g[m].status = "active" /\ g[w].in = o
  BY <1>2 DEF AccountGraph, New
<1>4. o[1] = "company" /\ w[1] = "workspace"
  OBVIOUS
<1>5. \A k \in DOMAIN g : k = o \/ k = m \/ k = w \/ k[1] \in {"account", "project", "humancred"}
  BY <1>1
<1>6. PICK e : e = With(d, g)
  OBVIOUS
<1>7. /\ DOMAIN e = DOMAIN d \cup DOMAIN g
      /\ \A k \in DOMAIN g : e[k] = g[k]
      /\ \A k \in DOMAIN d : k \notin DOMAIN g /\ e[k] = d[k]
  BY <1>6 DEF With
<1>8. o \in DOMAIN g /\ m \in DOMAIN g /\ w \in DOMAIN g /\ o \notin DOMAIN d
  BY <1>1
<1>. HIDE DEF g, o, w
<1>9. ASSUME NEW k \in DOMAIN e, k \notin DOMAIN d
      PROVE k = o \/ k = m \/ k = w \/ k[1] \in {"account", "project", "humancred"}
  BY <1>5, <1>7, <1>9
<1>10. TokensInv(e) /\ ProofsInv(e) /\ InvitesInv(e) /\ PairingsInv(e) /\ NamesInv(e)
  <2>1. PICK X : X = {"company", "master", "workspace"}
    OBVIOUS
  <2>2. X \cap {"token", "grant"} = {} /\ X \cap {"proof", "authority"} = {} /\ X \cap {"invite", "request"} = {} /\
        X \cap {"pairing", "credential", "rotation", "pairrequest"} = {} /\ X \cap {"pairrequest"} = {}
    BY <2>1
  <2>3. Same(d, e, Told \ X)
    BY <1>4, <1>7, <1>9, <2>1 DEF Same, Told
  <2>. QED  BY <2>2, <2>3, OthersStay
<1>11. MastersInv(e)
  <2>1. \A k \in DOMAIN d : k[1] = "master" => d[k].in \in DOMAIN d
    BY DEF Credentials, MastersInv
  <2>2. \A k \in DOMAIN e : k[1] = "master" => k = m \/ k \in DOMAIN d
    BY <1>4, <1>9
  <2>3. e[m].in = o /\ m \in DOMAIN e /\ o \in DOMAIN e
    BY <1>3, <1>7, <1>8
  <2>4. \A k \in DOMAIN e : k[1] = "master" => e[k].in \in DOMAIN e
    BY <1>7, <2>1, <2>2, <2>3
  <2>5. MastersOf(e, o) = {m}
    BY <1>7, <1>8, <2>1, <2>2, <2>3 DEF MastersOf
  <2>6. Counted(e, o)
    <3>1. PICK A : A = {k \in MastersOf(e, o) : e[k].status = "active"}
      OBVIOUS
    <3>2. A \subseteq {m} /\ IsFiniteSet({m}) /\ Cardinality({m}) = 1
      BY <2>5, <3>1, FS_Singleton
    <3>3. IsFiniteSet(A) /\ Cardinality(A) <= 1 /\ Cardinality(A) \in Nat
      BY <3>2, FS_Subset, FS_CardinalityType
    <3>4. Cardinality(A) <= MasterLimit
      BY <3>3, MasterLimitIsNumber
    <3>. QED  BY <2>5, <3>1, <3>2, <3>4 DEF Counted
  <2>7. ASSUME NEW p \in DOMAIN e, p[1] = "company", p /= o
        PROVE  MastersOf(e, p) /= {} /\ Counted(e, p)
    <3>1. p \in DOMAIN d
      BY <1>4, <1>9, <2>7
    <3>2. MastersOf(e, p) = MastersOf(d, p)
      BY <1>7, <2>2, <2>3, <2>7 DEF MastersOf
    <3>3. {k \in MastersOf(e, p) : e[k].status = "active"} = {k \in MastersOf(d, p) : d[k].status = "active"}
      BY <1>7, <3>2 DEF MastersOf
    <3>. QED  BY <2>7, <3>1, <3>2, <3>3 DEF Credentials, MastersInv, Counted
  <2>. QED  BY <2>4, <2>5, <2>6, <2>7 DEF MastersInv
<1>12. ShutInv(e)
  <2>1. \A p \in DOMAIN e : p[1] = "company" /\ IsShut(e[p]) => p \in DOMAIN d /\ IsShut(d[p])
    <3>1. ~IsShut(e[o])
      BY <1>3, <1>7, <1>8 DEF IsShut
    <3>. QED  BY <1>4, <1>7, <1>9, <3>1
  <2>2. ASSUME NEW p \in DOMAIN d, p[1] = "company", NEW k \in DOMAIN e, Opens(e, k, p)
        PROVE  k \in DOMAIN d /\ Opens(d, k, p)
    <3>1. k \in DOMAIN d
      <4>1. p /= o
        BY <1>8
      <4>2. k /= o /\ k[1] \notin {"account", "project", "humancred"}
        BY <1>4, <2>2 DEF Opens
      <4>3. k /= m /\ k /= w
        BY <1>3, <1>4, <1>7, <1>8, <2>2, <4>1 DEF Opens
      <4>. QED  BY <1>9, <4>2, <4>3
    <3>2. e[k] = d[k] /\ \A q \in DOMAIN d : e[q].in = d[q].in
      BY <1>7, <3>1
    <3>. QED  BY <2>2, <3>1, <3>2, OpensSame DEF Credentials
  <2>. QED  BY <2>1, <2>2, ShutStays DEF Credentials
<1>13. Credentials(e)
  BY <1>10, <1>11, <1>12 DEF Credentials
<1>. QED  BY <1>6, <1>13 DEF g

\* A free account is made of what no entry is identified by.
LEMMA create_free_accountCredentials ==
  ASSUME NEW d, NEW U, NEW c, Shaped(d, U), Shaped(d, U \cup {c.n}), c.n \notin U, Credentials(d)
  PROVE  Credentials(create_free_account(d, c))
<1>. DEFINE m == <<"master", c.n>>
            h == <<"humancred", c.n>>
            w == <<"workspace", c.n>>
            g == AccountGraph(c.n, m, h)
<1>1. /\ IsKey(m) /\ m[1] = "master" /\ m[2] = c.n /\ IsKey(h) /\ h[1] = "humancred" /\ h[2] = c.n
      /\ IsKey(w) /\ w[1] = "workspace"
  BY DEF IsKey
<1>2. create_free_account(d, c) = _ensure_default_meeting_rooms(With(d, g), w)
  BY DEF create_free_account
<1>3. DOMAIN g \cap DOMAIN d = {}
  <2>1. DOMAIN g = {<<"account", c.n>>, <<"company", c.n>>, <<"project", c.n>>, w, m, h}
    BY DEF AccountGraph
  <2>2. ASSUME NEW s \in {"account", "company", "project", "workspace", "master", "humancred"},
        <<s, c.n>> \in DOMAIN d
        PROVE  FALSE
    <3>1. Unused(<<s, c.n>>, d[<<s, c.n>>], U \cup {c.n})
      BY <2>2 DEF Shaped, Sits
    <3>. QED  BY <3>1 DEF Unused, Number, Generated
  <2>. QED  BY <2>1, <2>2
<1>4. Credentials(With(d, g))
  BY <1>1, <1>3, AccountCredentials
<1>5. Shaped(With(d, g), U)
  BY <1>1, AccountGraphIs, MakesSelf, MakesWith DEF Makes
<1>. HIDE DEF g, m, h, w
<1>. QED  BY <1>2, <1>4, <1>5, RoomsCredentials

\* A setup makes its account when nothing of it is there.
LEMMA create_bootstrap_accountCredentials ==
  ASSUME NEW d, NEW U, NEW c, Shaped(d, U), Credentials(d), c.of[1] = "setup", c.of[2] \notin U,
         c.body \notin U, Sent(c, U), _create_bootstrap_account_file_locked(d, c) /= Refused
  PROVE  Credentials(_create_bootstrap_account_file_locked(d, c))
<1>. DEFINE x == c.of[2]
            m == <<"master", c.body>>
            h == <<"humancred", c.body>>
            w == <<"workspace", x>>
            g == AccountGraph(x, m, h)
            e == _ensure_default_meeting_rooms(With(d, g), w)
<1>0. PICK y : y = [New("complete", <<"company", x>>) EXCEPT !.by = c.key, !.val = <<c.body>>]
  OBVIOUS
<1>1. /\ IsKey(m) /\ m[1] = "master" /\ m[2] = c.body /\ IsKey(h) /\ h[1] = "humancred"
      /\ h[2] = c.body /\ IsKey(w) /\ w[1] = "workspace"
  BY DEF IsKey
<1>2. /\ _create_bootstrap_account_file_locked(d, c) = Put(e, c.of, y)
      /\ DOMAIN g \cap DOMAIN d = {}
  BY <1>0 DEF _create_bootstrap_account_file_locked
<1>3. x \notin U
  OBVIOUS
<1>. HIDE DEF x, m, h, w
<1>4. Credentials(With(d, g))
  BY <1>1, <1>2, AccountCredentials
<1>5. Makes(d, With(d, g), Free, U)
  BY <1>1, <1>3, AccountGraphIs, MakesSelf, MakesWith
<1>. HIDE DEF g
<1>6. Credentials(e) /\ Shaped(e, U)
  BY <1>1, <1>4, <1>5, RoomsCredentials, MakesRooms DEF Makes
<1>. HIDE DEF e
<1>7. Same(e, Put(e, c.of, y), Told)
  BY SameSelf, SamePut DEF Told
<1>. QED  BY <1>2, <1>6, <1>7, CredentialsStay

\* No company is without a master.
LEMMA bootstrap_company_master_tokenCredentials ==
  ASSUME NEW d, NEW U, NEW c, Shaped(d, U), Credentials(d), c.of[1] = "company"
  PROVE  bootstrap_company_master_token(d, c) = Refused
<1>1. c.of \in DOMAIN d => Within(d, "master", c.of) = MastersOf(d, c.of) /\ MastersOf(d, c.of) /= {}
  BY InsideIs DEF Within, Section, MastersOf, Credentials, MastersInv
<1>. QED  BY <1>1 DEF bootstrap_company_master_token

\* One more master in a company that is active and has fewer than the limit.
LEMMA MasterAdded ==
  ASSUME NEW d, NEW U, Shaped(d, U), Credentials(d), NEW o \in DOMAIN d, o[1] = "company", Live(d, o),
         NEW m, m[1] = "master", MasterAdmitted(d, o, m), NEW x, x.in = o, NEW r, r[1] = "idem", NEW y
  PROVE  Credentials(Put(Put(d, m, x), r, y))
<1>1. PICK e : e = Put(Put(d, m, x), r, y)
  OBVIOUS
<1>2. /\ DOMAIN e = DOMAIN d \cup {m, r} /\ e[m] = x
      /\ \A k \in DOMAIN d : k[1] /= "idem" => e[k] = d[k] /\ k /= m
      /\ m \notin DOMAIN d
  BY <1>1 DEF Put, MasterAdmitted
<1>3. TokensInv(e) /\ ProofsInv(e) /\ InvitesInv(e) /\ PairingsInv(e) /\ NamesInv(e)
  <2>1. PICK X : X = {"master"}
    OBVIOUS
  <2>2. X \cap {"token", "grant"} = {} /\ X \cap {"proof", "authority"} = {} /\ X \cap {"invite", "request"} = {} /\
        X \cap {"pairing", "credential", "rotation", "pairrequest"} = {} /\ X \cap {"pairrequest"} = {}
    BY <2>1
  <2>3. Same(d, e, Told \ X)
    BY <1>2, <2>1 DEF Same, Told
  <2>. QED  BY <2>2, <2>3, OthersStay
<1>4. MastersInv(e)
  <2>1. \A k \in DOMAIN d : k[1] = "master" => d[k].in \in DOMAIN d
    BY DEF Credentials, MastersInv
  <2>2. \A k \in DOMAIN e : k[1] = "master" => k = m \/ (k \in DOMAIN d /\ e[k] = d[k])
    BY <1>2
  <2>3. \A k \in DOMAIN e : k[1] = "master" => e[k].in \in DOMAIN e
    BY <1>2, <2>1, <2>2
  <2>4. ASSUME NEW p \in DOMAIN e, p[1] = "company", p /= o
        PROVE  MastersOf(e, p) /= {} /\ Counted(e, p)
    <3>1. p \in DOMAIN d
      BY <1>2, <2>4
    <3>2. MastersOf(e, p) = MastersOf(d, p)
      BY <1>2, <2>2, <2>4 DEF MastersOf
    <3>3. {k \in MastersOf(e, p) : e[k].status = "active"} = {k \in MastersOf(d, p) : d[k].status = "active"}
      BY <1>2, <3>2 DEF MastersOf
    <3>. QED  BY <2>4, <3>1, <3>2, <3>3 DEF Credentials, MastersInv, Counted
  <2>5. MastersOf(e, o) = MastersOf(d, o) \cup {m}
    BY <1>2, <2>2 DEF MastersOf
  <2>6. PICK A : A = {k \in MastersOf(d, o) : d[k].status = "active"}
    OBVIOUS
  <2>7. PICK B : B = {k \in MastersOf(e, o) : e[k].status = "active"}
    OBVIOUS
  <2>8. MastersOf(d, o) /= {} /\ IsFiniteSet(MastersOf(d, o))
    BY DEF Credentials, MastersInv, Counted
  <2>9. Cardinality(A) < MasterLimit
    <3>1. Within(d, "master", o) = MastersOf(d, o)
      BY InsideIs DEF Within, Section, MastersOf
    <3>. QED  BY <2>6, <3>1 DEF MasterAdmitted
  <2>10. IsFiniteSet(A) /\ B \subseteq A \cup {m} /\ m \notin A
    <3>1. A \subseteq MastersOf(d, o)
      BY <2>6
    <3>2. B \subseteq A \cup {m} /\ m \notin A
      BY <1>2, <2>5, <2>6, <2>7 DEF MastersOf
    <3>. QED  BY <2>8, <3>1, <3>2, FS_Subset
  <2>11. Cardinality(B) <= MasterLimit
    <3>1. IsFiniteSet(A \cup {m}) /\ Cardinality(A \cup {m}) = Cardinality(A) + 1
      BY <2>10, FS_AddElement
    <3>2. Cardinality(B) <= Cardinality(A \cup {m}) /\ IsFiniteSet(B)
      BY <2>10, <3>1, FS_Subset
    <3>3. Cardinality(A) \in Nat /\ Cardinality(B) \in Nat
      BY <2>10, <3>2, FS_CardinalityType
    <3>. QED  BY <2>9, <3>1, <3>2, <3>3, MasterLimitIsNumber
  <2>12. IsFiniteSet(MastersOf(e, o))
    BY <2>5, <2>8, FS_AddElement
  <2>. QED  BY <2>3, <2>4, <2>5, <2>7, <2>11, <2>12 DEF MastersInv, Counted
<1>5. ShutInv(e)
  <2>1. \A p \in DOMAIN e : p[1] = "company" => p \in DOMAIN d /\ e[p] = d[p]
    BY <1>2
  <2>2. ASSUME NEW p \in DOMAIN d, p[1] = "company", IsShut(d[p]), NEW k \in DOMAIN e, Opens(e, k, p)
        PROVE  k \in DOMAIN d /\ Opens(d, k, p)
    <3>1. k[1] /= "idem"
      BY <2>2 DEF Opens
    <3>2. p /= o
      BY <2>2 DEF Live, Status, IsShut
    <3>3. k /= m
      BY <1>2, <2>2, <3>2 DEF Opens
    <3>4. k \in DOMAIN d /\ e[k] = d[k] /\ \A q \in DOMAIN d : q[1] = "grant" => e[q].in = d[q].in
      BY <1>2, <3>1, <3>3
    <3>. QED  BY <2>2, <3>4, OpensSame DEF Credentials
  <2>. QED  BY <2>1, <2>2, ShutStays DEF Credentials
<1>6. Credentials(e)
  BY <1>3, <1>4, <1>5 DEF Credentials
<1>. QED  BY <1>1, <1>6

\* Delegating a master keeps what is told of credentials.
LEMMA delegate_company_master_credentialCredentials ==
  ASSUME NEW d, NEW U, NEW c, Shaped(d, U), Credentials(d), c.of[1] = "master", c.as[1] = "master",
         delegate_company_master_credential(d, c) /= Refused
  PROVE  Credentials(delegate_company_master_credential(d, c))
<1>1. PICK o : o = In(d, c.as)
  OBVIOUS
<1>2. PICK r : r = <<"idem", <<"delegate", c.as, c.key>>>>
  OBVIOUS
<1>3. PICK x : x = [New("active", o) EXCEPT !.by = c.as]
  OBVIOUS
<1>4. PICK y : y = [New("recorded", c.in) EXCEPT !.by = c.of]
  OBVIOUS
<1>5. /\ delegate_company_master_credential(d, c) = Put(Put(d, c.of, x), r, y)
      /\ MasterAccepted(d, c.as) /\ MasterAdmitted(d, o, c.of)
  BY <1>1, <1>2, <1>3, <1>4 DEF delegate_company_master_credential
<1>6. r[1] = "idem" /\ x.in = o
  BY <1>2, <1>3 DEF New
<1>7. c.as \in DOMAIN d /\ o = d[c.as].in /\ Live(d, o) /\ o \in DOMAIN d
  BY <1>1, <1>5 DEF MasterAccepted, Live, Status, In
<1>8. o[1] = "company"
  BY <1>7, LinksAre
<1>. QED  BY <1>5, <1>6, <1>7, <1>8, MasterAdded

\* A master that a top-level agent registers keeps what is told of credentials.
LEMMA register_top_level_agent_company_master_credentialCredentials ==
  ASSUME NEW d, NEW U, NEW c, Shaped(d, U), Credentials(d), c.of[1] = "master", c.as[1] = "token",
         register_top_level_agent_company_master_credential(d, c) /= Refused
  PROVE  Credentials(register_top_level_agent_company_master_credential(d, c))
<1>0. PICK g : g = In(d, c.as)
  OBVIOUS
<1>1. PICK o : o = In(d, g)
  OBVIOUS
<1>2. PICK r : r = <<"idem", <<"register", c.as, c.key>>>>
  OBVIOUS
<1>3. PICK x : x = [New("active", o) EXCEPT !.by = c.as]
  OBVIOUS
<1>4. PICK y : y = [New("recorded", c.in) EXCEPT !.by = c.of]
  OBVIOUS
<1>5. /\ register_top_level_agent_company_master_credential(d, c) = Put(Put(d, c.of, x), r, y)
      /\ Live(d, c.as) /\ Live(d, g) /\ Live(d, o) /\ MasterAdmitted(d, o, c.of)
  BY <1>0, <1>1, <1>2, <1>3, <1>4 DEF register_top_level_agent_company_master_credential
<1>6. r[1] = "idem" /\ x.in = o
  BY <1>2, <1>3 DEF New
<1>7. c.as \in DOMAIN d /\ g = d[c.as].in /\ g \in DOMAIN d /\ o = d[g].in /\ o \in DOMAIN d
  BY <1>0, <1>1, <1>5 DEF Live, Status, In
<1>8. g[1] = "grant" /\ Nobody \notin DOMAIN d
  BY <1>7, LinksAre
<1>9. o[1] = "company"
  BY <1>7, <1>8, LinksAre
<1>. QED  BY <1>5, <1>6, <1>7, <1>9, MasterAdded

---------------------------------------------------------------------------
(* Proofs and authorities. *)

\* What a call makes under its own number in these sections is not there yet.
LEMMA NewIsFresh ==
  ASSUME NEW d, NEW U, NEW n, Shaped(d, U \cup {n}),
         NEW s \in {"proof", "authority", "request", "invite", "pairrequest", "pairing", "credential", "rotation",
                    "identity", "workspace"}
  PROVE  <<s, n>> \notin DOMAIN d
<1>. SUFFICES ASSUME <<s, n>> \in DOMAIN d PROVE FALSE
  OBVIOUS
<1>1. Unused(<<s, n>>, d[<<s, n>>], U \cup {n})
  BY DEF Shaped, Sits
<1>. QED  BY <1>1 DEF Unused, Number, Generated

\* A new proof made no authority.
LEMMA create_company_master_proofCredentials ==
  ASSUME NEW d, NEW U, NEW c, Shaped(d, U), Shaped(d, U \cup {c.n}), Credentials(d)
  PROVE  Credentials(create_company_master_proof(d, c))
<1>1. PICK k : k = <<"proof", c.n>>
  OBVIOUS
<1>2. PICK x : x = [New("issued", In(c.seen[1], c.as)) EXCEPT !.by = c.as]
  OBVIOUS
<1>3. PICK e : e = Put(d, k, x)
  OBVIOUS
<1>4. create_company_master_proof(d, c) = e
  BY <1>1, <1>2, <1>3 DEF create_company_master_proof
<1>5. k[1] = "proof" /\ k \notin DOMAIN d
  BY <1>1, NewIsFresh
<1>6. DOMAIN e = DOMAIN d \cup {k} /\ \A j \in DOMAIN d : e[j] = d[j]
  BY <1>3, <1>5 DEF Put
<1>7. TokensInv(e) /\ MastersInv(e) /\ InvitesInv(e) /\ PairingsInv(e) /\ NamesInv(e) /\ ShutInv(e)
  <2>1. PICK X : X = {"proof"}
    OBVIOUS
  <2>2. X \cap {"token", "grant"} = {} /\ X \cap {"master", "company"} = {} /\ X \cap {"invite", "request"} = {} /\
        X \cap {"pairing", "credential", "rotation", "pairrequest"} = {} /\ X \cap {"pairrequest"} = {} /\
        X \cap {"company", "master", "workspace", "token", "grant", "invite", "pairing"} = {}
    BY <2>1
  <2>3. Same(d, e, Told \ X)
    BY <1>5, <1>6, <2>1 DEF Same, Told
  <2>. QED  BY <2>2, <2>3, OthersStay
<1>8. ProofsInv(e)
  <2>1. Same(d, e, {"authority"})
    BY <1>5, <1>6 DEF Same
  <2>. QED  BY <1>5, <1>6, <2>1, ProofsStay DEF Credentials
<1>. QED  BY <1>4, <1>7, <1>8 DEF Credentials

\* A proof that runs out made no authority.
LEMMA ProofExpiredCredentials ==
  ASSUME NEW d, NEW U, NEW c, Shaped(d, U), Credentials(d), NEW p, p[1] = "proof",
         ProofExpired(d, c, p) /= Refused
  PROVE  Credentials(ProofExpired(d, c, p))
<1>1. PICK e : e = Mark(d, {p}, "expired")
  OBVIOUS
<1>2. ProofExpired(d, c, p) = e /\ d[p].status = "issued" /\ p \in DOMAIN d
  BY <1>1 DEF ProofExpired, Status
<1>3. Entries(d) /\ "expired" \in EntryStatuses
  BY LinksAre, StatusesAre
<1>4. DOMAIN e = DOMAIN d /\ \A k \in DOMAIN d : e[k].in = d[k].in /\ (k /= p => e[k] = d[k])
  BY <1>1, <1>3, Marked
<1>5. TokensInv(e) /\ MastersInv(e) /\ InvitesInv(e) /\ PairingsInv(e) /\ NamesInv(e) /\ ShutInv(e)
  <2>1. PICK X : X = {"proof"}
    OBVIOUS
  <2>2. X \cap {"token", "grant"} = {} /\ X \cap {"master", "company"} = {} /\ X \cap {"invite", "request"} = {} /\
        X \cap {"pairing", "credential", "rotation", "pairrequest"} = {} /\ X \cap {"pairrequest"} = {} /\
        X \cap {"company", "master", "workspace", "token", "grant", "invite", "pairing"} = {}
    BY <2>1
  <2>3. Same(d, e, Told \ X)
    BY <1>4, <2>1 DEF Same, Told
  <2>. QED  BY <2>2, <2>3, OthersStay
<1>6. ProofsInv(e)
  <2>1. Same(d, e, {"authority"})
    BY <1>4 DEF Same
  <2>2. \A k \in DOMAIN d : d[k].status = "consumed" => e[k].status = "consumed"
    BY <1>2, <1>4
  <2>. QED  BY <1>4, <2>1, <2>2, ProofsStay DEF Credentials
<1>. QED  BY <1>2, <1>5, <1>6 DEF Credentials

\* A proof that was issued makes one authority of its company and is consumed.
LEMMA AuthorityMadeCredentials ==
  ASSUME NEW d, NEW U, Shaped(d, U), Credentials(d), NEW e, Entries(e), Same(d, e, Told), NEW c, NEW p,
      p[1] = "proof",
         ProofAccepted(d, c, p), NEW human, NEW role
  PROVE  Credentials(AuthorityMade(e, c, p, human, role))
<1>1. PICK k : k = <<"authority", c.n>>
  OBVIOUS
<1>2. PICK x : x = [New("active", e[p].in) EXCEPT !.by = human, !.to = p, !.val = <<role>>]
  OBVIOUS
<1>3. PICK b : b = Put(e, k, x)
  OBVIOUS
<1>4. PICK f : f = Mark(b, {p}, "consumed")
  OBVIOUS
<1>5. AuthorityMade(e, c, p, human, role) = f
  BY <1>1, <1>2, <1>3, <1>4 DEF AuthorityMade
<1>6. IsEntry(x) /\ x.in = e[p].in /\ x.to = p /\ k[1] = "authority"
  BY <1>1, <1>2, StatusesAre DEF New, IsEntry
<1>7. DOMAIN b = DOMAIN e \cup {k} /\ b[k] = x /\ (\A j \in DOMAIN e : j /= k => b[j] = e[j]) /\ Entries(b)
  <2>1. DOMAIN b = DOMAIN e \cup {k} /\ b[k] = x /\ \A j \in DOMAIN e : j /= k => b[j] = e[j]
    BY <1>3 DEF Put
  <2>. QED  BY <1>6, <2>1 DEF Entries
<1>8. /\ DOMAIN f = DOMAIN b
      /\ \A j \in DOMAIN b : f[j].in = b[j].in /\ f[j].to = b[j].to /\ (j /= p => f[j] = b[j])
      /\ \A j \in DOMAIN b : j = p => f[j].status = "consumed"
  <2>1. "consumed" \in EntryStatuses
    BY StatusesAre
  <2>. QED  BY <1>4, <1>7, <2>1, Marked
<1>9. p \in DOMAIN d /\ d[p].status = "issued" /\ p \in DOMAIN e /\ e[p] = d[p] /\ p /= k
  <2>1. p \in DOMAIN d /\ d[p].status = "issued"
    BY DEF ProofAccepted, Status
  <2>. QED  BY <1>6, <2>1 DEF Same, Told
<1>10. \A j : j[1] \in Told /\ j[1] \notin {"authority", "proof"} =>
              (j \in DOMAIN d <=> j \in DOMAIN f) /\ (j \in DOMAIN d => f[j] = d[j])
  BY <1>6, <1>7, <1>8 DEF Same
<1>11. TokensInv(f) /\ MastersInv(f) /\ InvitesInv(f) /\ PairingsInv(f) /\ NamesInv(f) /\ ShutInv(f)
  <2>1. PICK X : X = {"proof", "authority"}
    OBVIOUS
  <2>2. X \cap {"token", "grant"} = {} /\ X \cap {"master", "company"} = {} /\ X \cap {"invite", "request"} = {} /\
        X \cap {"pairing", "credential", "rotation", "pairrequest"} = {} /\ X \cap {"pairrequest"} = {} /\
        X \cap {"company", "master", "workspace", "token", "grant", "invite", "pairing"} = {}
    BY <2>1
  <2>3. Same(d, f, Told \ X)
    BY <1>10, <2>1 DEF Same, Told
  <2>. QED  BY <2>2, <2>3, OthersStay
<1>12. ASSUME NEW j \in DOMAIN d, j[1] = "proof"
       PROVE  j \in DOMAIN f /\ f[j].in = d[j].in /\ (d[j].status = "consumed" => f[j].status = "consumed")
  <2>1. j \in DOMAIN e /\ e[j] = d[j] /\ j /= k
    BY <1>6, <1>12 DEF Same, Told
  <2>. QED  BY <1>7, <1>8, <2>1
<1>13. ASSUME NEW a \in DOMAIN f, a[1] = "authority", a /= k
       PROVE  a \in DOMAIN d /\ f[a] = d[a]
  <2>1. a \in DOMAIN e /\ a /= p
    BY <1>7, <1>8, <1>13
  <2>2. a \in DOMAIN d /\ e[a] = d[a]
    BY <1>13, <2>1 DEF Same, Told
  <2>. QED  BY <1>7, <1>8, <1>13, <2>1, <2>2
<1>14. ASSUME NEW a \in DOMAIN d, a[1] = "authority"
       PROVE  d[a].to \in DOMAIN d /\ d[a].to[1] = "proof" /\ d[d[a].to].in = d[a].in
              /\ d[d[a].to].status = "consumed" /\ d[a].to /= p
  BY <1>9, <1>14 DEF Credentials, ProofsInv
<1>15. f[k].to = p /\ f[k].in = d[p].in /\ k \in DOMAIN f /\ p \in DOMAIN f /\ f[p].in = d[p].in /\
      f[p].status = "consumed"
  BY <1>6, <1>7, <1>8, <1>9
<1>16. \A a \in DOMAIN f : a[1] = "authority" =>
          /\ f[a].to \in DOMAIN f /\ f[a].to[1] = "proof"
          /\ f[f[a].to].in = f[a].in /\ f[f[a].to].status = "consumed"
  BY <1>12, <1>13, <1>14, <1>15
<1>17. \A a, q \in DOMAIN f : a[1] = "authority" /\ q[1] = "authority" /\ f[a].to = f[q].to => a = q
  BY <1>13, <1>14, <1>15 DEF Credentials, ProofsInv
<1>18. ProofsInv(f)
  BY <1>16, <1>17 DEF ProofsInv
<1>. QED  BY <1>5, <1>11, <1>18 DEF Credentials

\* An account is made with an authority.
LEMMA AccountMadeCredentials ==
  ASSUME NEW d, NEW U, NEW c, Shaped(d, U), Sent(c, U), Credentials(d), c.as[1] = "proof", ProofAccepted(d, c, c.as)
  PROVE  /\ Credentials(AuthorityMade(AccountMade(d, c), c, c.as, <<"human", c.n>>, "owner"))
         /\ Shaped(AuthorityMade(AccountMade(d, c), c, c.as, <<"human", c.n>>, "owner"), U)
<1>1. PICK x : x = [New("active", Nobody) EXCEPT !.val = <<c.how>>]
  OBVIOUS
<1>2. PICK k : k = <<"human", c.n>>
  OBVIOUS
<1>3. PICK e : e = AccountMade(d, c)
  OBVIOUS
<1>4. e = Put(d, k, x)
  BY <1>1, <1>2, <1>3 DEF AccountMade
<1>5. IsEntry(x) /\ x.in = Nobody /\ k[1] = "human" /\ k[2] = c.n /\ IsKey(k)
  BY <1>1, <1>2, StatusesAre DEF New, IsEntry, IsKey
<1>6. Makes(d, e, Free, U)
  <2>1. Sits(k, x, U) /\ k[1] \in Free
    BY <1>5, SitsIs, LevelIs DEF Lies, Number, Sent, Free
  <2>. QED  BY <1>4, <1>5, <2>1, MakesSelf, MakesPut
<1>7. Same(d, e, Told)
  BY <1>4, <1>5, SameSelf, SamePut DEF Told
<1>8. Entries(e)
  BY <1>6, LinksAre DEF Makes
<1>9. c.as \in DOMAIN e
  BY <1>4 DEF Put, ProofAccepted, Status
<1>10. Makes(d, AuthorityMade(e, c, c.as, k, "owner"), Free, U)
  BY <1>6, <1>9, AuthorityMadeMakes
<1>11. Credentials(AuthorityMade(e, c, c.as, k, "owner"))
  BY <1>7, <1>8, AuthorityMadeCredentials
<1>. QED  BY <1>2, <1>3, <1>10, <1>11 DEF Makes

\* An account made with a proof keeps what is told of credentials.
LEMMA create_human_accountCredentials ==
  ASSUME NEW d, NEW U, NEW c, Shaped(d, U), Sent(c, U), Credentials(d), c.as[1] = "proof",
         create_human_account(d, c) /= Refused
  PROVE  Credentials(create_human_account(d, c))
<1>1. CASE ProofAccepted(d, c, c.as) /\ ~UsernameTaken(d, c.how)
  BY <1>1, AccountMadeCredentials DEF create_human_account
<1>2. CASE ~(ProofAccepted(d, c, c.as) /\ ~UsernameTaken(d, c.how))
  BY <1>2, ProofExpiredCredentials DEF create_human_account
<1>. QED  BY <1>1, <1>2

\* An account made with a proof, and its session, keeps what is told of credentials.
LEMMA create_human_account_with_sessionCredentials ==
  ASSUME NEW d, NEW U, NEW c, Shaped(d, U), Sent(c, U), Credentials(d), c.as[1] = "proof",
         create_human_account_with_session(d, c) /= Refused
  PROVE  Credentials(create_human_account_with_session(d, c))
<1>1. CASE ProofAccepted(d, c, c.as) /\ ~UsernameTaken(d, c.how)
  <2>1. PICK e : e = create_human_account(d, c)
    OBVIOUS
  <2>2. PICK k : k = <<"session", c.n>>
    OBVIOUS
  <2>3. PICK x : x = SessionOf(<<"human", c.n>>)
    OBVIOUS
  <2>4. create_human_account_with_session(d, c) = Put(e, k, x)
    BY <1>1, <2>1, <2>2, <2>3 DEF create_human_account_with_session
  <2>5. k[1] = "session" /\ k[1] \notin Told
    BY <2>2 DEF Told
  <2>6. Credentials(e) /\ Shaped(e, U)
    BY <1>1, <2>1, AccountMadeCredentials DEF create_human_account
  <2>7. Same(e, Put(e, k, x), Told)
    BY <2>5, SameSelf, SamePut
  <2>. QED  BY <2>4, <2>6, <2>7, CredentialsStay
<1>2. CASE ~(ProofAccepted(d, c, c.as) /\ ~UsernameTaken(d, c.how))
  <2>1. create_human_account_with_session(d, c) = create_human_account(d, c)
    BY <1>2 DEF create_human_account_with_session
  <2>. QED  BY <2>1, create_human_accountCredentials
<1>. QED  BY <1>1, <1>2

\* Linking an account to a company with a proof keeps what is told of credentials.
LEMMA prove_and_link_company_masterCredentials ==
  ASSUME NEW d, NEW U, NEW c, Shaped(d, U), Credentials(d), c.of[1] = "proof",
         prove_and_link_company_master(d, c) /= Refused
  PROVE  Credentials(prove_and_link_company_master(d, c))
<1>1. CASE prove_and_link_company_master(d, c) = ProofExpired(d, c, c.of)
  BY <1>1, ProofExpiredCredentials
<1>2. CASE /\ ProofAccepted(d, c, c.of)
           /\ \E human : prove_and_link_company_master(d, c) = AuthorityMade(d, c, c.of, human, c.how)
  <2>1. Entries(d) /\ Same(d, d, Told)
    BY LinksAre, SameSelf
  <2>. QED  BY <1>2, <2>1, AuthorityMadeCredentials
<1>. QED  BY <1>1, <1>2 DEF prove_and_link_company_master

---------------------------------------------------------------------------
(* Requests for access and invites. *)

\* A request that was not approved may be put or marked.
LEMMA RequestChanged ==
  ASSUME NEW d, NEW U, Shaped(d, U), Credentials(d), NEW r, r[1] = "request",
         r \in DOMAIN d => d[r].status /= "approved",
         NEW e, r \in DOMAIN e, \A k : k[1] \in Told /\ k /= r =>
             (k \in DOMAIN d <=> k \in DOMAIN e) /\ (k \in DOMAIN d => e[k] = d[k])
  PROVE  Credentials(e)
<1>1. TokensInv(e) /\ MastersInv(e) /\ ProofsInv(e) /\ PairingsInv(e) /\ NamesInv(e) /\ ShutInv(e)
  <2>1. PICK X : X = {"request"}
    OBVIOUS
  <2>2. X \cap {"token", "grant"} = {} /\ X \cap {"master", "company"} = {} /\ X \cap {"proof", "authority"} = {} /\
        X \cap {"pairing", "credential", "rotation", "pairrequest"} = {} /\ X \cap {"pairrequest"} = {} /\
        X \cap {"company", "master", "workspace", "token", "grant", "invite", "pairing"} = {}
    BY <2>1
  <2>3. Same(d, e, Told \ X)
    BY <2>1 DEF Same, Told
  <2>. QED  BY <2>2, <2>3, OthersStay
<1>2. InvitesInv(e)
  <2>1. \A i \in DOMAIN e : i[1] = "invite" => i \in DOMAIN d /\ e[i] = d[i]
    BY DEF Told
  <2>2. \A q \in DOMAIN d : q[1] = "request" /\ d[q].status = "approved" => q \in DOMAIN e /\ e[q] = d[q]
    BY DEF Told
  <2>. QED  BY <2>1, <2>2, InvitesStay DEF Credentials
<1>3. ShutInv(e)
  <2>1. Same(d, e, {"company", "master", "workspace", "token", "grant", "invite", "pairing"})
    BY DEF Same, Told
  <2>. QED  BY <2>1, ShutSame DEF Credentials
<1>. QED  BY <1>1, <1>2, <1>3 DEF Credentials

\* A new access request keeps what is told of credentials.
LEMMA request_agent_accessCredentials ==
  ASSUME NEW d, NEW U, NEW c, Shaped(d, U), Shaped(d, U \cup {c.n}), Credentials(d),
         request_agent_access(d, c) /= Refused
  PROVE  Credentials(request_agent_access(d, c))
<1>1. PICK k : k = <<"request", c.n>>
  OBVIOUS
<1>2. PICK x : x = [New("pending", c.in) EXCEPT !.to = c.to, !.val = <<c.how, c.of>>]
  OBVIOUS
<1>3. PICK e : e = Put(d, k, x)
  OBVIOUS
<1>4. request_agent_access(d, c) = e
  BY <1>1, <1>2, <1>3 DEF request_agent_access
<1>5. k[1] = "request" /\ k \notin DOMAIN d
  BY <1>1, NewIsFresh
<1>6. DOMAIN e = DOMAIN d \cup {k} /\ \A j \in DOMAIN d : e[j] = d[j]
  BY <1>3, <1>5 DEF Put
<1>. QED  BY <1>4, <1>5, <1>6, RequestChanged

\* The decision on an access request, which may name a new identity, keeps what is told of credentials.
LEMMA decide_agent_access_requestCredentials ==
  ASSUME NEW d, NEW U, NEW c, Shaped(d, U), Credentials(d), c.of[1] = "request",
         decide_agent_access_request(d, c) /= Refused
  PROVE  Credentials(decide_agent_access_request(d, c))
<1>1. PICK e : e = IF Named(d, OfMaster(c), d[c.of].val[1]) /= {} THEN d
                   ELSE Put(d, <<"identity", c.n>>, [New("active", OfMaster(c)) EXCEPT !.val = <<d[c.of].val[1]>>])
  OBVIOUS
<1>2. /\ decide_agent_access_request(d, c) \in {Mark(d, {c.of}, "denied"), Mark(e, {c.of}, "approved")}
      /\ Status(d, c.of) = "pending"
  BY <1>1 DEF decide_agent_access_request
<1>3. PICK f : f = decide_agent_access_request(d, c)
  OBVIOUS
<1>4. c.of \in DOMAIN d /\ d[c.of].status = "pending"
  BY <1>2 DEF Status
<1>5. \A k : k[1] /= "identity" => (k \in DOMAIN d <=> k \in DOMAIN e) /\ (k \in DOMAIN d => e[k] = d[k])
  <2>1. CASE e = d
    BY <2>1
  <2>2. CASE e = Put(d, <<"identity", c.n>>, [New("active", OfMaster(c)) EXCEPT !.val = <<d[c.of].val[1]>>])
    <3>1. PICK j : j = <<"identity", c.n>>
      OBVIOUS
    <3>2. PICK x : x = [New("active", OfMaster(c)) EXCEPT !.val = <<d[c.of].val[1]>>]
      OBVIOUS
    <3>3. e = Put(d, j, x) /\ j[1] = "identity"
      BY <2>2, <3>1, <3>2
    <3>. QED  BY <3>3 DEF Put
  <2>. QED  BY <1>1, <2>1, <2>2
<1>6. \A k : k[1] /= "identity" /\ k /= c.of =>
      (k \in DOMAIN d <=> k \in DOMAIN f) /\ (k \in DOMAIN d => f[k] = d[k])
  BY <1>2, <1>3, <1>5 DEF Mark
<1>7. c.of \in DOMAIN f
  BY <1>2, <1>3, <1>4, <1>5 DEF Mark
<1>8. "identity" \notin Told
  BY DEF Told
<1>. QED  BY <1>3, <1>4, <1>6, <1>7, <1>8, RequestChanged

\* Denying an access request keeps what is told of credentials.
LEMMA deny_agent_access_requestCredentials ==
  ASSUME NEW d, NEW U, NEW c, Shaped(d, U), Credentials(d), c.of[1] = "request",
         deny_agent_access_request(d, c) /= Refused
  PROVE  Credentials(deny_agent_access_request(d, c))
<1>1. PICK f : f = Mark(d, {c.of}, "denied")
  OBVIOUS
<1>2. deny_agent_access_request(d, c) = f /\ c.of \in DOMAIN d /\ d[c.of].status = "pending"
  BY <1>1 DEF deny_agent_access_request, Status
<1>3. DOMAIN f = DOMAIN d /\ \A k \in DOMAIN d : k /= c.of => f[k] = d[k]
  BY <1>1 DEF Mark
<1>. QED  BY <1>2, <1>3, RequestChanged

\* An invite replaces the one that its request named, and starts in a company that has an
\* active workspace.
LEMMA issue_agent_inviteCredentials ==
  ASSUME NEW d, NEW U, NEW c, Shaped(d, U), Shaped(d, U \cup {c.n}), Credentials(d), c.of[1] = "request",
         issue_agent_invite(d, c) /= Refused
  PROVE  Credentials(issue_agent_invite(d, c))
<1>. DEFINE o0 == OfMaster(c)
            scope0 == d[c.of].val[2]
            w0 == EntryWorkspace(d, o0, scope0)
            x0 == [New("issued", o0) EXCEPT !.to = c.of, !.val = <<Room(w0, scope0)>>]
<1>1. PICK a : a = _select_agent_invite_onboarding_data(d, o0, scope0)
  OBVIOUS
<1>2. PICK prior : prior = d[c.of].by
  OBVIOUS
<1>3. PICK k : k = <<"invite", c.n>>
  OBVIOUS
<1>4. PICK x : x = x0
  OBVIOUS
<1>5. PICK b : b = Drop(a, {prior})
  OBVIOUS
<1>6. PICK g : g = Put(b, k, x)
  OBVIOUS
<1>7. PICK e : e = [g EXCEPT ![c.of].by = k]
  OBVIOUS
<1>8. /\ issue_agent_invite(d, c) = e /\ a /= Refused
      /\ Status(d, c.of) = "approved" /\ d[c.of].in = o0
  BY <1>1, <1>2, <1>3, <1>4, <1>5, <1>6, <1>7 DEF issue_agent_invite
<1>9. PICK o : o = o0
  OBVIOUS
<1>10. PICK w : w = w0
  OBVIOUS
<1>11. w \in DOMAIN d /\ w[1] = "workspace" /\ d[w].status = "active" /\ d[w].in = o
  <2>0. Cardinality(Entry(d, o0, scope0)) = 1
    BY <1>1, <1>8 DEF _select_agent_invite_onboarding_data
  <2>1. PICK E : E = Entry(d, o0, scope0)
    OBVIOUS
  <2>2. E /= {}
    <3>1. Cardinality({}) = 0
      BY FS_EmptySet
    <3>2. E = {} => Cardinality(E) = 0
      BY <3>1
    <3>3. Cardinality(E) = 1
      BY <2>0, <2>1
    <3>. QED  BY <3>2, <3>3
  <2>3. w \in E
    BY <1>10, <2>1, <2>2 DEF EntryWorkspace
  <2>. QED  BY <1>9, <2>1, <2>3 DEF Entry, Section, Live, Status
<1>12. a = _ensure_default_meeting_rooms(d, w)
  BY <1>1, <1>8, <1>10 DEF _select_agent_invite_onboarding_data
<1>13. \A j : j[1] /= "room" => (j \in DOMAIN d <=> j \in DOMAIN a) /\ (j \in DOMAIN d => a[j] = d[j])
  BY <1>12 DEF _ensure_default_meeting_rooms, With, Room
<1>14. x.in = o /\ x.to = c.of /\ x.status = "issued" /\ k[1] = "invite" /\ k \notin DOMAIN d
  BY <1>3, <1>4, <1>9, NewIsFresh DEF New
<1>15. prior = Nobody \/ prior[1] = "invite"
  BY <1>2, <1>8, AgentsFree DEF Ref, Status
<1>. HIDE DEF o0, scope0, w0, x0
<1>16. c.of \in DOMAIN d /\ d[c.of].status = "approved" /\ d[c.of].in = o
  BY <1>8, <1>9 DEF Status
<1>17. Nobody \notin DOMAIN d /\ Nobody[1] = "nobody"
  BY LinksAre, NobodyIsNoKey
<1>18. \A j : j[1] \in Told => (j \in DOMAIN b <=> j \in DOMAIN d /\ j /= prior) /\ (j \in DOMAIN b => b[j] = d[j])
  <2>1. DOMAIN b = DOMAIN a \ {prior} /\ \A j \in DOMAIN b : b[j] = a[j]
    BY <1>5 DEF Drop
  <2>2. \A j : j[1] \in Told => j[1] /= "room"
    BY DEF Told
  <2>. QED  BY <1>13, <2>1, <2>2
<1>19. DOMAIN g = DOMAIN b \cup {k} /\ g[k] = x /\ \A j \in DOMAIN b : j /= k => g[j] = b[j]
  BY <1>6 DEF Put
<1>20. c.of \in DOMAIN g /\ g[c.of] = d[c.of] /\ c.of /= k /\ c.of /= prior
  <2>1. c.of /= k /\ c.of /= prior
    BY <1>14, <1>15, <1>16, <1>17
  <2>2. c.of \in DOMAIN b /\ b[c.of] = d[c.of]
    BY <1>16, <1>18, <2>1 DEF Told
  <2>. QED  BY <1>19, <2>1, <2>2
<1>21. /\ DOMAIN e = DOMAIN g /\ \A j \in DOMAIN g : j /= c.of => e[j] = g[j]
  BY <1>7
<1>22. e[c.of].in = o /\ e[c.of].by = k /\ e[c.of].status = "approved"
  <2>1. PICK z : z = g[c.of]
    OBVIOUS
  <2>2. e[c.of] = [z EXCEPT !.by = k]
    BY <1>7, <1>20, <2>1
  <2>3. IsEntry(z) /\ z.in = o /\ z.status = "approved"
    BY <1>16, <1>20, <2>1, LinksAre DEF Entries
  <2>4. [z EXCEPT !.by = k] = [status |-> z.status, in |-> z.in, by |-> k, to |-> z.to, rev |-> z.rev,
        val |-> z.val]
    BY <2>3 DEF IsEntry
  <2>. QED  BY <2>2, <2>3, <2>4
<1>23. \A j : j[1] \in Told /\ j[1] \notin {"invite", "request"} =>
              (j \in DOMAIN d <=> j \in DOMAIN e) /\ (j \in DOMAIN d => e[j] = d[j])
  BY <1>14, <1>15, <1>16, <1>17, <1>18, <1>19, <1>21
<1>24. TokensInv(e) /\ MastersInv(e) /\ ProofsInv(e) /\ PairingsInv(e) /\ NamesInv(e)
  <2>1. PICK X : X = {"invite", "request"}
    OBVIOUS
  <2>2. X \cap {"token", "grant"} = {} /\ X \cap {"master", "company"} = {} /\ X \cap {"proof", "authority"} = {} /\
        X \cap {"pairing", "credential", "rotation", "pairrequest"} = {} /\ X \cap {"pairrequest"} = {}
    BY <2>1
  <2>3. Same(d, e, Told \ X)
    BY <1>23, <2>1 DEF Same, Told
  <2>. QED  BY <2>2, <2>3, OthersStay
<1>25. ASSUME NEW i \in DOMAIN e, i[1] = "invite", i /= k
       PROVE  i \in DOMAIN d /\ i /= prior /\ e[i] = d[i]
  <2>1. i \in DOMAIN b /\ i /= c.of
    BY <1>16, <1>19, <1>21, <1>25
  <2>. QED  BY <1>18, <1>19, <1>21, <1>25, <2>1 DEF Told
<1>26. ASSUME NEW r \in DOMAIN d, r[1] = "request", r /= c.of PROVE r \in DOMAIN e /\ e[r] = d[r]
  <2>1. r /= prior /\ r /= k
    BY <1>14, <1>15, <1>17, <1>26
  <2>2. r \in DOMAIN b /\ b[r] = d[r]
    BY <1>18, <1>26, <2>1 DEF Told
  <2>. QED  BY <1>19, <1>21, <1>26, <2>1, <2>2
<1>27. k \in DOMAIN e /\ e[k] = x
  BY <1>19, <1>20, <1>21
<1>28. InvitesInv(e)
  <2>1. ASSUME NEW i \in DOMAIN e, i[1] = "invite", i /= k
        PROVE  /\ e[i].to \in DOMAIN e /\ e[e[i].to].in = e[i].in
               /\ e[e[i].to].by = i /\ e[e[i].to].status = "approved"
    <3>1. i \in DOMAIN d /\ i /= prior /\ e[i] = d[i]
      BY <1>25, <2>1
    <3>2. PICK r : r = d[i].to
      OBVIOUS
    <3>3. r \in DOMAIN d /\ d[r].in = d[i].in /\ d[r].by = i /\ d[r].status = "approved"
      BY <2>1, <3>1, <3>2 DEF Credentials, InvitesInv
    <3>4. r[1] = "request" /\ r /= c.of
      BY <1>2, <1>17, <2>1, <3>1, <3>2, <3>3, LinksAre
    <3>5. r \in DOMAIN e /\ e[r] = d[r]
      BY <1>26, <3>3, <3>4
    <3>. QED  BY <3>1, <3>2, <3>3, <3>5
  <2>2. /\ e[k].to \in DOMAIN e /\ e[e[k].to].in = e[k].in
        /\ e[e[k].to].by = k /\ e[e[k].to].status = "approved"
    BY <1>14, <1>20, <1>21, <1>22, <1>27
  <2>. QED  BY <2>1, <2>2 DEF InvitesInv
<1>29. ShutInv(e)
  <2>1. \A p \in DOMAIN e : p[1] = "company" => p \in DOMAIN d /\ e[p] = d[p]
    BY <1>23 DEF Told
  <2>2. ASSUME NEW p \in DOMAIN d, p[1] = "company", IsShut(d[p]), NEW j \in DOMAIN e, Opens(e, j, p)
        PROVE  j \in DOMAIN d /\ Opens(d, j, p)
    <3>1. p /= o
      BY <1>11, <2>2 DEF Credentials, ShutInv, Opens
    <3>2. j /= k
      BY <1>14, <1>27, <2>2, <3>1 DEF Opens
    <3>3. j \in DOMAIN d /\ e[j] = d[j]
      <4>1. j[1] \in {"master", "workspace", "pairing", "invite", "token"}
        BY <2>2 DEF Opens
      <4>. QED  BY <1>23, <1>25, <2>2, <3>2, <4>1 DEF Told
    <3>4. \A q \in DOMAIN d : q[1] = "grant" => e[q].in = d[q].in
      BY <1>23 DEF Told
    <3>. QED  BY <2>2, <3>3, <3>4, OpensSame DEF Credentials
  <2>. QED  BY <2>1, <2>2, ShutStays DEF Credentials
<1>. QED  BY <1>8, <1>24, <1>28, <1>29 DEF Credentials

\* Revoking an invite keeps what is told of credentials.
LEMMA revoke_agent_inviteCredentials ==
  ASSUME NEW d, NEW U, NEW c, Shaped(d, U), Credentials(d), c.of[1] = "invite",
         revoke_agent_invite(d, c) /= Refused
  PROVE  Credentials(revoke_agent_invite(d, c))
<1>1. PICK e : e = Mark(d, {c.of}, "revoked")
  OBVIOUS
<1>2. revoke_agent_invite(d, c) = e
  BY <1>1 DEF revoke_agent_invite
<1>3. DOMAIN e = DOMAIN d /\ \A k \in DOMAIN d : e[k].in = d[k].in /\ e[k].to = d[k].to /\
      (k /= c.of => e[k] = d[k])
      /\ (k = c.of => e[k].status = "revoked")
  <2>1. Entries(d) /\ "revoked" \in EntryStatuses
    BY LinksAre, StatusesAre
  <2>. QED  BY <1>1, <2>1, Marked
<1>4. TokensInv(e) /\ MastersInv(e) /\ ProofsInv(e) /\ PairingsInv(e) /\ NamesInv(e)
  <2>1. PICK X : X = {"invite"}
    OBVIOUS
  <2>2. X \cap {"token", "grant"} = {} /\ X \cap {"master", "company"} = {} /\ X \cap {"proof", "authority"} = {} /\
        X \cap {"pairing", "credential", "rotation", "pairrequest"} = {} /\ X \cap {"pairrequest"} = {}
    BY <2>1
  <2>3. Same(d, e, Told \ X)
    BY <1>3, <2>1 DEF Same, Told
  <2>. QED  BY <2>2, <2>3, OthersStay
<1>5. InvitesInv(e)
  <2>1. \A r \in DOMAIN d : r[1] = "request" => r \in DOMAIN e /\ e[r] = d[r]
    BY <1>3
  <2>. QED  BY <1>3, <2>1, InvitesStay DEF Credentials
<1>6. ShutInv(e)
  <2>1. \A p \in DOMAIN e : p[1] = "company" => p \in DOMAIN d /\ e[p] = d[p]
    BY <1>3
  <2>2. ASSUME NEW p \in DOMAIN d, p[1] = "company", IsShut(d[p]), NEW j \in DOMAIN e, Opens(e, j, p)
        PROVE  j \in DOMAIN d /\ Opens(d, j, p)
    <3>1. j /= c.of
      BY <1>3, <2>2 DEF Opens
    <3>2. j \in DOMAIN d /\ e[j] = d[j] /\ \A q \in DOMAIN d : q[1] = "grant" => e[q].in = d[q].in
      BY <1>3, <3>1
    <3>. QED  BY <2>2, <3>2, OpensSame DEF Credentials
  <2>. QED  BY <2>1, <2>2, ShutStays DEF Credentials
<1>. QED  BY <1>2, <1>4, <1>5, <1>6 DEF Credentials

---------------------------------------------------------------------------
(* Pairing requests. *)

\* The sections that connectors change.
Paired == {"pairing", "credential", "rotation", "pairrequest", "workspace"}

\* A call that changes these leaves the others as they are; what it opens lies in no company
\* that is shut.
LEMMA ConnectorsChanged ==
  ASSUME NEW d, NEW U, Shaped(d, U), Credentials(d), NEW e, PairingsInv(e), NamesInv(e),
         \A k : k[1] \in Told /\ k[1] \notin Paired =>
             (k \in DOMAIN d <=> k \in DOMAIN e) /\ (k \in DOMAIN d => e[k] = d[k]),
         \A k \in DOMAIN e : k[1] \in {"pairing", "workspace"} /\ e[k].status = "active" =>
            \/ k \in DOMAIN d /\ d[k].status = "active" /\ d[k].in = e[k].in
            \/ \A o \in DOMAIN d : o[1] = "company" /\ IsShut(d[o]) => e[k].in /= o
  PROVE  Credentials(e)
<1>1. TokensInv(e) /\ MastersInv(e) /\ ProofsInv(e) /\ InvitesInv(e)
  <2>1. PICK X : X = {"pairing", "credential", "rotation", "pairrequest", "workspace"}
    OBVIOUS
  <2>2. X \cap {"token", "grant"} = {} /\ X \cap {"master", "company"} = {} /\ X \cap {"proof", "authority"} = {} /\
        X \cap {"invite", "request"} = {}
    BY <2>1
  <2>3. Same(d, e, Told \ X)
    BY <2>1 DEF Same, Told, Paired
  <2>. QED  BY <2>2, <2>3, OthersStay
<1>2. ShutInv(e)
  <2>1. \A p \in DOMAIN e : p[1] = "company" => p \in DOMAIN d /\ e[p] = d[p]
    BY DEF Told, Paired
  <2>2. ASSUME NEW p \in DOMAIN d, p[1] = "company", IsShut(d[p]), NEW j \in DOMAIN e, Opens(e, j, p)
        PROVE  j \in DOMAIN d /\ Opens(d, j, p)
    <3>1. CASE j[1] \in {"pairing", "workspace"}
      <4>1. e[j].status = "active" /\ e[j].in = p
        BY <2>2, <3>1 DEF Opens
      <4>2. j \in DOMAIN d /\ d[j].status = "active" /\ d[j].in = p
        BY <2>2, <3>1, <4>1
      <4>. QED  BY <3>1, <4>2 DEF Opens
    <3>2. CASE j[1] \notin {"pairing", "workspace"}
      <4>1. j[1] \in {"master", "invite", "token"}
        BY <2>2, <3>2 DEF Opens
      <4>2. j \in DOMAIN d /\ e[j] = d[j] /\ \A q \in DOMAIN d : q[1] = "grant" => e[q].in = d[q].in
        BY <4>1 DEF Told, Paired
      <4>. QED  BY <2>2, <4>2, OpensSame DEF Credentials
    <3>. QED  BY <3>1, <3>2
  <2>. QED  BY <2>1, <2>2, ShutStays DEF Credentials
<1>. QED  BY <1>1, <1>2 DEF Credentials

\* A request that made a pairing.
Spent == {"exchanged", "active", "canceled"}

\* A request that made no pairing may be put or changed when it takes no name from another.
LEMMA PairRequestChanged ==
  ASSUME NEW d, NEW U, Shaped(d, U), Credentials(d), NEW r, r[1] = "pairrequest",
         r \in DOMAIN d => d[r].status \notin Spent,
         NEW e, r \in DOMAIN e, NamesInv(e),
         \A k : k[1] \in Told /\ k /= r => (k \in DOMAIN d <=> k \in DOMAIN e) /\ (k \in DOMAIN d => e[k] = d[k])
  PROVE  Credentials(e)
<1>1. \A k : k[1] \in {"credential", "pairing", "rotation", "workspace"} =>
             (k \in DOMAIN d <=> k \in DOMAIN e) /\ (k \in DOMAIN d => e[k] = d[k])
  BY DEF Told
<1>2. PairingsInv(d)
  BY DEF Credentials
<1>3. PairingsInv(e)
  <2>1. \A q \in DOMAIN d : q[1] = "pairrequest" /\ d[q].status \in {"exchanged", "active", "canceled"} =>
            q \in DOMAIN e /\ e[q] = d[q]
    BY DEF Told, Spent
  <2>2. ASSUME NEW k \in DOMAIN d, k[1] = "credential", e[k].status = "active"
        PROVE  e[d[k].in].status = "active" /\ d[d[k].in].by = k
    <3>1. d[k].in \in DOMAIN d /\ d[k].in[1] = "pairing"
      BY <1>2, <2>2, LinksAre DEF PairingsInv
    <3>. QED  BY <1>1, <1>2, <2>2, <3>1 DEF PairingsInv
  <2>3. ASSUME NEW p \in DOMAIN d, p[1] = "pairing"
        PROVE  /\ e[p].status = "active" => e[d[p].by].status = "active"
               /\ e[p].status = "pending_activation" =>
                     d[p].status = "pending_activation" /\ e[d[p].to].status = d[d[p].to].status
    <3>1. /\ d[p].by \in DOMAIN d /\ d[p].to \in DOMAIN d /\
             d[d[p].to].status \in {"exchanged", "active", "canceled"}
          /\ d[p].status = "active" => d[d[p].by].status = "active"
      BY <1>2, <2>3 DEF PairingsInv
    <3>2. d[p].by[1] = "credential" /\ d[p].to[1] = "pairrequest"
      BY <2>3, <3>1, LinksAre
    <3>. QED  BY <1>1, <2>1, <2>3, <3>1, <3>2
  <2>. QED  BY <1>1, <1>2, <2>1, <2>2, <2>3, PairingsMarked
<1>4. \A k : k[1] \in Told /\ k[1] \notin Paired =>
      (k \in DOMAIN d <=> k \in DOMAIN e) /\ (k \in DOMAIN d => e[k] = d[k])
  BY DEF Paired
<1>. QED  BY <1>1, <1>3, <1>4, ConnectorsChanged

\* A request that was not spent is marked: when it claims its name after, it did before.
LEMMA PairRequestMarked ==
  ASSUME NEW d, NEW U, Shaped(d, U), Credentials(d), NEW r \in DOMAIN d, r[1] = "pairrequest",
         d[r].status \notin Spent, NEW s \in EntryStatuses,
         s \in {"expired", "authorization_code_expired", "canceled"} \/ d[r].status \in Unclaimed
  PROVE  Credentials(Mark(d, {r}, s))
<1>1. PICK e : e = Mark(d, {r}, s)
  OBVIOUS
<1>2. /\ DOMAIN e = DOMAIN d
      /\ \A k \in DOMAIN d : e[k].in = d[k].in /\ e[k].val = d[k].val /\ (k /= r => e[k] = d[k])
      /\ e[r].status = s
  <2>1. Entries(d)
    BY LinksAre
  <2>. QED  BY <1>1, <2>1, Marked
<1>3. Claims(e[r]) => Claims(d[r])
  BY <1>2 DEF Claims, Unclaimed
<1>4. \A q \in DOMAIN e : q[1] = "pairrequest" /\ Claims(e[q]) =>
            q \in DOMAIN d /\ Claims(d[q]) /\ e[q].in = d[q].in /\ e[q].val[1] = d[q].val[1]
  BY <1>2, <1>3
<1>5. NamesInv(e)
  BY <1>4, NamesStay DEF Credentials
<1>6. Credentials(e)
  BY <1>2, <1>5, PairRequestChanged
<1>. QED  BY <1>1, <1>6

\* A new pairing request, whose name nobody claims yet, keeps what is told of credentials.
LEMMA create_connector_pairing_requestCredentials ==
  ASSUME NEW d, NEW U, NEW c, Shaped(d, U), Shaped(d, U \cup {c.n}), Credentials(d),
         create_connector_pairing_request(d, c) /= Refused
  PROVE  Credentials(create_connector_pairing_request(d, c))
<1>1. PICK k : k = <<"pairrequest", c.n>>
  OBVIOUS
<1>2. PICK x : x = [New("pending_human_approval", Nobody) EXCEPT !.by = c.key, !.val = <<c.how, FALSE>>]
  OBVIOUS
<1>3. PICK e : e = Put(d, k, x)
  OBVIOUS
<1>4. create_connector_pairing_request(d, c) = e
  BY <1>1, <1>2, <1>3 DEF create_connector_pairing_request
<1>5. k[1] = "pairrequest" /\ k \notin DOMAIN d /\ x.status = "pending_human_approval"
  BY <1>1, <1>2, NewIsFresh DEF New
<1>6. DOMAIN e = DOMAIN d \cup {k} /\ e[k] = x /\ \A j \in DOMAIN d : e[j] = d[j]
  BY <1>3, <1>5 DEF Put
<1>7. NamesInv(e)
  <2>1. ~Claims(e[k])
    BY <1>5, <1>6 DEF Claims, Unclaimed
  <2>2. \A q \in DOMAIN e : q[1] = "pairrequest" /\ Claims(e[q]) =>
            q \in DOMAIN d /\ Claims(d[q]) /\ e[q].in = d[q].in /\ e[q].val[1] = d[q].val[1]
    BY <1>6, <2>1
  <2>. QED  BY <2>2, NamesStay DEF Credentials
<1>. QED  BY <1>4, <1>5, <1>6, <1>7, PairRequestChanged

\* An approval claims a name that no other request claims.
LEMMA approve_connector_pairing_requestCredentials ==
  ASSUME NEW d, NEW U, NEW c, Shaped(d, U), Credentials(d), c.of[1] = "pairrequest",
         approve_connector_pairing_request(d, c) /= Refused
  PROVE  Credentials(approve_connector_pairing_request(d, c))
<1>. DEFINE o0 == ManagedCompany(c.seen[1], c.as)
            chosen0 == IF c.in = Nobody THEN <<"workspace", c.n>> ELSE c.in
            free0 == c.in = Nobody
<1>1. PICK e : e = approve_connector_pairing_request(d, c)
  OBVIOUS
<1>2. /\ Status(d, c.of) = "pending_human_approval"
      /\ \/ e = Mark(d, {c.of}, "expired")
         \/ /\ ~NameClaimed(d, o0, c.of, d[c.of].val[1])
            /\ e = [d EXCEPT ![c.of].status = "approved", ![c.of].in = o0, ![c.of].to = chosen0,
                             ![c.of].val = <<@[1], free0>>]
  BY <1>1 DEF approve_connector_pairing_request
<1>. HIDE DEF o0, chosen0, free0
<1>3. c.of \in DOMAIN d /\ d[c.of].status = "pending_human_approval" /\ d[c.of].status \notin Spent
  BY <1>2 DEF Status, Spent
<1>4. CASE e = Mark(d, {c.of}, "expired")
  BY <1>1, <1>3, <1>4, PairRequestMarked, StatusesAre
<1>5. CASE /\ ~NameClaimed(d, o0, c.of, d[c.of].val[1])
           /\ e = [d EXCEPT ![c.of].status = "approved", ![c.of].in = o0, ![c.of].to = chosen0,
                            ![c.of].val = <<@[1], free0>>]
  <2>1. PICK x : x = d[c.of]
    OBVIOUS
  <2>2. IsEntry(x)
    BY <1>3, <2>1, LinksAre DEF Entries
  <2>3. DOMAIN e = DOMAIN d /\ \A j \in DOMAIN d : j /= c.of => e[j] = d[j]
    BY <1>5
  <2>4. PICK y : y = e[c.of]
    OBVIOUS
  <2>5. y = [status |-> "approved", in |-> o0, by |-> x.by, to |-> chosen0, rev |-> x.rev,
        val |-> <<x.val[1], free0>>]
    BY <1>3, <1>5, <2>1, <2>2, <2>4 DEF IsEntry
  <2>6. y.in = o0 /\ y.val[1] = x.val[1]
    BY <2>5
  <2>7. NamesInv(e)
    <3>1. ASSUME NEW s \in DOMAIN e, s[1] = "pairrequest", s /= c.of, Claims(e[s]), e[s].in = o0,
          e[s].val[1] = x.val[1]
          PROVE  FALSE
      <4>1. s \in DOMAIN d /\ d[s].in = o0 /\ d[s].val[1] = d[c.of].val[1] /\ Claims(d[s])
        BY <2>1, <2>3, <3>1
      <4>. QED  BY <1>5, <3>1, <4>1 DEF NameClaimed, Section, Claims
    <3>2. ASSUME NEW r \in DOMAIN e, NEW s \in DOMAIN e, r[1] = "pairrequest", s[1] = "pairrequest",
                 Claims(e[r]), Claims(e[s]), e[r].in = e[s].in, e[r].val[1] = e[s].val[1]
          PROVE  r = s
      <4>1. CASE r = c.of
        BY <2>4, <2>6, <3>1, <3>2, <4>1
      <4>2. CASE s = c.of
        BY <2>4, <2>6, <3>1, <3>2, <4>2
      <4>3. CASE r /= c.of /\ s /= c.of
        BY <2>3, <3>2, <4>3 DEF Credentials, NamesInv
      <4>. QED  BY <4>1, <4>2, <4>3
    <3>. QED  BY <3>2 DEF NamesInv
  <2>. QED  BY <1>1, <1>3, <2>3, <2>7, PairRequestChanged
<1>. QED  BY <1>2, <1>4, <1>5

\* Claiming an authorization code keeps what is told of credentials.
LEMMA claim_connector_authorization_codeCredentials ==
  ASSUME NEW d, NEW U, NEW c, Shaped(d, U), Credentials(d), c.of[1] = "pairrequest",
         claim_connector_authorization_code(d, c) /= Refused
  PROVE  Credentials(claim_connector_authorization_code(d, c))
<1>1. /\ Status(d, c.of) \in Unclaimed \cup {"pending_human_approval"}
      /\ \/ claim_connector_authorization_code(d, c) \in {Mark(d, {c.of}, "expired"),
              Mark(d, {c.of}, "authorization_code_expired")}
         \/ Status(d, c.of) = "approved" /\
              claim_connector_authorization_code(d, c) = Mark(d, {c.of}, "authorization_code_issued")
  <2>. DEFINE A == Status(d, c.of) = "pending_human_approval" /\ c.of \in c.late
              B == Status(d, c.of) \in Unclaimed /\ c.of \in c.late
              C == Status(d, c.of) = "approved" /\ c.of \notin c.late
  <2>1. claim_connector_authorization_code(d, c)
        = CASE A -> Mark(d, {c.of}, "expired")
            [] B -> Mark(d, {c.of}, "authorization_code_expired")
            [] C -> Mark(d, {c.of}, "authorization_code_issued")
            [] OTHER -> Refused
    BY DEF claim_connector_authorization_code
  <2>2. ~(A /\ B) /\ ~(B /\ C) /\ ~(A /\ C)
    BY DEF Unclaimed
  <2>3. /\ A => Status(d, c.of) = "pending_human_approval"
        /\ B => Status(d, c.of) \in Unclaimed
        /\ C => Status(d, c.of) = "approved"
    OBVIOUS
  <2>. HIDE DEF A, B, C
  <2>4. \/ A /\ claim_connector_authorization_code(d, c) = Mark(d, {c.of}, "expired")
        \/ B /\ claim_connector_authorization_code(d, c) = Mark(d, {c.of}, "authorization_code_expired")
        \/ C /\ claim_connector_authorization_code(d, c) = Mark(d, {c.of}, "authorization_code_issued")
    BY <2>1, <2>2, Zenon
  <2>5. "approved" \in Unclaimed
    BY DEF Unclaimed
  <2>. QED  BY <2>3, <2>4, <2>5
<1>2. c.of \in DOMAIN d /\ d[c.of].status = Status(d, c.of) /\ d[c.of].status \notin Spent
  BY <1>1 DEF Status, Spent, Unclaimed
<1>3. Status(d, c.of) = "approved" => d[c.of].status \in Unclaimed
  BY <1>2 DEF Unclaimed
<1>4. "expired" \in EntryStatuses /\ "authorization_code_expired" \in EntryStatuses /\
      "authorization_code_issued" \in EntryStatuses
  BY StatusesAre
<1>. QED  BY <1>1, <1>2, <1>3, <1>4, PairRequestMarked

\* Cancelling a pairing request keeps what is told of credentials.
LEMMA cancel_connector_pairing_requestCredentials ==
  ASSUME NEW d, NEW U, NEW c, Shaped(d, U), Credentials(d), c.of[1] = "pairrequest",
         cancel_connector_pairing_request(d, c) /= Refused
  PROVE  Credentials(cancel_connector_pairing_request(d, c))
<1>1. /\ cancel_connector_pairing_request(d, c) \in {Mark(d, {c.of}, "expired"), Mark(d, {c.of}, "canceled")}
      /\ Status(d, c.of) = "pending_human_approval"
  BY DEF cancel_connector_pairing_request
<1>2. c.of \in DOMAIN d /\ d[c.of].status \notin Spent
  BY <1>1 DEF Status, Spent
<1>. QED  BY <1>1, <1>2, PairRequestMarked, StatusesAre

\* Reading a pairing request, which may expire it, keeps what is told of credentials.
LEMMA connector_pairing_authorization_contextCredentials ==
  ASSUME NEW d, NEW U, NEW c, Shaped(d, U), Credentials(d), c.of[1] = "pairrequest",
         connector_pairing_authorization_context(d, c) /= Refused
  PROVE  Credentials(connector_pairing_authorization_context(d, c))
<1>1. /\ connector_pairing_authorization_context(d, c) = Mark(d, {c.of}, "expired")
      /\ Status(d, c.of) = "pending_human_approval"
  BY DEF connector_pairing_authorization_context
<1>2. c.of \in DOMAIN d /\ d[c.of].status \notin Spent
  BY <1>1 DEF Status, Spent
<1>. QED  BY <1>1, <1>2, PairRequestMarked, StatusesAre

---------------------------------------------------------------------------
(* Pairings. *)

\* What a pairing and its credential name is there.
LEMMA PairingLinks ==
  ASSUME NEW d, NEW U, Shaped(d, U), PairingsInv(d)
  PROVE  /\ \A k \in DOMAIN d : k[1] = "credential" => d[k].in \in DOMAIN d /\ d[k].in[1] = "pairing"
         /\ \A p \in DOMAIN d : p[1] = "pairing" =>
               /\ d[p].by \in DOMAIN d /\ d[p].by[1] = "credential" /\ d[d[p].by].in = p
               /\ d[p].to \in DOMAIN d /\ d[p].to[1] = "pairrequest" /\ d[d[p].to].status \in Spent
               /\ d[d[p].to].in = d[p].in
         /\ \A r \in DOMAIN d : r[1] = "rotation" =>
               /\ d[r].in \in DOMAIN d /\ d[r].in[1] = "pairing"
               /\ d[r].by \in DOMAIN d /\ d[r].by[1] = "credential" /\ d[d[r].by].in = d[r].in
               /\ d[r].to \in DOMAIN d /\ d[r].to[1] = "credential" /\ d[d[r].to].in = d[r].in
<1>1. Nobody \notin DOMAIN d
  BY LinksAre
<1>2. ASSUME NEW k \in DOMAIN d, k[1] = "credential" PROVE d[k].in \in DOMAIN d /\ d[k].in[1] = "pairing"
  BY <1>2, LinksAre DEF PairingsInv
<1>3. ASSUME NEW p \in DOMAIN d, p[1] = "pairing"
      PROVE  /\ d[p].by \in DOMAIN d /\ d[p].by[1] = "credential" /\ d[d[p].by].in = p
             /\ d[p].to \in DOMAIN d /\ d[p].to[1] = "pairrequest" /\ d[d[p].to].status \in Spent
             /\ d[d[p].to].in = d[p].in
  <2>1. /\ d[p].by \in DOMAIN d /\ d[d[p].by].in = p
        /\ d[p].to \in DOMAIN d /\ d[d[p].to].status \in Spent /\ d[d[p].to].in = d[p].in
    BY <1>3 DEF PairingsInv, Spent
  <2>. QED  BY <1>1, <1>3, <2>1, LinksAre
<1>4. ASSUME NEW r \in DOMAIN d, r[1] = "rotation"
      PROVE  /\ d[r].in \in DOMAIN d /\ d[r].in[1] = "pairing"
             /\ d[r].by \in DOMAIN d /\ d[r].by[1] = "credential" /\ d[d[r].by].in = d[r].in
             /\ d[r].to \in DOMAIN d /\ d[r].to[1] = "credential" /\ d[d[r].to].in = d[r].in
  <2>1. /\ d[r].in \in DOMAIN d /\ d[r].by \in DOMAIN d /\ d[d[r].by].in = d[r].in
        /\ d[r].to \in DOMAIN d /\ d[d[r].to].in = d[r].in
    BY <1>4 DEF PairingsInv
  <2>. QED  BY <1>1, <1>4, <2>1, LinksAre
<1>. QED  BY <1>2, <1>3, <1>4

\* Pairings, credentials, rotations and requests get other statuses: no pairing and no
\* credential comes alive, no live pairing loses its credential, no request claims a name that
\* it did not claim.
LEMMA PairingsClose ==
  ASSUME NEW d, NEW U, Shaped(d, U), Credentials(d), NEW e, DOMAIN e = DOMAIN d,
         \A k \in DOMAIN d : /\ e[k].in = d[k].in /\ e[k].by = d[k].by /\ e[k].to = d[k].to
                             /\ k[1] = "pairrequest" => e[k].val = d[k].val
                             /\ k[1] \notin {"pairing", "credential", "rotation", "pairrequest"} => e[k] = d[k],
         \A k \in DOMAIN d : k[1] = "credential" /\ e[k].status = "active" =>
            d[k].status = "active" /\ (d[k].in \in DOMAIN d => e[d[k].in].status = "active"),
         \A p \in DOMAIN d : p[1] = "pairing" /\ e[p].status = "active" =>
            d[p].status = "active" /\ (d[d[p].by].status = "active" => e[d[p].by].status = "active"),
         \A p \in DOMAIN d : p[1] = "pairing" /\ e[p].status = "pending_activation" =>
            d[p].status = "pending_activation" /\ (d[p].to \in DOMAIN d => e[d[p].to].status = d[d[p].to].status),
         \A r \in DOMAIN d : r[1] = "pairrequest" =>
            \/ e[r].status = d[r].status
            \/ d[r].status \in Spent /\ e[r].status = "canceled"
            \/ d[r].status \notin Spent /\ e[r].status \in {"expired", "authorization_code_expired"}
  PROVE  Credentials(e)
<1>1. /\ \A k : k \in DOMAIN d <=> k \in DOMAIN e
      /\ \A k \in DOMAIN d : /\ e[k].in = d[k].in /\ e[k].by = d[k].by /\ e[k].to = d[k].to
                             /\ k[1] = "pairrequest" => e[k].val = d[k].val
                             /\ k[1] \notin {"pairing", "credential", "rotation", "pairrequest"} => e[k] = d[k]
  OBVIOUS
<1>2. PairingsInv(d)
  BY DEF Credentials
<1>3. PairingsInv(e)
  <2>1. \A r \in DOMAIN d : r[1] = "pairrequest" /\ d[r].status \in {"exchanged", "active", "canceled"} =>
            r \in DOMAIN e /\ e[r].in = d[r].in /\ e[r].status \in {"exchanged", "active", "canceled"}
    BY <1>1 DEF Spent
  <2>2. ASSUME NEW k \in DOMAIN d, k[1] = "credential", e[k].status = "active"
        PROVE  e[d[k].in].status = "active" /\ d[d[k].in].by = k
    BY <1>2, <2>2 DEF PairingsInv
  <2>3. ASSUME NEW p \in DOMAIN d, p[1] = "pairing"
        PROVE  /\ e[p].status = "active" => e[d[p].by].status = "active"
               /\ e[p].status = "pending_activation" =>
                     d[p].status = "pending_activation" /\ e[d[p].to].status = d[d[p].to].status
    <3>1. d[p].to \in DOMAIN d /\ (d[p].status = "active" => d[d[p].by].status = "active")
      BY <1>2, <2>3 DEF PairingsInv
    <3>. QED  BY <2>3, <3>1
  <2>. QED  BY <1>1, <1>2, <2>1, <2>2, <2>3, PairingsMarked
<1>4. NamesInv(e)
  <2>1. ASSUME NEW r \in DOMAIN e, r[1] = "pairrequest", Claims(e[r]) PROVE Claims(d[r])
    BY <1>1, <2>1 DEF Claims, Spent, Unclaimed
  <2>. QED  BY <1>1, <2>1, NamesStay DEF Credentials
<1>5. \A k : k[1] \in Told /\ k[1] \notin Paired =>
      (k \in DOMAIN d <=> k \in DOMAIN e) /\ (k \in DOMAIN d => e[k] = d[k])
  BY <1>1 DEF Paired
<1>6. \A k \in DOMAIN e : k[1] \in {"pairing", "workspace"} /\ e[k].status = "active" =>
            k \in DOMAIN d /\ d[k].status = "active" /\ d[k].in = e[k].in
  BY <1>1
<1>. QED  BY <1>3, <1>4, <1>5, <1>6, ConnectorsChanged

\* So it is when nothing but the statuses differs.
LEMMA PairingsEnd ==
  ASSUME NEW d, NEW U, Shaped(d, U), Credentials(d), NEW e, NEW S, Restated(d, e, S),
         S = {"pairing", "credential", "rotation", "pairrequest"},
         \A k \in DOMAIN d : k[1] = "credential" /\ e[k].status = "active" =>
            d[k].status = "active" /\ (d[k].in \in DOMAIN d => e[d[k].in].status = "active"),
         \A p \in DOMAIN d : p[1] = "pairing" /\ e[p].status = "active" =>
            d[p].status = "active" /\ (d[d[p].by].status = "active" => e[d[p].by].status = "active"),
         \A p \in DOMAIN d : p[1] = "pairing" /\ e[p].status = "pending_activation" =>
            d[p].status = "pending_activation" /\ (d[p].to \in DOMAIN d => e[d[p].to].status = d[d[p].to].status),
         \A r \in DOMAIN d : r[1] = "pairrequest" =>
            \/ e[r].status = d[r].status
            \/ d[r].status \in Spent /\ e[r].status = "canceled"
            \/ d[r].status \notin Spent /\ e[r].status \in {"expired", "authorization_code_expired"}
  PROVE  Credentials(e)
<1>1. /\ DOMAIN e = DOMAIN d
      /\ \A k \in DOMAIN d : /\ e[k].in = d[k].in /\ e[k].by = d[k].by /\ e[k].to = d[k].to
                             /\ k[1] = "pairrequest" => e[k].val = d[k].val
                             /\ k[1] \notin {"pairing", "credential", "rotation", "pairrequest"} => e[k] = d[k]
  BY DEF Restated
<1>. QED  BY <1>1, PairingsClose

\* A code is exchanged for a pairing that waits for its activation, with a credential.
LEMMA exchange_connector_authorization_codeCredentials ==
  ASSUME NEW d, NEW U, NEW c, Shaped(d, U), Shaped(d, U \cup {c.n}), Credentials(d), c.of[1] = "pairrequest",
         exchange_connector_authorization_code(d, c) /= Refused
  PROVE  Credentials(exchange_connector_authorization_code(d, c))
<1>1. PICK p : p = <<"pairing", c.n>>
  OBVIOUS
<1>2. PICK k : k = <<"credential", c.n>>
  OBVIOUS
<1>3. PICK r : r = d[c.of]
  OBVIOUS
<1>4. PICK x : x = [New("pending_activation", r.in)
                      EXCEPT !.to = c.of, !.by = k, !.val = <<r.to, r.val[1], r.val[2], Nobody>>]
  OBVIOUS
<1>5. PICK y : y = New("pending_activation", p)
  OBVIOUS
<1>6. PICK a : a = Mark(d, {c.of}, "exchanged")
  OBVIOUS
<1>7. PICK b : b = Put(a, k, y)
  OBVIOUS
<1>8. PICK e : e = Put(b, p, x)
  OBVIOUS
<1>9. /\ Status(d, c.of) = "authorization_code_issued"
      /\ \/ exchange_connector_authorization_code(d, c) = Mark(d, {c.of}, "authorization_code_expired")
         \/ exchange_connector_authorization_code(d, c) = e
  BY <1>1, <1>2, <1>3, <1>4, <1>5, <1>6, <1>7, <1>8 DEF exchange_connector_authorization_code
<1>10. c.of \in DOMAIN d /\ d[c.of].status = "authorization_code_issued" /\ d[c.of].status \notin Spent
       /\ d[c.of].status \in Unclaimed
  BY <1>9 DEF Status, Spent, Unclaimed
<1>11. CASE exchange_connector_authorization_code(d, c) = Mark(d, {c.of}, "authorization_code_expired")
  BY <1>10, <1>11, PairRequestMarked, StatusesAre
<1>12. CASE exchange_connector_authorization_code(d, c) = e
  <2>1. /\ DOMAIN a = DOMAIN d
        /\ \A j \in DOMAIN d : a[j].in = d[j].in /\ a[j].val = d[j].val /\ (j /= c.of => a[j] = d[j])
        /\ a[c.of].status = "exchanged"
    <3>1. Entries(d) /\ "exchanged" \in EntryStatuses
      BY LinksAre, StatusesAre
    <3>. QED  BY <1>6, <1>10, <3>1, Marked
  <2>2. /\ p[1] = "pairing" /\ k[1] = "credential" /\ p \notin DOMAIN d /\ k \notin DOMAIN d
        /\ x.status = "pending_activation" /\ x.in = d[c.of].in /\ x.to = c.of /\ x.by = k
        /\ y.status = "pending_activation" /\ y.in = p
    BY <1>1, <1>2, <1>3, <1>4, <1>5, NewIsFresh DEF New
  <2>3. /\ DOMAIN e = DOMAIN d \cup {k, p} /\ e[k] = y /\ e[p] = x
        /\ \A j \in DOMAIN d : e[j] = a[j]
    BY <1>7, <1>8, <2>1, <2>2 DEF Put
  <2>4. /\ \A j \in DOMAIN d : e[j].in = d[j].in /\ e[j].val = d[j].val /\ (j /= c.of => e[j] = d[j])
        /\ e[c.of].status = "exchanged"
    BY <1>10, <2>1, <2>3
  <2>5. PairingsInv(d)
    BY DEF Credentials
  <2>6. \A q \in DOMAIN d : q[1] = "pairing" => d[q].to /= c.of
    BY <1>10, <2>5, PairingLinks
  <2>7. \A j \in DOMAIN e : /\ j[1] = "credential" => j = k \/ (j \in DOMAIN d /\ e[j] = d[j])
                            /\ j[1] = "pairing" => j = p \/ (j \in DOMAIN d /\ e[j] = d[j])
                            /\ j[1] = "rotation" => j \in DOMAIN d /\ e[j] = d[j]
    BY <2>2, <2>3, <2>4
  <2>8. ASSUME NEW j \in DOMAIN e, j[1] = "credential"
        PROVE  /\ e[j].in \in DOMAIN e
               /\ e[j].status = "active" => e[e[j].in].status = "active" /\ e[e[j].in].by = j
               /\ e[j].in = p => j = k
    <3>1. CASE j = k
      BY <2>2, <2>3, <3>1
    <3>2. CASE j /= k
      <4>1. j \in DOMAIN d /\ e[j] = d[j]
        BY <2>7, <2>8, <3>2
      <4>2. d[j].in \in DOMAIN d /\ d[j].in[1] = "pairing" /\
            (d[j].status = "active" => d[d[j].in].status = "active" /\ d[d[j].in].by = j)
        BY <2>5, <2>8, <4>1, PairingLinks DEF PairingsInv
      <4>. QED  BY <2>2, <2>3, <2>4, <4>1, <4>2
    <3>. QED  BY <3>1, <3>2
  <2>9. ASSUME NEW q \in DOMAIN e, q[1] = "pairing"
        PROVE  /\ e[q].by \in DOMAIN e /\ e[e[q].by].in = q
               /\ e[q].status = "active" => e[e[q].by].status = "active"
               /\ e[q].status = "pending_activation" =>
                     \A j \in DOMAIN e : j[1] = "credential" /\ e[j].in = q => j = e[q].by
               /\ e[q].to \in DOMAIN e /\ e[e[q].to].in = e[q].in
               /\ e[e[q].to].status \in {"exchanged", "active", "canceled"}
               /\ e[q].status = "pending_activation" => e[e[q].to].status = "exchanged"
    <3>1. CASE q = p
      BY <1>10, <2>2, <2>3, <2>4, <2>8, <3>1
    <3>2. CASE q /= p
      <4>1. q \in DOMAIN d /\ e[q] = d[q]
        BY <2>7, <2>9, <3>2
      <4>2. /\ d[q].by \in DOMAIN d /\ d[q].by[1] = "credential" /\ d[d[q].by].in = q
            /\ d[q].to \in DOMAIN d /\ d[q].to /= c.of /\ d[d[q].to].in = d[q].in
            /\ d[d[q].to].status \in {"exchanged", "active", "canceled"}
        BY <2>5, <2>6, <2>9, <4>1, PairingLinks DEF Spent
      <4>3. /\ d[q].status = "active" => d[d[q].by].status = "active"
            /\ d[q].status = "pending_activation" => d[d[q].to].status = "exchanged"
            /\ d[q].status = "pending_activation" =>
                  \A j \in DOMAIN d : j[1] = "credential" /\ d[j].in = q => j = d[q].by
        BY <2>5, <2>9, <4>1 DEF PairingsInv
      <4>4. e[d[q].by] = d[d[q].by] /\ e[d[q].to] = d[d[q].to]
        BY <1>10, <2>4, <4>2
      <4>5. \A j \in DOMAIN e : j[1] = "credential" /\ e[j].in = q => j \in DOMAIN d /\ d[j].in = q
        BY <2>2, <2>3, <2>7, <3>2
      <4>. QED  BY <2>3, <4>1, <4>2, <4>3, <4>4, <4>5
    <3>. QED  BY <3>1, <3>2
  <2>10. \A q, s \in DOMAIN e : q[1] = "pairing" /\ s[1] = "pairing" /\ e[q].to = e[s].to => q = s
    BY <2>2, <2>3, <2>5, <2>6, <2>7 DEF PairingsInv
  <2>11. ASSUME NEW t \in DOMAIN e, t[1] = "rotation"
         PROVE  /\ e[t].in \in DOMAIN e
                /\ e[t].to \in DOMAIN e /\ e[e[t].to].in = e[t].in
                /\ e[t].by \in DOMAIN e /\ e[e[t].by].in = e[t].in
    <3>1. t \in DOMAIN d /\ e[t] = d[t]
      BY <2>7, <2>11
    <3>2. /\ d[t].in \in DOMAIN d /\ d[t].to \in DOMAIN d /\ d[d[t].to].in = d[t].in
          /\ d[t].by \in DOMAIN d /\ d[d[t].by].in = d[t].in
      BY <2>5, <2>11, <3>1, PairingLinks
    <3>. QED  BY <2>3, <2>4, <3>1, <3>2
  <2>12. PairingsInv(e)
    BY <2>8, <2>9, <2>10, <2>11 DEF PairingsInv
  <2>13. NamesInv(e)
    <3>1. Claims(d[c.of])
      BY <1>10 DEF Claims
    <3>2. \A q \in DOMAIN e : q[1] = "pairrequest" => q \in DOMAIN d
      BY <2>2, <2>3
    <3>. QED  BY <2>4, <3>1, <3>2, NamesStay DEF Credentials
  <2>14. \A j : j[1] \in Told /\ j[1] \notin Paired =>
        (j \in DOMAIN d <=> j \in DOMAIN e) /\ (j \in DOMAIN d => e[j] = d[j])
    BY <2>2, <2>3, <2>4 DEF Paired
  <2>15. \A j \in DOMAIN e : j[1] \in {"pairing", "workspace"} /\ e[j].status = "active" =>
            j \in DOMAIN d /\ d[j].status = "active" /\ d[j].in = e[j].in
    BY <2>2, <2>3, <2>4
  <2>. QED  BY <1>12, <2>12, <2>13, <2>14, <2>15, ConnectorsChanged
<1>. QED  BY <1>9, <1>11, <1>12

\* What runs out was not active.
LEMMA ExpiredCredentials ==
  ASSUME NEW d, NEW U, Shaped(d, U), Credentials(d), NEW over
  PROVE  Credentials(Expired(d, over))
<1>. DEFINE pairings0 == RunOut(d, "pairing", {"pending_activation"}, over)
            rotations0 == RunOut(d, "rotation", {"pending_activation"}, over)
            credentials0 == {k \in Section(d, "credential") :
                              /\ d[k].status = "pending_activation"
                              /\ d[k].in \in pairings0 \/ \E r \in rotations0 : d[r].to = k}
            codes0 == RunOut(d, "pairrequest", Unclaimed, over)
            requests0 == RunOut(d, "pairrequest", Unapproved, over)
<1>1. PICK codes : codes = codes0
  OBVIOUS
<1>2. PICK all : all = pairings0 \cup rotations0 \cup credentials0 \cup requests0
  OBVIOUS
<1>3. PICK a : a = Mark(d, codes, "authorization_code_expired")
  OBVIOUS
<1>4. PICK e : e = Mark(a, all, "expired")
  OBVIOUS
<1>5. Expired(d, over) = e
  BY <1>1, <1>2, <1>3, <1>4 DEF Expired
<1>6. /\ \A k \in codes : k \in DOMAIN d /\ k[1] = "pairrequest" /\ d[k].status \in Unclaimed
      /\ \A k \in all : /\ k[1] = "pairrequest" => d[k].status \in Unapproved
                        /\ k[1] /= "pairrequest" => d[k].status = "pending_activation"
                        /\ k \in DOMAIN d /\ k[1] \in {"pairing", "rotation", "credential", "pairrequest"}
  BY <1>1, <1>2 DEF RunOut, Section
<1>. HIDE DEF pairings0, rotations0, credentials0, codes0, requests0
<1>7. PICK S : S = {"pairing", "credential", "rotation", "pairrequest"}
  OBVIOUS
<1>8. Entries(d) /\ "expired" \in EntryStatuses /\ "authorization_code_expired" \in EntryStatuses
  BY LinksAre, StatusesAre
<1>9. Restated(d, a, S) /\ \A k \in DOMAIN d : a[k].status = IF k \in codes THEN "authorization_code_expired"
      ELSE d[k].status
  <2>1. Restated(d, d, S)
    BY <1>8, RestatedSelf
  <2>2. \A k \in codes : k \in DOMAIN d => k[1] \in S
    BY <1>6, <1>7
  <2>. QED  BY <1>3, <1>8, <2>1, <2>2, RestatedMark
<1>10. Restated(d, e, S) /\ \A k \in DOMAIN d : e[k].status = IF k \in all THEN "expired" ELSE a[k].status
  <2>2. \A k \in all : k \in DOMAIN d => k[1] \in S
    BY <1>6, <1>7
  <2>. QED  BY <1>4, <1>8, <1>9, <2>2, RestatedMark
<1>11. PairingsInv(d)
  BY DEF Credentials
<1>12. ASSUME NEW k \in DOMAIN d, k[1] /= "pairrequest"
       PROVE  e[k].status = IF k \in all THEN "expired" ELSE d[k].status
  BY <1>6, <1>9, <1>10, <1>12
<1>13. ASSUME NEW k \in DOMAIN d, k[1] = "credential", e[k].status = "active"
       PROVE  d[k].status = "active" /\ (d[k].in \in DOMAIN d => e[d[k].in].status = "active")
  <2>1. d[k].status = "active" /\ d[k].in[1] = "pairing"
    BY <1>11, <1>12, <1>13, PairingLinks
  <2>2. d[d[k].in].status = "active" /\ d[k].in \in DOMAIN d
    BY <1>11, <1>13, <2>1 DEF PairingsInv
  <2>3. d[k].in \notin all
    BY <1>6, <2>1, <2>2
  <2>. QED  BY <1>12, <2>1, <2>2, <2>3
<1>14. ASSUME NEW p \in DOMAIN d, p[1] = "pairing"
       PROVE  /\ e[p].status = "active" =>
                    d[p].status = "active" /\ (d[d[p].by].status = "active" => e[d[p].by].status = "active")
              /\ e[p].status = "pending_activation" =>
                    d[p].status = "pending_activation" /\
                        (d[p].to \in DOMAIN d => e[d[p].to].status = d[d[p].to].status)
  <2>1. /\ d[p].by \in DOMAIN d /\ d[p].by[1] = "credential"
        /\ d[p].to \in DOMAIN d /\ d[p].to[1] = "pairrequest" /\ d[d[p].to].status \in Spent
    BY <1>11, <1>14, PairingLinks
  <2>2. e[p].status = IF p \in all THEN "expired" ELSE d[p].status
    BY <1>12, <1>14
  <2>3. d[d[p].by].status = "active" => e[d[p].by].status = "active"
    <3>1. d[p].by \in all => d[d[p].by].status = "pending_activation"
      BY <1>6, <2>1
    <3>. QED  BY <1>12, <2>1, <3>1
  <2>4. e[d[p].to].status = d[d[p].to].status
    <3>1. d[p].to \notin codes /\ d[p].to \notin all
      BY <1>6, <2>1 DEF Spent, Unclaimed, Unapproved
    <3>. QED  BY <1>9, <1>10, <2>1, <3>1
  <2>. QED  BY <2>2, <2>3, <2>4
<1>15. ASSUME NEW r \in DOMAIN d, r[1] = "pairrequest"
       PROVE  \/ e[r].status = d[r].status
              \/ d[r].status \notin Spent /\ e[r].status \in {"expired", "authorization_code_expired"}
  <2>1. CASE r \in all
    BY <1>6, <1>10, <1>15, <2>1 DEF Spent, Unapproved
  <2>2. CASE r \notin all /\ r \in codes
    BY <1>6, <1>9, <1>10, <2>2 DEF Spent, Unclaimed
  <2>3. CASE r \notin all /\ r \notin codes
    BY <1>9, <1>10, <2>3
  <2>. QED  BY <2>1, <2>2, <2>3
<1>16. Credentials(e)
  BY <1>7, <1>10, <1>13, <1>14, <1>15, PairingsEnd
<1>. QED  BY <1>5, <1>16

\* Expiring pairings, credentials, rotations and codes keeps what is told of credentials.
LEMMA expire_connector_pairingsCredentials ==
  ASSUME NEW d, NEW U, NEW c, Shaped(d, U), Credentials(d), expire_connector_pairings(d, c) /= Refused
  PROVE  Credentials(expire_connector_pairings(d, c))
BY ExpiredCredentials DEF expire_connector_pairings

\* A pairing that is purged goes with all that names it.
LEMMA purge_abandoned_connector_pairingsCredentials ==
  ASSUME NEW d, NEW U, NEW c, Shaped(d, U), Credentials(d), purge_abandoned_connector_pairings(d, c) /= Refused
  PROVE  Credentials(purge_abandoned_connector_pairings(d, c))
<1>1. PICK over : over = RunOut(d, "pairing", {"canceled", "expired"}, c.late)
  OBVIOUS
<1>2. PICK theirs : theirs = {k \in Section(d, "credential") \cup Section(d, "rotation") : d[k].in \in over}
  OBVIOUS
<1>3. PICK asked : asked = {d[k].to : k \in over}
  OBVIOUS
<1>4. PICK e : e = Drop(d, over \cup theirs \cup asked)
  OBVIOUS
<1>5. purge_abandoned_connector_pairings(d, c) = e
  BY <1>1, <1>2, <1>3, <1>4 DEF purge_abandoned_connector_pairings
<1>6. PairingsInv(d)
  BY DEF Credentials
<1>7. /\ \A k \in over : k \in DOMAIN d /\ k[1] = "pairing"
      /\ \A k \in theirs : k \in DOMAIN d /\ k[1] \in {"credential", "rotation"} /\ d[k].in \in over
      /\ \A k \in DOMAIN d : k[1] \in {"credential", "rotation"} /\ d[k].in \in over => k \in theirs
  BY <1>1, <1>2 DEF RunOut, Section
<1>8. \A k \in asked : k[1] = "pairrequest" /\ \E p \in over : k = d[p].to
  BY <1>3, <1>6, <1>7, PairingLinks
<1>9. DOMAIN e = {k \in DOMAIN d : k \notin over /\ k \notin theirs /\ k \notin asked} /\
      \A k \in DOMAIN e : e[k] = d[k]
  BY <1>4 DEF Drop
<1>10. \A k \in DOMAIN d : k[1] = "pairing" => (k \in DOMAIN e <=> k \notin over)
  BY <1>7, <1>8, <1>9
<1>11. \A k \in DOMAIN d : k[1] \in {"credential", "rotation"} => (k \in DOMAIN e <=> d[k].in \notin over)
  BY <1>7, <1>8, <1>9
<1>12. \A k \in DOMAIN d : k[1] = "pairrequest" => (k \in DOMAIN e <=> \A p \in over : d[p].to /= k)
  BY <1>3, <1>7, <1>8, <1>9
<1>13. ASSUME NEW k \in DOMAIN e, k[1] = "credential"
       PROVE  k \in DOMAIN d /\ e[k] = d[k] /\ d[k].in \in DOMAIN e /\ e[d[k].in] = d[d[k].in]
  <2>1. k \in DOMAIN d /\ d[k].in \in DOMAIN d /\ d[k].in[1] = "pairing" /\ d[k].in \notin over
    BY <1>6, <1>9, <1>11, <1>13, PairingLinks
  <2>. QED  BY <1>9, <1>10, <1>13, <2>1
<1>14. ASSUME NEW p \in DOMAIN e, p[1] = "pairing"
       PROVE  /\ p \in DOMAIN d /\ e[p] = d[p] /\ d[p].by \in DOMAIN e /\ e[d[p].by] = d[d[p].by]
              /\ d[p].to \in DOMAIN e /\ e[d[p].to] = d[d[p].to]
  <2>1. p \in DOMAIN d /\ p \notin over
    BY <1>9, <1>14
  <2>2. /\ d[p].by \in DOMAIN d /\ d[p].by[1] = "credential" /\ d[d[p].by].in = p
        /\ d[p].to \in DOMAIN d /\ d[p].to[1] = "pairrequest"
    BY <1>6, <1>14, <2>1, PairingLinks
  <2>3. d[p].by \in DOMAIN e
    BY <1>11, <2>1, <2>2
  <2>4. \A q \in over : d[q].to /= d[p].to
    BY <1>6, <1>7, <1>14, <2>1 DEF PairingsInv
  <2>5. d[p].to \in DOMAIN e
    BY <1>12, <2>2, <2>4
  <2>. QED  BY <1>9, <1>14, <2>1, <2>3, <2>5
<1>15. ASSUME NEW r \in DOMAIN e, r[1] = "rotation"
       PROVE  /\ e[r].in \in DOMAIN e
              /\ e[r].to \in DOMAIN e /\ e[e[r].to].in = e[r].in
              /\ e[r].by \in DOMAIN e /\ e[e[r].by].in = e[r].in
  <2>1. r \in DOMAIN d /\ d[r].in \notin over /\ e[r] = d[r]
    BY <1>9, <1>11, <1>15
  <2>2. /\ d[r].in \in DOMAIN d /\ d[r].in[1] = "pairing"
        /\ d[r].by \in DOMAIN d /\ d[r].by[1] = "credential" /\ d[d[r].by].in = d[r].in
        /\ d[r].to \in DOMAIN d /\ d[r].to[1] = "credential" /\ d[d[r].to].in = d[r].in
    BY <1>6, <1>15, <2>1, PairingLinks
  <2>3. d[r].in \in DOMAIN e /\ d[r].by \in DOMAIN e /\ d[r].to \in DOMAIN e
    BY <1>10, <1>11, <2>1, <2>2
  <2>. QED  BY <1>9, <2>1, <2>2, <2>3
<1>16. \A k \in DOMAIN e : k[1] = "credential" =>
          /\ e[k].in \in DOMAIN e
          /\ e[k].status = "active" => e[e[k].in].status = "active" /\ e[e[k].in].by = k
  BY <1>6, <1>13 DEF PairingsInv
<1>17. \A p \in DOMAIN e : p[1] = "pairing" =>
          /\ e[p].by \in DOMAIN e /\ e[e[p].by].in = p
          /\ e[p].status = "active" => e[e[p].by].status = "active"
          /\ e[p].to \in DOMAIN e /\ e[e[p].to].in = e[p].in
          /\ e[e[p].to].status \in {"exchanged", "active", "canceled"}
          /\ e[p].status = "pending_activation" => e[e[p].to].status = "exchanged"
  BY <1>6, <1>14 DEF PairingsInv
<1>18. \A p \in DOMAIN e : p[1] = "pairing" =>
          (e[p].status = "pending_activation" => \A k \in DOMAIN e : k[1] = "credential" /\ e[k].in = p =>
              k = e[p].by)
  BY <1>6, <1>13, <1>14 DEF PairingsInv
<1>19. \A p, q \in DOMAIN e : p[1] = "pairing" /\ q[1] = "pairing" /\ e[p].to = e[q].to => p = q
  BY <1>6, <1>14 DEF PairingsInv
<1>20. PairingsInv(e)
  BY <1>15, <1>16, <1>17, <1>18, <1>19 DEF PairingsInv
<1>21. NamesInv(e)
  BY <1>9, NamesStay DEF Credentials
<1>22. \A k : k[1] \in Told /\ k[1] \notin Paired =>
      (k \in DOMAIN d <=> k \in DOMAIN e) /\ (k \in DOMAIN d => e[k] = d[k])
  BY <1>7, <1>8, <1>9 DEF Paired
<1>23. Credentials(e)
  BY <1>9, <1>20, <1>21, <1>22, ConnectorsChanged
<1>. QED  BY <1>5, <1>23

---------------------------------------------------------------------------
(* Connectors that are activated, rotated and ended. *)

\* A pairing that ends takes its credentials with it.
LEMMA EndsCredentials ==
  ASSUME NEW d, NEW U, Shaped(d, U), Credentials(d), NEW p \in DOMAIN d, p[1] = "pairing",
         NEW s \in EntryStatuses, s \notin {"active", "pending_activation"}, NEW kept, "active" \notin kept,
         NEW e, DOMAIN e = DOMAIN d,
         \A k \in DOMAIN d : /\ e[k].in = d[k].in /\ e[k].by = d[k].by /\ e[k].to = d[k].to
                             /\ e[k].status = Ends(d, p, s, kept)[k].status
                             /\ k /= p => e[k] = Ends(d, p, s, kept)[k]
  PROVE  Credentials(e)
<1>. DEFINE theirs0 == {k \in Of(d, p) : d[k].status \notin kept}
<1>1. PICK T : T = theirs0
  OBVIOUS
<1>2. PICK f : f = Mark(d, {p} \cup T, s)
  OBVIOUS
<1>3. f = Ends(d, p, s, kept)
  BY <1>1, <1>2 DEF Ends
<1>4. /\ \A k \in T : k \in DOMAIN d /\ k[1] = "credential"
      /\ \A k \in DOMAIN d : k[1] = "credential" /\ d[k].in = p /\ d[k].status = "active" => k \in T
      /\ \A k \in T : d[k].in = p
  BY <1>1 DEF Of, Section
<1>. HIDE DEF theirs0
<1>5. \A k \in DOMAIN d : /\ f[k].status = IF k \in {p} \cup T THEN s ELSE d[k].status
                          /\ k \notin {p} \cup T => f[k] = d[k]
  <2>1. Entries(d)
    BY LinksAre
  <2>. QED  BY <1>2, <2>1, Marked
<1>6. \A k \in DOMAIN d : /\ e[k].status = IF k = p \/ k \in T THEN s ELSE d[k].status
                          /\ k /= p /\ k \notin T => e[k] = d[k]
  BY <1>3, <1>5
<1>7. PairingsInv(d)
  BY DEF Credentials
<1>8. \A k \in DOMAIN d : /\ k[1] = "pairrequest" => e[k].val = d[k].val /\ e[k].status = d[k].status
                          /\ k[1] \notin {"pairing", "credential", "rotation", "pairrequest"} => e[k] = d[k]
  BY <1>4, <1>6
<1>9. ASSUME NEW k \in DOMAIN d, k[1] = "credential", e[k].status = "active"
      PROVE  d[k].status = "active" /\ (d[k].in \in DOMAIN d => e[d[k].in].status = "active")
  <2>1. k \notin T /\ d[k].status = "active"
    BY <1>6, <1>9
  <2>2. d[k].in /= p /\ d[k].in \in DOMAIN d /\ d[k].in[1] = "pairing" /\ d[d[k].in].status = "active"
    BY <1>4, <1>7, <1>9, <2>1, PairingLinks DEF PairingsInv
  <2>3. d[k].in \notin T
    BY <1>4, <2>2
  <2>. QED  BY <1>6, <2>1, <2>2, <2>3
<1>10. ASSUME NEW q \in DOMAIN d, q[1] = "pairing", q /= p
       PROVE  e[q] = d[q] /\ e[d[q].by] = d[d[q].by] /\ e[d[q].to] = d[d[q].to]
  <2>1. /\ d[q].by \in DOMAIN d /\ d[q].by[1] = "credential" /\ d[d[q].by].in = q
        /\ d[q].to \in DOMAIN d /\ d[q].to[1] = "pairrequest"
    BY <1>7, <1>10, PairingLinks
  <2>2. q \notin T /\ d[q].by \notin T /\ d[q].to \notin T
    BY <1>4, <1>10, <2>1
  <2>. QED  BY <1>6, <1>10, <2>1, <2>2
<1>11. e[p].status = s
  BY <1>6
<1>. QED  BY <1>8, <1>9, <1>10, <1>11, PairingsClose

\* Revoking a pairing keeps what is told of credentials.
LEMMA revoke_connector_pairingCredentials ==
  ASSUME NEW d, NEW U, NEW c, Shaped(d, U), Credentials(d), c.of[1] = "pairing",
         revoke_connector_pairing(d, c) /= Refused
  PROVE  Credentials(revoke_connector_pairing(d, c))
<1>0. PICK kept : kept = {"revoked", "superseded", "expired"}
  OBVIOUS
<1>1. PICK e : e = Ends(d, c.of, "revoked", kept)
  OBVIOUS
<1>2. PICK f : f = [e EXCEPT ![c.of].val[4] = c.key]
  OBVIOUS
<1>3. revoke_connector_pairing(d, c) = f
  BY <1>0, <1>1, <1>2 DEF revoke_connector_pairing
<1>4. PICK T : T = {k \in Of(d, c.of) : d[k].status \notin kept}
  OBVIOUS
<1>5. e = Mark(d, {c.of} \cup T, "revoked")
  BY <1>1, <1>4 DEF Ends
<1>6. /\ DOMAIN e = DOMAIN d /\ Entries(e)
      /\ \A k \in DOMAIN d : e[k].in = d[k].in /\ e[k].by = d[k].by /\ e[k].to = d[k].to /\
           (k /= c.of /\ k \notin T => e[k] = d[k])
  <2>1. Entries(d) /\ "revoked" \in EntryStatuses
    BY LinksAre, StatusesAre
  <2>2. PICK K : K = {c.of} \cup T
    OBVIOUS
  <2>3. /\ DOMAIN e = DOMAIN d /\ Entries(e)
        /\ \A k \in DOMAIN d : e[k].in = d[k].in /\ e[k].by = d[k].by /\ e[k].to = d[k].to /\
             (k \notin K => e[k] = d[k])
    BY <1>5, <2>1, <2>2, Marked
  <2>. QED  BY <2>2, <2>3
<1>7. CASE c.of \in DOMAIN d
  <2>1. PICK z : z = e[c.of]
    OBVIOUS
  <2>2. z = [status |-> z.status, in |-> z.in, by |-> z.by, to |-> z.to, rev |-> z.rev, val |-> z.val]
    BY <1>6, <1>7, <2>1 DEF Entries, IsEntry
  <2>3. PICK v : v = [z.val EXCEPT ![4] = c.key]
    OBVIOUS
  <2>4. PICK y : y = [z EXCEPT !.val = v]
    OBVIOUS
  <2>5. f[c.of] = y /\ DOMAIN f = DOMAIN d /\ \A k \in DOMAIN d : k /= c.of => f[k] = e[k]
    BY <1>2, <1>6, <1>7, <2>1, <2>3, <2>4
  <2>6. y.status = z.status /\ y.in = z.in /\ y.by = z.by /\ y.to = z.to
    BY <2>2, <2>4
  <2>9. f[c.of].status = e[c.of].status /\ f[c.of].in = e[c.of].in /\ f[c.of].by = e[c.of].by /\
        f[c.of].to = e[c.of].to
    BY <2>1, <2>5, <2>6
  <2>7. \A k \in DOMAIN d : f[k].in = d[k].in /\ f[k].by = d[k].by /\ f[k].to = d[k].to /\
        f[k].status = e[k].status /\ (k /= c.of => f[k] = e[k])
    BY <1>6, <2>5, <2>9
  <2>8. "active" \notin kept /\ "revoked" \in EntryStatuses
    BY <1>0, StatusesAre
  <2>. QED  BY <1>1, <1>3, <1>7, <2>5, <2>7, <2>8, EndsCredentials
<1>8. CASE c.of \notin DOMAIN d
  <2>1. T = {}
    BY <1>4, <1>8 DEF Of, Section, Credentials, PairingsInv
  <2>2. \A k \in DOMAIN d : e[k] = d[k]
    BY <1>6, <1>8, <2>1
  <2>3. DOMAIN f = DOMAIN d /\ \A k \in DOMAIN d : f[k] = d[k]
    BY <1>2, <1>6, <1>8, <2>2
  <2>4. Same(d, f, Told)
    BY <2>3 DEF Same
  <2>. QED  BY <1>3, <2>4, CredentialsStay
<1>. QED  BY <1>7, <1>8

\* Disconnecting a pairing keeps what is told of credentials.
LEMMA disconnect_connector_pairingCredentials ==
  ASSUME NEW d, NEW U, NEW c, Shaped(d, U), Credentials(d), c.of[1] = "pairing",
         disconnect_connector_pairing(d, c) /= Refused
  PROVE  Credentials(disconnect_connector_pairing(d, c))
<1>0. PICK kept : kept = {"superseded", "expired"}
  OBVIOUS
<1>1. PICK e : e = Ends(d, c.of, "disconnected", kept)
  OBVIOUS
<1>2. disconnect_connector_pairing(d, c) = e /\ c.of \in DOMAIN d
  BY <1>0, <1>1 DEF disconnect_connector_pairing, Live, Status
<1>3. "active" \notin kept /\ "disconnected" \in EntryStatuses
  BY <1>0, StatusesAre
<1>4. PICK T : T = {k \in Of(d, c.of) : d[k].status \notin kept}
  OBVIOUS
<1>5. e = Mark(d, {c.of} \cup T, "disconnected")
  BY <1>1, <1>4 DEF Ends
<1>6. DOMAIN e = DOMAIN d /\ \A k \in DOMAIN d : e[k].in = d[k].in /\ e[k].by = d[k].by /\ e[k].to = d[k].to
  <2>1. Entries(d)
    BY LinksAre
  <2>. QED  BY <1>3, <1>5, <2>1, Marked
<1>7. Credentials(e)
  BY <1>1, <1>2, <1>3, <1>6, EndsCredentials
<1>. QED  BY <1>2, <1>7

\* A pairing that waits is canceled with its credential and its request.
LEMMA cancel_connector_pairingCredentials ==
  ASSUME NEW d, NEW U, NEW c, Shaped(d, U), Credentials(d), c.of[1] = "pairing",
         cancel_connector_pairing(d, c) /= Refused
  PROVE  Credentials(cancel_connector_pairing(d, c))
<1>1. PICK K : K = {c.of} \cup {k \in Of(d, c.of) : d[k].status = "pending_activation"}
  OBVIOUS
<1>2. PICK R : R = {d[c.of].to} \cap DOMAIN d
  OBVIOUS
<1>3. PICK e : e = Mark(d, K, "canceled")
  OBVIOUS
<1>4. PICK f : f = Mark(e, R, "canceled")
  OBVIOUS
<1>5. cancel_connector_pairing(d, c) = f /\ c.of \in DOMAIN d /\ d[c.of].status = "pending_activation"
  BY <1>1, <1>2, <1>3, <1>4 DEF cancel_connector_pairing, Status
<1>6. PairingsInv(d) /\ Entries(d) /\ "canceled" \in EntryStatuses
  BY LinksAre, StatusesAre DEF Credentials
<1>7. /\ \A k \in K : k[1] = "pairing" => k = c.of
      /\ \A k \in K : k[1] \in {"pairing", "credential"} /\ d[k].status = "pending_activation"
      /\ c.of \in K
  BY <1>1, <1>5 DEF Of, Section
<1>8. \A r \in R : r = d[c.of].to /\ r[1] = "pairrequest" /\ d[r].status \in Spent
  BY <1>2, <1>5, <1>6, PairingLinks
<1>9. PICK S : S = {"pairing", "credential", "rotation", "pairrequest"}
  OBVIOUS
<1>10. Restated(d, e, S) /\ \A k \in DOMAIN d : e[k].status = IF k \in K THEN "canceled" ELSE d[k].status
  <2>1. Restated(d, d, S)
    BY <1>6, RestatedSelf
  <2>2. \A k \in K : k \in DOMAIN d => k[1] \in S
    BY <1>7, <1>9
  <2>. QED  BY <1>3, <1>6, <2>1, <2>2, RestatedMark
<1>11. Restated(d, f, S) /\ \A k \in DOMAIN d : f[k].status = IF k \in R THEN "canceled" ELSE e[k].status
  <2>2. \A k \in R : k \in DOMAIN d => k[1] \in S
    BY <1>8, <1>9
  <2>. QED  BY <1>4, <1>6, <1>10, <2>2, RestatedMark
<1>12. ASSUME NEW k \in DOMAIN d
       PROVE  f[k].status = IF k \in K \cup R THEN "canceled" ELSE d[k].status
  BY <1>10, <1>11
<1>13. ASSUME NEW k \in DOMAIN d, k[1] = "credential", f[k].status = "active"
       PROVE  d[k].status = "active" /\ (d[k].in \in DOMAIN d => f[d[k].in].status = "active")
  <2>1. d[k].status = "active" /\ d[k].in \in DOMAIN d /\ d[k].in[1] = "pairing" /\ d[d[k].in].status = "active"
    BY <1>6, <1>12, <1>13, PairingLinks DEF PairingsInv
  <2>2. d[k].in \notin K /\ d[k].in \notin R
    BY <1>7, <1>8, <2>1
  <2>. QED  BY <1>12, <2>1, <2>2
<1>14. ASSUME NEW q \in DOMAIN d, q[1] = "pairing", q /= c.of
       PROVE  /\ f[q].status = d[q].status
              /\ d[d[q].by].status = "active" => f[d[q].by].status = "active"
              /\ f[d[q].to].status = d[d[q].to].status
  <2>1. /\ d[q].by \in DOMAIN d /\ d[q].by[1] = "credential"
        /\ d[q].to \in DOMAIN d /\ d[q].to[1] = "pairrequest" /\ d[q].to /= d[c.of].to
    BY <1>5, <1>6, <1>14, PairingLinks DEF PairingsInv
  <2>2. q \notin K \cup R /\ d[q].to \notin K \cup R
    BY <1>7, <1>8, <1>14, <2>1
  <2>3. d[q].by \notin R /\ (d[d[q].by].status = "active" => d[q].by \notin K)
    BY <1>7, <1>8, <2>1
  <2>. QED  BY <1>12, <1>14, <2>1, <2>2, <2>3
<1>15. f[c.of].status = "canceled"
  BY <1>5, <1>7, <1>12
<1>16. ASSUME NEW r \in DOMAIN d, r[1] = "pairrequest"
       PROVE  f[r].status = d[r].status \/ (d[r].status \in Spent /\ f[r].status = "canceled")
  BY <1>7, <1>8, <1>12, <1>16
<1>17. Credentials(f)
  BY <1>9, <1>11, <1>13, <1>14, <1>15, <1>16, PairingsEnd
<1>. QED  BY <1>5, <1>17

\* Of what is told of, s has beside d nothing but workspaces of o.
Beside(d, s, o) ==
    \A k : k[1] \in Told => /\ k \in DOMAIN d => k \in DOMAIN s /\ s[k] = d[k]
                            /\ k \in DOMAIN s => k \in DOMAIN d \/ (k[1] = "workspace" /\ s[k].in = o)

\* A document differs from itself in nothing beside a company.
LEMMA BesideSelf ==
  ASSUME NEW d, NEW o
  PROVE  Beside(d, d, o)
BY DEF Beside

\* An entry of another section is no difference.
LEMMA BesidePut ==
  ASSUME NEW d, NEW s, NEW o, Beside(d, s, o), NEW i, i[1] \notin Told, NEW x
  PROVE  Beside(d, Put(s, i, x), o)
BY DEF Beside, Put

\* A workspace that an activation makes, with its project and its rooms.
LEMMA BesidePlaced ==
  ASSUME NEW d, NEW w, NEW o, NEW project, project[1] = "project", w \notin DOMAIN d, w[1] = "workspace"
  PROVE  Beside(d, _ensure_default_meeting_rooms(Put(Put(d, w, New("active", o)), project, New("active", w)), w), o)
<1>. DEFINE g0 == Put(Put(d, w, New("active", o)), project, New("active", w))
            r0 == _ensure_default_meeting_rooms(g0, w)
<1>1. PICK g : g = g0
  OBVIOUS
<1>2. PICK r : r = r0
  OBVIOUS
<1>3. PICK n : n = New("active", o)
  OBVIOUS
<1>4. n.in = o
  BY <1>3 DEF New
<1>5. \A k : k[1] \in Told => (k \in DOMAIN g <=> k \in DOMAIN d \/ k = w) /\
      (k \in DOMAIN g => g[k] = IF k = w THEN n ELSE d[k])
  BY <1>1, <1>3 DEF Put, Told
<1>6. \A k : k[1] \in Told => (k \in DOMAIN r <=> k \in DOMAIN g) /\ (k \in DOMAIN g => r[k] = g[k])
  <2>. DEFINE missing == {Room(w, z) : z \in _default_meeting_room_specs(g, w)} \ DOMAIN g
  <2>1. r = With(g, [k \in missing |-> New("active", w)])
    BY <1>1, <1>2 DEF _ensure_default_meeting_rooms
  <2>2. \A k \in missing : k[1] = "room"
    BY DEF Room
  <2>. HIDE DEF missing
  <2>. QED  BY <2>1, <2>2 DEF With, Told
<1>7. Beside(d, r, o)
  BY <1>4, <1>5, <1>6 DEF Beside
<1>. QED  BY <1>2, <1>7

\* A pairing comes alive with its credential in a company that is alive.
LEMMA activate_connector_pairingCredentials ==
  ASSUME NEW d, NEW U, NEW c, Shaped(d, U), Credentials(d), c.as[1] = "credential", c.of[1] = "pairing",
         activate_connector_pairing(d, c) /= Refused
  PROVE  Credentials(activate_connector_pairing(d, c))
<1>. DEFINE w0 == d[c.of].val[1]
            name0 == d[c.of].val[2]
            o0 == d[c.of].in
            project0 == <<"project", c.of[2]>>
            placed0 == IF d[c.of].val[3]
                       THEN _ensure_default_meeting_rooms(
                              Put(Put(d, w0, New("active", o0)), project0, New("active", w0)), w0)
                       ELSE d
            h0 == Put(Put(placed0, <<"identity", c.n>>, [New("active", o0) EXCEPT !.val = <<name0>>]),
                     <<"agent", name0>>, New("active", w0))
<1>1. PICK p : p = c.of
  OBVIOUS
<1>2. PICK k : k = c.as
  OBVIOUS
<1>3. PICK q : q = d[p].to
  OBVIOUS
<1>4. PICK o : o = d[p].in
  OBVIOUS
<1>5. PICK h : h = h0
  OBVIOUS
<1>6. PICK e : e = activate_connector_pairing(d, c)
  OBVIOUS
<1>7. /\ In(d, k) = p /\ Status(d, p) = "pending_activation" /\ d[k].status = "pending_activation"
      /\ \/ e = Mark(d, {p, k}, "expired")
         \/ /\ e = Mark(h, {p, k, q}, "active")
            /\ Live(d, o) /\ (d[p].val[3] => w0 \notin DOMAIN d)
  BY <1>1, <1>2, <1>3, <1>4, <1>5, <1>6 DEF activate_connector_pairing
<1>8. PairingsInv(d) /\ Entries(d) /\ Nobody \notin DOMAIN d
  BY LinksAre DEF Credentials
<1>9. p \in DOMAIN d /\ k \in DOMAIN d /\ p[1] = "pairing" /\ k[1] = "credential" /\ d[k].in = p
      /\ d[p].status = "pending_activation" /\ d[k].status = "pending_activation"
  <2>1. p \in DOMAIN d /\ p /= Nobody
    BY <1>7, <1>8 DEF Status
  <2>. QED  BY <1>1, <1>2, <1>7, <2>1 DEF In, Status
<1>10. d[p].by = k /\ q \in DOMAIN d /\ q[1] = "pairrequest" /\ d[q].status = "exchanged" /\ d[q].in = o
  BY <1>3, <1>4, <1>8, <1>9, PairingLinks DEF PairingsInv
<1>11. \A r \in DOMAIN d : r[1] = "pairing" /\ r /= p =>
      d[r].by /= k /\ d[r].to /= q /\ d[r].to \in DOMAIN d /\ d[r].by \in DOMAIN d
  BY <1>3, <1>8, <1>9, PairingLinks DEF PairingsInv
<1>12. \A j \in DOMAIN d : j[1] = "credential" /\ d[j].status = "active" =>
            d[j].in \in DOMAIN d /\ d[j].in[1] = "pairing" /\ d[d[j].in].status = "active" /\ d[d[j].in].by = j /\
                d[j].in /= p
  BY <1>8, <1>9, PairingLinks DEF PairingsInv
<1>13. \A r \in DOMAIN d : r[1] = "pairing" /\ d[r].status = "active" => d[d[r].by].status = "active"
  BY <1>8 DEF PairingsInv
<1>14. CASE e = Mark(d, {p, k}, "expired")
  <2>1. PICK S : S = {"pairing", "credential", "rotation", "pairrequest"}
    OBVIOUS
  <2>2. Restated(d, d, S)
    BY <1>8, RestatedSelf
  <2>3. PICK K : K = {p, k}
    OBVIOUS
  <2>4. \A j \in K : j[1] \in S
    BY <1>9, <2>1, <2>3
  <2>5. Restated(d, e, S) /\ \A j \in DOMAIN d : e[j].status = IF j \in K THEN "expired" ELSE d[j].status
    BY <1>14, <2>2, <2>3, <2>4, RestatedMark, StatusesAre
  <2>6. \A j \in DOMAIN d : e[j].status = IF j = p \/ j = k THEN "expired" ELSE d[j].status
    BY <2>3, <2>5
  <2>7. ASSUME NEW j \in DOMAIN d, j[1] = "credential", e[j].status = "active"
        PROVE  d[j].status = "active" /\ (d[j].in \in DOMAIN d => e[d[j].in].status = "active")
    BY <1>9, <1>12, <2>6, <2>7
  <2>8. ASSUME NEW r \in DOMAIN d, r[1] = "pairing", e[r].status = "active"
        PROVE  d[r].status = "active" /\ (d[d[r].by].status = "active" => e[d[r].by].status = "active")
    BY <1>9, <1>11, <2>6, <2>8
  <2>9. ASSUME NEW r \in DOMAIN d, r[1] = "pairing", e[r].status = "pending_activation"
        PROVE  d[r].status = "pending_activation" /\ (d[r].to \in DOMAIN d => e[d[r].to].status = d[d[r].to].status)
    <3>1. r /= p /\ r /= k /\ d[r].to[1] = "pairrequest"
      BY <1>8, <1>9, <2>6, <2>9, PairingLinks
    <3>. QED  BY <1>9, <2>6, <2>9, <3>1
  <2>10. \A r \in DOMAIN d : r[1] = "pairrequest" => e[r].status = d[r].status
    BY <1>9, <2>6
  <2>. QED  BY <1>6, <2>1, <2>5, <2>7, <2>8, <2>9, <2>10, PairingsEnd
<1>15. CASE /\ e = Mark(h, {p, k, q}, "active")
            /\ Live(d, o) /\ (d[p].val[3] => w0 \notin DOMAIN d)
  <2>1. /\ d[p].val[3] \in BOOLEAN /\ (d[p].val[3] => w0[1] = "workspace")
    <3>1. Sits(p, d[p], U)
      BY <1>9 DEF Shaped
    <3>. QED  BY <1>1, <1>9, <3>1 DEF Sits, Holding
  <2>2. Beside(d, h, o)
    <3>. HIDE DEF w0, name0
    <3>1. PICK w : w = w0
      OBVIOUS
    <3>2. PICK project : project = project0
      OBVIOUS
    <3>3. PICK s : s = placed0
      OBVIOUS
    <3>4. o = o0 /\ p = c.of /\ project[1] = "project"
      BY <1>1, <1>4, <3>2
    <3>5. PICK i : i = <<"identity", c.n>>
      OBVIOUS
    <3>6. PICK a : a = <<"agent", name0>>
      OBVIOUS
    <3>7. PICK x : x = [New("active", o0) EXCEPT !.val = <<name0>>]
      OBVIOUS
    <3>8. PICK y : y = New("active", w0)
      OBVIOUS
    <3>9. i[1] \notin Told /\ a[1] \notin Told
      BY <3>5, <3>6 DEF Told
    <3>10. h = Put(Put(s, i, x), a, y)
      BY <1>5, <3>3, <3>5, <3>6, <3>7, <3>8
    <3>11. Beside(d, s, o)
      <4>1. CASE d[p].val[3]
        <5>1. s = _ensure_default_meeting_rooms(Put(Put(d, w, New("active", o)), project, New("active", w)), w)
          BY <3>1, <3>2, <3>3, <3>4, <4>1
        <5>2. w \notin DOMAIN d /\ w[1] = "workspace"
          BY <1>15, <2>1, <3>1, <4>1
        <5>. QED  BY <3>4, <5>1, <5>2, BesidePlaced
      <4>2. CASE ~d[p].val[3]
        <5>1. s = d
          BY <3>3, <3>4, <4>2
        <5>. QED  BY <5>1, BesideSelf
      <4>. QED  BY <4>1, <4>2
    <3>12. PICK t : t = Put(s, i, x)
      OBVIOUS
    <3>13. Beside(d, t, o)
      BY <3>9, <3>11, <3>12, BesidePut
    <3>14. Beside(d, Put(t, a, y), o)
      BY <3>9, <3>13, BesidePut
    <3>. QED  BY <3>10, <3>12, <3>14
  <2>. HIDE DEF w0, name0, o0, project0, placed0, h0
  <2>20. \A j : j[1] \in Told =>
               /\ j \in DOMAIN d => j \in DOMAIN h /\ h[j] = d[j]
               /\ j \in DOMAIN h => j \in DOMAIN d \/ (j[1] = "workspace" /\ h[j].in = o)
    BY <2>2 DEF Beside
  <2>3. PICK K : K = {p, k, q}
    OBVIOUS
  <2>4. \A j \in K : j \in DOMAIN d /\ j \in DOMAIN h /\ h[j] = d[j] /\ j[1] \in Told
    BY <1>9, <1>10, <2>20, <2>3 DEF Told
  <2>5. DOMAIN e = DOMAIN h /\ \A j \in DOMAIN h : e[j] = IF j \in K THEN [h[j] EXCEPT !.status = "active"]
        ELSE h[j]
    BY <1>15, <2>3 DEF Mark
  <2>6. ASSUME NEW j \in K
        PROVE  e[j].status = "active" /\ e[j].in = d[j].in /\ e[j].by = d[j].by /\ e[j].to = d[j].to /\
            e[j].val = d[j].val
    <3>1. PICK z : z = d[j]
      OBVIOUS
    <3>2. IsEntry(z)
      BY <1>8, <2>4, <3>1 DEF Entries
    <3>3. e[j] = [z EXCEPT !.status = "active"]
      BY <2>4, <2>5, <3>1
    <3>4. e[j] = [status |-> "active", in |-> z.in, by |-> z.by, to |-> z.to, rev |-> z.rev, val |-> z.val]
      BY <3>2, <3>3, MarkedEntry
    <3>. QED  BY <3>1, <3>4
  <2>7. ASSUME NEW j, j[1] \in Told, j \in DOMAIN d
        PROVE  /\ j \in DOMAIN e /\ e[j].in = d[j].in /\ e[j].by = d[j].by /\ e[j].to = d[j].to /\
                  e[j].val = d[j].val
               /\ e[j].status = IF j = p \/ j = k \/ j = q THEN "active" ELSE d[j].status
               /\ j /= p /\ j /= k /\ j /= q => e[j] = d[j]
    <3>1. CASE j \in K
      BY <2>20, <2>3, <2>5, <2>6, <2>7, <3>1
    <3>2. CASE j \notin K
      BY <2>20, <2>3, <2>5, <2>7, <3>2
    <3>. QED  BY <3>1, <3>2
  <2>8. \A j : j[1] \in Told /\ j \in DOMAIN e => j \in DOMAIN d \/ (j[1] = "workspace" /\ e[j].in = o)
    BY <2>20, <2>4, <2>5
  <2>9. \A j : j[1] \in Told /\ j[1] /= "workspace" => (j \in DOMAIN d <=> j \in DOMAIN e)
    BY <2>7, <2>8
  <2>10. \A j : j[1] \in {"credential", "pairing", "rotation", "pairrequest"} =>
        j[1] \in Told /\ j[1] /= "workspace"
    BY DEF Told
  <2>11. PairingsInv(e)
    <3>1. \A r \in DOMAIN d : r[1] = "pairrequest" /\ d[r].status \in {"exchanged", "active", "canceled"} =>
            r \in DOMAIN e /\ e[r].in = d[r].in /\ e[r].status \in {"exchanged", "active", "canceled"}
      BY <2>7, <2>10
    <3>2. ASSUME NEW j \in DOMAIN d, j[1] = "credential", e[j].status = "active"
          PROVE  e[d[j].in].status = "active" /\ d[d[j].in].by = j
      <4>1. CASE j = k
        BY <1>9, <1>10, <2>7, <2>10, <4>1
      <4>2. CASE j /= k
        <5>1. j /= p /\ j /= q /\ d[j].status = "active"
          BY <1>9, <1>10, <2>7, <2>10, <3>2, <4>2
        <5>2. d[j].in \in DOMAIN d /\ d[j].in[1] = "pairing" /\ d[d[j].in].status = "active" /\ d[d[j].in].by = j
          BY <1>12, <3>2, <5>1
        <5>. QED  BY <2>7, <2>10, <5>2
      <4>. QED  BY <4>1, <4>2
    <3>3. ASSUME NEW r \in DOMAIN d, r[1] = "pairing"
          PROVE  /\ e[r].status = "active" => e[d[r].by].status = "active"
                 /\ e[r].status = "pending_activation" =>
                       d[r].status = "pending_activation" /\ e[d[r].to].status = d[d[r].to].status
      <4>1. CASE r = p
        BY <1>9, <1>10, <2>7, <2>10, <4>1
      <4>2. CASE r /= p
        <5>1. /\ r /= k /\ r /= q /\ d[r].by \in DOMAIN d /\ d[r].by[1] = "credential"
              /\ d[r].to \in DOMAIN d /\ d[r].to[1] = "pairrequest" /\ d[r].to /= q
          BY <1>8, <1>9, <1>10, <1>11, <3>3, <4>2, PairingLinks
        <5>2. e[r].status = d[r].status /\ e[d[r].to].status = d[d[r].to].status
          BY <1>9, <2>7, <2>10, <3>3, <4>2, <5>1
        <5>3. d[d[r].by].status = "active" => e[d[r].by].status = "active"
          BY <2>7, <2>10, <5>1
        <5>. QED  BY <1>13, <3>3, <5>2, <5>3
      <4>. QED  BY <4>1, <4>2
    <3>4. /\ \A j : j[1] \in {"credential", "pairing", "rotation"} => (j \in DOMAIN d <=> j \in DOMAIN e)
          /\ \A j \in DOMAIN d : j[1] \in {"credential", "pairing", "rotation"} =>
                e[j].in = d[j].in /\ e[j].by = d[j].by /\ e[j].to = d[j].to
      BY <2>7, <2>9, <2>10
    <3>. QED  BY <1>8, <3>1, <3>2, <3>3, <3>4, PairingsMarked
  <2>12. NamesInv(e)
    <3>1. ASSUME NEW r \in DOMAIN e, r[1] = "pairrequest", Claims(e[r])
          PROVE  r \in DOMAIN d /\ Claims(d[r]) /\ e[r].in = d[r].in /\ e[r].val[1] = d[r].val[1]
      <4>1. r \in DOMAIN d /\ e[r].in = d[r].in /\ e[r].val = d[r].val
            /\ e[r].status = IF r = p \/ r = k \/ r = q THEN "active" ELSE d[r].status
        BY <2>7, <2>9, <2>10, <3>1
      <4>2. r /= p /\ r /= k
        BY <1>9, <3>1
      <4>. QED  BY <1>10, <3>1, <4>1, <4>2 DEF Claims
    <3>. QED  BY <3>1, NamesStay DEF Credentials
  <2>13. \A j : j[1] \in Told /\ j[1] \notin Paired =>
        (j \in DOMAIN d <=> j \in DOMAIN e) /\ (j \in DOMAIN d => e[j] = d[j])
    BY <1>9, <1>10, <2>7, <2>9 DEF Paired
  <2>14. \A s \in DOMAIN d : s[1] = "company" /\ IsShut(d[s]) => o /= s
    BY <1>15 DEF Live, Status, IsShut
  <2>15. ASSUME NEW j \in DOMAIN e, j[1] \in {"pairing", "workspace"}, e[j].status = "active"
         PROVE  \/ j \in DOMAIN d /\ d[j].status = "active" /\ d[j].in = e[j].in
                \/ \A s \in DOMAIN d : s[1] = "company" /\ IsShut(d[s]) => e[j].in /= s
    <3>1. j[1] \in Told
      BY <2>15 DEF Told
    <3>2. CASE j = p \/ j \notin DOMAIN d
      BY <1>4, <1>9, <2>7, <2>8, <2>14, <3>1, <3>2
    <3>3. CASE j /= p /\ j \in DOMAIN d
      BY <1>9, <1>10, <2>7, <2>15, <3>1, <3>3
    <3>. QED  BY <3>2, <3>3
  <2>. QED  BY <1>6, <2>11, <2>12, <2>13, <2>15, ConnectorsChanged
<1>. QED  BY <1>7, <1>14, <1>15

\* A rotation brings another credential of its pairing, which waits.
LEMMA prepare_connector_rotationCredentials ==
  ASSUME NEW d, NEW U, NEW c, Shaped(d, U), Shaped(d, U \cup {c.n}), Credentials(d), c.of[1] = "pairing",
         prepare_connector_rotation(d, c) /= Refused
  PROVE  Credentials(prepare_connector_rotation(d, c))
<1>1. PICK p : p = c.of
  OBVIOUS
<1>2. PICK k : k = <<"credential", c.n>>
  OBVIOUS
<1>3. PICK r : r = <<"rotation", c.n>>
  OBVIOUS
<1>4. PICK y : y = New("pending_activation", p)
  OBVIOUS
<1>5. PICK x : x = [New("pending_activation", p) EXCEPT !.by = d[p].by, !.to = k, !.val = <<c.key>>]
  OBVIOUS
<1>6. PICK e : e = Put(Put(d, k, y), r, x)
  OBVIOUS
<1>7. prepare_connector_rotation(d, c) = e /\ Live(d, p)
  BY <1>1, <1>2, <1>3, <1>4, <1>5, <1>6 DEF prepare_connector_rotation
<1>8. /\ k[1] = "credential" /\ r[1] = "rotation" /\ k \notin DOMAIN d /\ r \notin DOMAIN d
      /\ y.status = "pending_activation" /\ y.in = p
      /\ x.in = p /\ x.by = d[p].by /\ x.to = k
  BY <1>2, <1>3, <1>4, <1>5, NewIsFresh DEF New
<1>9. p \in DOMAIN d /\ p[1] = "pairing" /\ d[p].status = "active"
  BY <1>1, <1>7 DEF Live, Status
<1>10. DOMAIN e = DOMAIN d \cup {k, r} /\ e[k] = y /\ e[r] = x /\ \A j \in DOMAIN d : e[j] = d[j]
  BY <1>6, <1>8 DEF Put
<1>11. PairingsInv(d)
  BY DEF Credentials
<1>12. \A j \in DOMAIN e : /\ j[1] = "credential" => j = k \/ j \in DOMAIN d
                           /\ j[1] = "pairing" => j \in DOMAIN d
                           /\ j[1] = "rotation" => j = r \/ j \in DOMAIN d
  BY <1>8, <1>10
<1>13. ASSUME NEW j \in DOMAIN e, j[1] = "credential"
       PROVE  /\ e[j].in \in DOMAIN e
              /\ e[j].status = "active" => e[e[j].in].status = "active" /\ e[e[j].in].by = j
  <2>1. CASE j = k
    BY <1>8, <1>9, <1>10, <2>1
  <2>2. CASE j /= k
    <3>1. j \in DOMAIN d /\ e[j] = d[j]
      BY <1>10, <1>12, <1>13, <2>2
    <3>2. d[j].in \in DOMAIN d /\ (d[j].status = "active" => d[d[j].in].status = "active" /\ d[d[j].in].by = j)
      BY <1>11, <1>13, <3>1 DEF PairingsInv
    <3>. QED  BY <1>10, <3>1, <3>2
  <2>. QED  BY <2>1, <2>2
<1>14. ASSUME NEW q \in DOMAIN e, q[1] = "pairing"
       PROVE  /\ e[q].by \in DOMAIN e /\ e[e[q].by].in = q
              /\ e[q].status = "active" => e[e[q].by].status = "active"
              /\ e[q].status = "pending_activation" =>
                    \A j \in DOMAIN e : j[1] = "credential" /\ e[j].in = q => j = e[q].by
              /\ e[q].to \in DOMAIN e /\ e[e[q].to].in = e[q].in
              /\ e[e[q].to].status \in {"exchanged", "active", "canceled"}
              /\ e[q].status = "pending_activation" => e[e[q].to].status = "exchanged"
  <2>1. q \in DOMAIN d /\ e[q] = d[q]
    BY <1>10, <1>12, <1>14
  <2>2. /\ d[q].by \in DOMAIN d /\ d[d[q].by].in = q
        /\ d[q].status = "active" => d[d[q].by].status = "active"
        /\ d[q].status = "pending_activation" =>
              \A j \in DOMAIN d : j[1] = "credential" /\ d[j].in = q => j = d[q].by
        /\ d[q].to \in DOMAIN d /\ d[d[q].to].in = d[q].in
        /\ d[d[q].to].status \in {"exchanged", "active", "canceled"}
        /\ d[q].status = "pending_activation" => d[d[q].to].status = "exchanged"
    BY <1>11, <1>14, <2>1 DEF PairingsInv
  <2>3. ASSUME e[q].status = "pending_activation", NEW j \in DOMAIN e, j[1] = "credential", e[j].in = q
        PROVE  j = e[q].by
    <3>1. j \in DOMAIN d /\ d[j].in = q
      BY <1>8, <1>9, <1>10, <1>12, <2>1, <2>3
    <3>. QED  BY <2>1, <2>2, <2>3, <3>1
  <2>. QED  BY <1>10, <2>1, <2>2, <2>3
<1>15. \A q, s \in DOMAIN e : q[1] = "pairing" /\ s[1] = "pairing" /\ e[q].to = e[s].to => q = s
  BY <1>10, <1>11, <1>12 DEF PairingsInv
<1>16. ASSUME NEW t \in DOMAIN e, t[1] = "rotation"
       PROVE  /\ e[t].in \in DOMAIN e
              /\ e[t].to \in DOMAIN e /\ e[e[t].to].in = e[t].in
              /\ e[t].by \in DOMAIN e /\ e[e[t].by].in = e[t].in
  <2>1. CASE t = r
    <3>1. d[p].by \in DOMAIN d /\ d[d[p].by].in = p
      BY <1>9, <1>11, PairingLinks
    <3>. QED  BY <1>8, <1>9, <1>10, <2>1, <3>1
  <2>2. CASE t /= r
    <3>1. t \in DOMAIN d /\ e[t] = d[t]
      BY <1>10, <1>12, <1>16, <2>2
    <3>2. /\ d[t].in \in DOMAIN d /\ d[t].to \in DOMAIN d /\ d[d[t].to].in = d[t].in
          /\ d[t].by \in DOMAIN d /\ d[d[t].by].in = d[t].in
      BY <1>11, <1>16, <3>1, PairingLinks
    <3>. QED  BY <1>10, <3>1, <3>2
  <2>. QED  BY <2>1, <2>2
<1>17. PairingsInv(e)
  BY <1>13, <1>14, <1>15, <1>16 DEF PairingsInv
<1>18. NamesInv(e)
  BY <1>8, <1>10, NamesStay DEF Credentials
<1>19. \A j : j[1] \in Told /\ j[1] \notin Paired =>
      (j \in DOMAIN d <=> j \in DOMAIN e) /\ (j \in DOMAIN d => e[j] = d[j])
  BY <1>8, <1>10 DEF Paired
<1>20. \A j \in DOMAIN e : j[1] \in {"pairing", "workspace"} => j \in DOMAIN d /\ e[j] = d[j]
  BY <1>8, <1>10
<1>21. Credentials(e)
  BY <1>17, <1>18, <1>19, <1>20, ConnectorsChanged
<1>. QED  BY <1>7, <1>21

\* A rotation's credential takes over from the one its pairing had.
LEMMA activate_connector_rotationCredentials ==
  ASSUME NEW d, NEW U, NEW c, Shaped(d, U), Credentials(d), c.as[1] = "credential", c.of[1] = "rotation",
         activate_connector_rotation(d, c) /= Refused
  PROVE  Credentials(activate_connector_rotation(d, c))
<1>1. PICK r : r = c.of
  OBVIOUS
<1>2. PICK k : k = c.as
  OBVIOUS
<1>3. PICK p : p = d[r].in
  OBVIOUS
<1>4. PICK b : b = d[r].by
  OBVIOUS
<1>5. PICK K : K = {r, k}
  OBVIOUS
<1>6. PICK f : f = Mark(d, K, "active")
  OBVIOUS
<1>7. PICK g : g = Mark(f, {b}, "superseded")
  OBVIOUS
<1>8. PICK e : e = activate_connector_rotation(d, c)
  OBVIOUS
<1>9. /\ Status(d, r) = "pending_activation" /\ d[r].to = k /\ Status(d, k) = "pending_activation"
      /\ \/ e = Mark(d, K, "expired")
         \/ e = [g EXCEPT ![p].by = k] /\ Live(d, b) /\ Live(d, p)
  BY <1>1, <1>2, <1>3, <1>4, <1>5, <1>6, <1>7, <1>8 DEF activate_connector_rotation
<1>10. PairingsInv(d) /\ Entries(d)
  BY LinksAre DEF Credentials
<1>11. /\ r \in DOMAIN d /\ k \in DOMAIN d /\ r[1] = "rotation" /\ k[1] = "credential"
       /\ d[r].status = "pending_activation" /\ d[k].status = "pending_activation"
       /\ p \in DOMAIN d /\ p[1] = "pairing" /\ d[k].in = p
       /\ b \in DOMAIN d /\ b[1] = "credential" /\ d[b].in = p
  <2>1. r \in DOMAIN d /\ k \in DOMAIN d /\ r[1] = "rotation" /\ k[1] = "credential"
        /\ d[r].status = "pending_activation" /\ d[k].status = "pending_activation"
    BY <1>1, <1>2, <1>9 DEF Status
  <2>. QED  BY <1>3, <1>4, <1>9, <1>10, <2>1, PairingLinks
<1>12. /\ \A j \in DOMAIN d : j[1] = "credential" =>
             /\ d[j].in \in DOMAIN d /\ d[j].in[1] = "pairing"
             /\ d[j].status = "active" => d[d[j].in].status = "active" /\ d[d[j].in].by = j
       /\ \A q \in DOMAIN d : q[1] = "pairing" =>
             /\ d[q].by \in DOMAIN d /\ d[q].by[1] = "credential" /\ d[d[q].by].in = q
             /\ d[q].to \in DOMAIN d /\ d[q].to[1] = "pairrequest" /\ d[d[q].to].in = d[q].in
             /\ d[d[q].to].status \in {"exchanged", "active", "canceled"}
             /\ d[q].status = "active" => d[d[q].by].status = "active"
             /\ d[q].status = "pending_activation" => d[d[q].to].status = "exchanged"
  BY <1>10, PairingLinks DEF PairingsInv, Spent
<1>13. CASE e = Mark(d, K, "expired")
  <2>1. PICK S : S = {"pairing", "credential", "rotation", "pairrequest"}
    OBVIOUS
  <2>2. Restated(d, d, S)
    BY <1>10, RestatedSelf
  <2>4. \A j \in K : j[1] \in S
    BY <1>5, <1>11, <2>1
  <2>5. Restated(d, e, S) /\ \A j \in DOMAIN d : e[j].status = IF j \in K THEN "expired" ELSE d[j].status
    BY <1>13, <2>2, <2>4, RestatedMark, StatusesAre
  <2>6. \A j \in DOMAIN d : e[j].status = IF j = r \/ j = k THEN "expired" ELSE d[j].status
    BY <1>5, <2>5
  <2>7. ASSUME NEW j \in DOMAIN d, j[1] = "credential", e[j].status = "active"
        PROVE  d[j].status = "active" /\ (d[j].in \in DOMAIN d => e[d[j].in].status = "active")
    <3>1. j /= r /\ j /= k /\ d[j].status = "active"
      BY <2>6, <2>7
    <3>2. d[j].in \in DOMAIN d /\ d[j].in[1] = "pairing" /\ d[d[j].in].status = "active"
      BY <1>12, <2>7, <3>1
    <3>. QED  BY <1>11, <2>6, <3>1, <3>2
  <2>8. ASSUME NEW q \in DOMAIN d, q[1] = "pairing"
        PROVE  /\ e[q].status = d[q].status
               /\ d[d[q].by].status = "active" => e[d[q].by].status = "active"
               /\ e[d[q].to].status = d[d[q].to].status
    <3>1. q /= r /\ q /= k /\ d[q].to /= r /\ d[q].to /= k /\ d[q].by /= r
      BY <1>11, <1>12, <2>8
    <3>2. d[q].by \in DOMAIN d /\ d[q].to \in DOMAIN d
      BY <1>12, <2>8
    <3>. QED  BY <1>11, <2>6, <2>8, <3>1, <3>2
  <2>10. \A q \in DOMAIN d : q[1] = "pairrequest" => e[q].status = d[q].status
    BY <1>11, <2>6
  <2>. QED  BY <1>8, <2>1, <2>5, <2>7, <2>8, <2>10, PairingsEnd
<1>14. CASE e = [g EXCEPT ![p].by = k] /\ Live(d, b) /\ Live(d, p)
  <2>1. d[b].status = "active" /\ d[p].status = "active" /\ d[p].by = b /\ b /= k
    BY <1>11, <1>12, <1>14 DEF Live, Status
  <2>2. DOMAIN f = DOMAIN d /\ Entries(f)
        /\ \A j \in DOMAIN d : /\ f[j].status = IF j \in K THEN "active" ELSE d[j].status
                               /\ f[j].in = d[j].in /\ f[j].by = d[j].by /\ f[j].to = d[j].to
                               /\ j \notin K => f[j] = d[j]
    BY <1>6, <1>10, Marked, StatusesAre
  <2>3. PICK B : B = {b}
    OBVIOUS
  <2>4. DOMAIN g = DOMAIN d /\ Entries(g)
        /\ \A j \in DOMAIN d : /\ g[j].status = IF j \in B THEN "superseded" ELSE f[j].status
                               /\ g[j].in = f[j].in /\ g[j].by = f[j].by /\ g[j].to = f[j].to
                               /\ j \notin B => g[j] = f[j]
    <3>1. g = Mark(f, B, "superseded")
      BY <1>7, <2>3
    <3>. QED  BY <2>2, <3>1, Marked, StatusesAre
  <2>5. ASSUME NEW j \in DOMAIN d
        PROVE  /\ g[j].status = IF j = b THEN "superseded" ELSE IF j = r \/ j = k THEN "active" ELSE d[j].status
               /\ g[j].in = d[j].in /\ g[j].by = d[j].by /\ g[j].to = d[j].to
               /\ j /= b /\ j /= r /\ j /= k => g[j] = d[j]
    BY <1>5, <2>2, <2>3, <2>4
  <2>6. PICK z : z = d[p]
    OBVIOUS
  <2>7. IsEntry(z) /\ g[p] = z
    <3>1. p /= b /\ p /= r /\ p /= k
      BY <1>11
    <3>. QED  BY <1>10, <1>11, <2>5, <2>6, <3>1 DEF Entries
  <2>8. /\ DOMAIN e = DOMAIN d /\ \A j \in DOMAIN d : j /= p => e[j] = g[j]
        /\ e[p] = [z EXCEPT !.by = k]
    BY <1>11, <1>14, <2>4, <2>7
  <2>9. e[p].status = "active" /\ e[p].in = d[p].in /\ e[p].by = k /\ e[p].to = d[p].to
    BY <2>1, <2>6, <2>7, <2>8 DEF IsEntry
  <2>10. ASSUME NEW j \in DOMAIN d
         PROVE  /\ e[j].status = IF j = b THEN "superseded" ELSE IF j = r \/ j = k THEN "active" ELSE d[j].status
                /\ e[j].in = d[j].in /\ e[j].to = d[j].to /\ e[j].by = IF j = p THEN k ELSE d[j].by
                /\ j /= b /\ j /= r /\ j /= k /\ j /= p => e[j] = d[j]
    <3>1. CASE j = p
      BY <1>11, <2>1, <2>9, <3>1
    <3>2. CASE j /= p
      BY <2>5, <2>8, <3>2
    <3>. QED  BY <3>1, <3>2
  <2>11. ASSUME NEW j \in DOMAIN e, j[1] = "credential"
         PROVE  /\ e[j].in \in DOMAIN e
                /\ e[j].status = "active" => e[e[j].in].status = "active" /\ e[e[j].in].by = j
    <3>1. j \in DOMAIN d /\ e[j].in = d[j].in /\ d[j].in \in DOMAIN d
      BY <1>12, <2>8, <2>10, <2>11
    <3>2. ASSUME e[j].status = "active" PROVE e[d[j].in].status = "active" /\ e[d[j].in].by = j
      <4>1. CASE j = k
        BY <1>11, <2>9, <4>1
      <4>2. CASE j /= k
        <5>1. j /= b /\ d[j].status = "active"
          BY <1>11, <2>10, <2>11, <3>1, <3>2, <4>2
        <5>2. d[d[j].in].status = "active" /\ d[d[j].in].by = j /\ d[j].in[1] = "pairing"
          BY <1>12, <2>11, <3>1, <5>1
        <5>3. d[j].in /= p
          BY <2>1, <5>1, <5>2
        <5>. QED  BY <1>11, <2>10, <3>1, <5>2, <5>3
      <4>. QED  BY <4>1, <4>2
    <3>. QED  BY <2>8, <3>1, <3>2
  <2>12. ASSUME NEW q \in DOMAIN e, q[1] = "pairing"
         PROVE  /\ e[q].by \in DOMAIN e /\ e[e[q].by].in = q
                /\ e[q].status = "active" => e[e[q].by].status = "active"
                /\ e[q].status = "pending_activation" =>
                      \A j \in DOMAIN e : j[1] = "credential" /\ e[j].in = q => j = e[q].by
                /\ e[q].to \in DOMAIN e /\ e[e[q].to].in = e[q].in
                /\ e[e[q].to].status \in {"exchanged", "active", "canceled"}
                /\ e[q].status = "pending_activation" => e[e[q].to].status = "exchanged"
    <3>1. q \in DOMAIN d
      BY <2>8, <2>12
    <3>2. /\ d[q].by \in DOMAIN d /\ d[q].by[1] = "credential" /\ d[d[q].by].in = q
          /\ d[q].to \in DOMAIN d /\ d[q].to[1] = "pairrequest" /\ d[d[q].to].in = d[q].in
          /\ d[d[q].to].status \in {"exchanged", "active", "canceled"}
          /\ d[q].status = "active" => d[d[q].by].status = "active"
          /\ d[q].status = "pending_activation" => d[d[q].to].status = "exchanged"
      BY <1>12, <2>12, <3>1
    <3>3. e[d[q].to] = d[d[q].to]
      BY <1>11, <2>10, <3>2
    <3>4. CASE q = p
      BY <1>11, <2>1, <2>8, <2>9, <2>10, <3>2, <3>3, <3>4
    <3>5. CASE q /= p
      <4>1. e[q] = d[q]
        BY <1>11, <2>10, <2>12, <3>1, <3>5
      <4>2. d[q].by /= b /\ d[q].by /= k
        BY <1>11, <3>2, <3>5
      <4>3. e[d[q].by].status = d[d[q].by].status /\ e[d[q].by].in = q
        BY <1>11, <2>10, <3>2, <4>2
      <4>4. ASSUME d[q].status = "pending_activation", NEW j \in DOMAIN e, j[1] = "credential", e[j].in = q
            PROVE  j = d[q].by
        <5>1. j \in DOMAIN d /\ d[j].in = q
          BY <2>8, <2>10, <4>4
        <5>. QED  BY <1>10, <2>12, <3>1, <4>4, <5>1 DEF PairingsInv
      <4>. QED  BY <2>8, <3>2, <3>3, <4>1, <4>3, <4>4
    <3>. QED  BY <3>4, <3>5
  <2>13. \A q, s \in DOMAIN e : q[1] = "pairing" /\ s[1] = "pairing" /\ e[q].to = e[s].to => q = s
    BY <1>10, <2>8, <2>10 DEF PairingsInv
  <2>14. ASSUME NEW t \in DOMAIN e, t[1] = "rotation"
         PROVE  /\ e[t].in \in DOMAIN e
                /\ e[t].to \in DOMAIN e /\ e[e[t].to].in = e[t].in
                /\ e[t].by \in DOMAIN e /\ e[e[t].by].in = e[t].in
    <3>1. t \in DOMAIN d /\ e[t].in = d[t].in /\ e[t].to = d[t].to /\ e[t].by = d[t].by
      BY <1>11, <2>8, <2>10, <2>14
    <3>2. /\ d[t].in \in DOMAIN d /\ d[t].to \in DOMAIN d /\ d[d[t].to].in = d[t].in
          /\ d[t].by \in DOMAIN d /\ d[d[t].by].in = d[t].in
      BY <1>10, <2>14, <3>1, PairingLinks
    <3>. QED  BY <2>8, <2>10, <3>1, <3>2
  <2>15. PairingsInv(e)
    BY <2>11, <2>12, <2>13, <2>14 DEF PairingsInv
  <2>16. \A j \in DOMAIN d : j[1] \notin {"credential", "pairing", "rotation"} => e[j] = d[j]
    BY <1>11, <2>10
  <2>17. NamesInv(e)
    BY <2>8, <2>16, NamesStay DEF Credentials
  <2>18. \A j : j[1] \in Told /\ j[1] \notin Paired =>
        (j \in DOMAIN d <=> j \in DOMAIN e) /\ (j \in DOMAIN d => e[j] = d[j])
    BY <2>8, <2>16 DEF Paired
  <2>19. \A j \in DOMAIN e : j[1] \in {"pairing", "workspace"} =>
        j \in DOMAIN d /\ e[j].status = d[j].status /\ e[j].in = d[j].in
    BY <1>11, <2>8, <2>10
  <2>20. Credentials(e)
    BY <2>15, <2>17, <2>18, <2>19, ConnectorsChanged
  <2>. QED  BY <1>8, <2>20
<1>. QED  BY <1>9, <1>13, <1>14

---------------------------------------------------------------------------
(* A company's life. *)

\* Companies and workspaces may get other statuses and values when no company is shut by it
\* and no workspace comes alive in a shut one.
LEMMA CompanyChanged ==
  ASSUME NEW d, NEW U, Shaped(d, U), Credentials(d), NEW e, DOMAIN e = DOMAIN d,
         \A k \in DOMAIN d : k[1] \in Told /\ k[1] \notin {"company", "workspace"} => e[k] = d[k],
         \A o \in DOMAIN d : o[1] = "company" /\ IsShut(e[o]) => IsShut(d[o]),
         \A w \in DOMAIN d : w[1] = "workspace" /\ e[w].status = "active" =>
            /\ e[w].in = d[w].in
            /\ \/ d[w].status = "active"
               \/ \A o \in DOMAIN d : o[1] = "company" /\ IsShut(d[o]) => d[w].in /= o
  PROVE  Credentials(e)
<1>1. \A k : k \in DOMAIN d <=> k \in DOMAIN e
  OBVIOUS
<1>2. TokensInv(e) /\ ProofsInv(e) /\ InvitesInv(e) /\ PairingsInv(e) /\ NamesInv(e)
  <2>1. PICK X : X = {"company", "workspace"}
    OBVIOUS
  <2>2. X \cap {"token", "grant"} = {} /\ X \cap {"proof", "authority"} = {} /\ X \cap {"invite", "request"} = {} /\
        X \cap {"pairing", "credential", "rotation", "pairrequest"} = {} /\ X \cap {"pairrequest"} = {}
    BY <2>1
  <2>3. Same(d, e, Told \ X)
    BY <2>1 DEF Same
  <2>. QED  BY <2>2, <2>3, OthersStay
<1>3. MastersInv(e)
  <2>1. \A k \in DOMAIN d : k[1] = "master" => e[k] = d[k]
    BY DEF Told
  <2>. QED  BY <1>1, <2>1, MastersStay DEF Credentials
<1>4. ShutInv(e)
  <2>1. ASSUME NEW o \in DOMAIN d, o[1] = "company", IsShut(d[o]), NEW j \in DOMAIN e, Opens(e, j, o)
        PROVE  j \in DOMAIN d /\ Opens(d, j, o)
    <3>1. CASE j[1] = "workspace"
      <4>1. e[j].status = "active" /\ e[j].in = o /\ e[j].in = d[j].in
        BY <2>1, <3>1 DEF Opens
      <4>2. d[j].status = "active"
        BY <2>1, <3>1, <4>1
      <4>. QED  BY <2>1, <3>1, <4>1, <4>2 DEF Opens
    <3>2. CASE j[1] /= "workspace"
      <4>1. j[1] \in {"master", "invite", "token", "pairing"}
        BY <2>1, <3>2 DEF Opens
      <4>2. j \in DOMAIN d /\ e[j] = d[j] /\ \A q \in DOMAIN d : q[1] = "grant" => e[q].in = d[q].in
        BY <4>1 DEF Told
      <4>. QED  BY <2>1, <4>2, OpensSame DEF Credentials
    <3>. QED  BY <3>1, <3>2
  <2>. QED  BY <1>1, <2>1, ShutStays DEF Credentials
<1>. QED  BY <1>2, <1>3, <1>4 DEF Credentials

\* The scopes of a company are its own, of workspaces and of projects.
LEMMA ScopesAre ==
  ASSUME NEW d, NEW U, Shaped(d, U), NEW o, o[1] = "company"
  PROVE  /\ o \in Scopes(d, o)
         /\ \A k \in Scopes(d, o) : k = o \/ (k \in DOMAIN d /\ k[1] \in {"workspace", "project"})
         /\ \A w \in DOMAIN d : w[1] = "workspace" => (w \in Scopes(d, o) <=> d[w].in = o)
<1>1. \A w \in DOMAIN d : w[1] = "workspace" => (o \in Ancestors(d, w) <=> d[w].in = o)
  BY InsideIs
<1>. QED  BY <1>1 DEF Scopes, Within, Section

\* The value a company keeps beside its setting.
LEMMA CompanyValues ==
  ASSUME NEW d, NEW U, Shaped(d, U), NEW o \in DOMAIN d, o[1] = "company"
  PROVE  d[o].val = <<d[o].val[1], d[o].val[2]>> /\ d[o].val[2] \in EntryStatuses
BY DEF Shaped, Sits, Holding

\* An entry with another value.
LEMMA Valued ==
  ASSUME NEW e, NEW o \in DOMAIN e, IsEntry(e[o]), NEW v
  PROVE  LET f == [e EXCEPT ![o].val = v]
         IN /\ DOMAIN f = DOMAIN e /\ \A k \in DOMAIN e : k /= o => f[k] = e[k]
            /\ f[o].status = e[o].status /\ f[o].val = v
<1>1. PICK z : z = e[o]
  OBVIOUS
<1>2. PICK y : y = [z EXCEPT !.val = v]
  OBVIOUS
<1>3. z = [status |-> z.status, in |-> z.in, by |-> z.by, to |-> z.to, rev |-> z.rev, val |-> z.val]
  BY <1>1 DEF IsEntry
<1>4. y.status = z.status /\ y.val = v
  BY <1>2, <1>3
<1>5. PICK f : f = [e EXCEPT ![o].val = v]
  OBVIOUS
<1>6. DOMAIN f = DOMAIN e /\ f[o] = y /\ \A k \in DOMAIN e : k /= o => f[k] = e[k]
  BY <1>1, <1>2, <1>5
<1>. QED  BY <1>1, <1>4, <1>5, <1>6

\* A setting of a company shuts nothing.
LEMMA set_human_top_level_agent_master_credential_settingCredentials ==
  ASSUME NEW d, NEW U, NEW c, Shaped(d, U), Credentials(d), c.of[1] = "company",
         set_human_top_level_agent_master_credential_setting(d, c) /= Refused
  PROVE  Credentials(set_human_top_level_agent_master_credential_setting(d, c))
<1>1. PICK v : v = <<c.how, d[c.of].val[2]>>
  OBVIOUS
<1>2. PICK e : e = [d EXCEPT ![c.of].val = v]
  OBVIOUS
<1>3. set_human_top_level_agent_master_credential_setting(d, c) = e /\ c.of \in DOMAIN d
  BY <1>1, <1>2 DEF set_human_top_level_agent_master_credential_setting
<1>4. v[2] = d[c.of].val[2]
  BY <1>1
<1>5. /\ DOMAIN e = DOMAIN d /\ \A k \in DOMAIN d : k /= c.of => e[k] = d[k]
      /\ e[c.of].status = d[c.of].status /\ e[c.of].val = v
  <2>1. PICK o : o = c.of
    OBVIOUS
  <2>2. o \in DOMAIN d /\ IsEntry(d[o]) /\ e = [d EXCEPT ![o].val = v]
    BY <1>2, <1>3, <2>1, LinksAre DEF Entries
  <2>3. PICK z : z = d
    OBVIOUS
  <2>4. o \in DOMAIN z /\ IsEntry(z[o]) /\ e = [z EXCEPT ![o].val = v]
    BY <2>2, <2>3
  <2>5. /\ DOMAIN e = DOMAIN z /\ \A k \in DOMAIN z : k /= o => e[k] = z[k]
        /\ e[o].status = z[o].status /\ e[o].val = v
    BY <2>4, Valued
  <2>. QED  BY <2>1, <2>3, <2>5
<1>6. IsShut(e[c.of]) => IsShut(d[c.of])
  BY <1>4, <1>5 DEF IsShut
<1>7. Credentials(e)
  BY <1>5, <1>6, CompanyChanged
<1>. QED  BY <1>3, <1>7

\* A company that is deleted for a while is shut when it was.
LEMMA soft_delete_companyCredentials ==
  ASSUME NEW d, NEW U, NEW c, Shaped(d, U), Credentials(d), NEW V, Shaped(c.seen[1], V), c.of[1] = "intent",
         soft_delete_company(d, c) /= Refused
  PROVE  Credentials(soft_delete_company(d, c))
<1>. DEFINE o0 == ManagedCompany(c.seen[1], c.as)
<1>1. PICK o : o = o0
  OBVIOUS
<1>2. PICK f : f = Mark(d, Scopes(d, o), "soft_deleted")
  OBVIOUS
<1>3. PICK K : K = {c.of}
  OBVIOUS
<1>4. PICK g : g = Mark(f, K, "consumed")
  OBVIOUS
<1>5. PICK v : v = <<g[o].val[1], d[o].status>>
  OBVIOUS
<1>6. PICK e : e = [g EXCEPT ![o].val = v]
  OBVIOUS
<1>7. /\ soft_delete_company(d, c) = e
      /\ _management_human_session(c.seen[1], Then(c)) /\ o \in DOMAIN d
  BY <1>1, <1>2, <1>3, <1>4, <1>5, <1>6 DEF soft_delete_company
<1>8. o[1] = "company"
  <2>1. c.as \in DOMAIN c.seen[1] /\ c.as[1] = "session"
    BY <1>7, ManagementIs
  <2>2. Root(o) /\ o /= Nobody
    BY <1>1, <1>7, <2>1, ManagedIs, ShapeIs
  <2>. QED  BY <2>2 DEF Root, Level
<1>9. Entries(d) /\ "soft_deleted" \in EntryStatuses /\ "consumed" \in EntryStatuses
  BY LinksAre, StatusesAre
<1>10. DOMAIN f = DOMAIN d /\ Entries(f)
       /\ \A k \in DOMAIN d : /\ f[k].status = IF k \in Scopes(d, o) THEN "soft_deleted" ELSE d[k].status
                              /\ f[k].in = d[k].in /\ (k \notin Scopes(d, o) => f[k] = d[k])
  BY <1>2, <1>9, Marked
<1>11. DOMAIN g = DOMAIN d /\ Entries(g)
       /\ \A k \in DOMAIN d : /\ g[k].status = IF k \in K THEN "consumed" ELSE f[k].status
                              /\ g[k].in = f[k].in /\ (k \notin K => g[k] = f[k])
  BY <1>4, <1>9, <1>10, Marked
<1>12. /\ DOMAIN e = DOMAIN d /\ \A k \in DOMAIN d : k /= o => e[k] = g[k]
       /\ e[o].status = g[o].status /\ e[o].val = v
  BY <1>6, <1>7, <1>11, Valued DEF Entries
<1>13. ASSUME NEW k \in DOMAIN d, k[1] \in Told, k /= o
       PROVE  e[k] = f[k]
  BY <1>3, <1>11, <1>12, <1>13 DEF Told
<1>14. \A k \in DOMAIN d : k[1] \in Told /\ k[1] \notin {"company", "workspace"} => e[k] = d[k]
  BY <1>8, <1>10, <1>13, ScopesAre DEF Told
<1>15. \A k \in DOMAIN d : k[1] = "company" /\ k /= o => e[k] = d[k]
  BY <1>8, <1>10, <1>13, ScopesAre DEF Told
<1>16. IsShut(e[o]) => IsShut(d[o])
  <2>1. e[o].status = "soft_deleted"
    BY <1>3, <1>7, <1>8, <1>10, <1>11, <1>12, ScopesAre
  <2>2. e[o].val[2] = d[o].status
    BY <1>5, <1>12
  <2>. QED  BY <2>1, <2>2 DEF IsShut
<1>17. \A w \in DOMAIN d : w[1] = "workspace" /\ e[w].status = "active" =>
      e[w].in = d[w].in /\ d[w].status = "active"
  BY <1>8, <1>10, <1>13 DEF Told
<1>18. Credentials(e)
  BY <1>12, <1>14, <1>15, <1>16, <1>17, CompanyChanged
<1>. QED  BY <1>7, <1>18

\* A company that is restored is shut again when it was, and opens nothing then.
LEMMA restore_companyCredentials ==
  ASSUME NEW d, NEW U, NEW c, Shaped(d, U), Credentials(d), NEW V, Shaped(c.seen[1], V),
         restore_company(d, c) /= Refused
  PROVE  Credentials(restore_company(d, c))
<1>. DEFINE o0 == ManagedCompany(c.seen[1], c.as)
<1>1. PICK o : o = o0
  OBVIOUS
<1>2. PICK prior : prior = IF d[o].val[2] = "none" THEN "active" ELSE d[o].val[2]
  OBVIOUS
<1>3. PICK f : f = Mark(d, Scopes(d, o), prior)
  OBVIOUS
<1>4. PICK v : v = <<f[o].val[1], "none">>
  OBVIOUS
<1>5. PICK e : e = [f EXCEPT ![o].val = v]
  OBVIOUS
<1>6. /\ restore_company(d, c) = e
      /\ _management_human_session(c.seen[1], Then(c)) /\ Status(d, o) = "soft_deleted"
  BY <1>1, <1>2, <1>3, <1>4, <1>5 DEF restore_company
<1>7. o \in DOMAIN d /\ d[o].status = "soft_deleted"
  BY <1>6 DEF Status
<1>8. o[1] = "company"
  <2>1. c.as \in DOMAIN c.seen[1] /\ c.as[1] = "session"
    BY <1>6, ManagementIs
  <2>2. Root(o) /\ o /= Nobody
    BY <1>1, <1>7, <2>1, ManagedIs, ShapeIs
  <2>. QED  BY <2>2 DEF Root, Level
<1>9. Entries(d) /\ prior \in EntryStatuses
  BY <1>2, <1>7, <1>8, LinksAre, CompanyValues, StatusesAre
<1>10. DOMAIN f = DOMAIN d /\ Entries(f)
       /\ \A k \in DOMAIN d : /\ f[k].status = IF k \in Scopes(d, o) THEN prior ELSE d[k].status
                              /\ f[k].in = d[k].in /\ (k \notin Scopes(d, o) => f[k] = d[k])
  BY <1>3, <1>9, Marked
<1>11. /\ DOMAIN e = DOMAIN d /\ \A k \in DOMAIN d : k /= o => e[k] = f[k]
       /\ e[o].status = f[o].status /\ e[o].val = v
  BY <1>5, <1>7, <1>10, Valued DEF Entries
<1>12. \A k \in DOMAIN d : k[1] \in Told /\ k[1] \notin {"company", "workspace"} => e[k] = d[k]
  BY <1>8, <1>10, <1>11, ScopesAre DEF Told
<1>13. \A k \in DOMAIN d : k[1] = "company" /\ k /= o => e[k] = d[k]
  BY <1>8, <1>10, <1>11, ScopesAre
<1>14. IsShut(e[o]) => IsShut(d[o])
  <2>1. e[o].status = prior /\ e[o].val[2] = "none"
    BY <1>4, <1>7, <1>8, <1>10, <1>11, ScopesAre
  <2>2. IsShut(e[o]) => prior = "closed"
    BY <2>1 DEF IsShut
  <2>. QED  BY <1>2, <1>7, <2>2 DEF IsShut
<1>15. prior = "active" => ~IsShut(d[o])
  BY <1>2, <1>7 DEF IsShut
<1>16. ASSUME NEW w \in DOMAIN d, w[1] = "workspace", e[w].status = "active"
       PROVE  /\ e[w].in = d[w].in
              /\ \/ d[w].status = "active"
                 \/ \A s \in DOMAIN d : s[1] = "company" /\ IsShut(d[s]) => d[w].in /= s
  <2>1. e[w] = f[w]
    BY <1>8, <1>11, <1>16
  <2>2. CASE w \in Scopes(d, o)
    <3>1. d[w].in = o /\ prior = "active"
      BY <1>8, <1>10, <1>16, <2>1, <2>2, ScopesAre
    <3>. QED  BY <1>10, <1>15, <2>1, <3>1
  <2>3. CASE w \notin Scopes(d, o)
    BY <1>10, <1>16, <2>1, <2>3
  <2>. QED  BY <2>2, <2>3
<1>17. Credentials(e)
  BY <1>11, <1>12, <1>13, <1>14, <1>16, CompanyChanged
<1>. QED  BY <1>6, <1>17

\* What ends with a company, section by section.
LEMMA EndsAre ==
  ASSUME NEW d, NEW U, Shaped(d, U), TokensInv(d), PairingsInv(d), NEW o, o[1] = "company"
  PROVE  LET E == EndsAtClosure(d, o)
         IN /\ \A k \in E : k[1] \in {"master", "grant", "token", "invite", "pairing", "credential"}
            /\ \A k \in DOMAIN d : k[1] = "master" => (k \in E <=> d[k].in = o /\ d[k].status = "active")
            /\ \A k \in DOMAIN d : k[1] = "grant" => (k \in E <=> d[k].in = o)
            /\ \A k \in DOMAIN d : k[1] = "token" => (k \in E <=> d[d[k].in].in = o /\ d[k].status = "active")
            /\ \A k \in DOMAIN d : k[1] = "invite" => (k \in E <=> d[k].in = o /\ d[k].status = "issued")
            /\ \A k \in DOMAIN d : k[1] = "pairing" => (k \in E <=> d[k].in = o /\ d[k].status \notin EndedPairings)
            /\ \A k \in DOMAIN d : k[1] = "credential" =>
                  (k \in E <=> d[d[k].in].in = o /\ d[k].status \notin {"revoked", "superseded", "expired"})
<1>1. PICK E : E = EndsAtClosure(d, o)
  OBVIOUS
<1>2. /\ \A k \in DOMAIN d : k[1] \in {"master", "grant", "pairing", "invite"} =>
         (o \in Ancestors(d, k) <=> d[k].in = o)
      /\ \A k \in DOMAIN d : k[1] \in {"token", "credential"} => d[k].in \in DOMAIN d
      /\ \A k \in DOMAIN d : k[1] \in {"token", "credential"} => (o \in Ancestors(d, k) <=> d[d[k].in].in = o)
  BY InsideIs DEF TokensInv, PairingsInv
<1>3. \A k : k \in E <=>
        /\ k \in DOMAIN d /\ o \in Ancestors(d, k)
        /\ \/ k[1] = "master" /\ d[k].status = "active"
           \/ k[1] = "grant"
           \/ k[1] = "token" /\ d[k].status = "active"
           \/ k[1] = "invite" /\ d[k].status = "issued"
           \/ k[1] = "pairing" /\ d[k].status \notin EndedPairings
           \/ k[1] = "credential" /\ d[k].status \notin {"revoked", "superseded", "expired"}
  BY <1>1 DEF EndsAtClosure, Within, Section
<1>. QED  BY <1>1, <1>2, <1>3

\* A company that is closed has nothing left that is open.
LEMMA close_companyCredentials ==
  ASSUME NEW d, NEW U, NEW c, Shaped(d, U), Credentials(d), NEW V, Shaped(c.seen[1], V), c.of[1] = "intent",
         close_company(d, c) /= Refused
  PROVE  Credentials(close_company(d, c))
<1>. DEFINE o0 == ManagedCompany(c.seen[1], c.as)
<1>1. PICK o : o = o0
  OBVIOUS
<1>2. PICK E : E = EndsAtClosure(d, o)
  OBVIOUS
<1>3. PICK f : f = Mark(d, E, "revoked")
  OBVIOUS
<1>4. PICK S : S = Scopes(d, o)
  OBVIOUS
<1>5. PICK g : g = Mark(f, S, "closed")
  OBVIOUS
<1>6. PICK K : K = {c.of}
  OBVIOUS
<1>7. PICK e : e = Mark(g, K, "consumed")
  OBVIOUS
<1>8. close_company(d, c) = e /\ MayClose(c) /\ o \in DOMAIN d
  BY <1>1, <1>2, <1>3, <1>4, <1>5, <1>6, <1>7 DEF close_company
<1>9. o[1] = "company"
  <2>1. Root(o) /\ o /= Nobody
    BY <1>1, <1>8, MayCloseIs, ManagedIs, ShapeIs
  <2>. QED  BY <2>1 DEF Root, Level
<1>10. Entries(d) /\ "revoked" \in EntryStatuses /\ "closed" \in EntryStatuses /\ "consumed" \in EntryStatuses
  BY LinksAre, StatusesAre
<1>11. DOMAIN f = DOMAIN d /\ Entries(f)
       /\ \A k \in DOMAIN d : /\ f[k].status = IF k \in E THEN "revoked" ELSE d[k].status
                              /\ f[k].in = d[k].in /\ f[k].by = d[k].by /\ f[k].to = d[k].to /\ f[k].val = d[k].val
                              /\ k \notin E => f[k] = d[k]
  BY <1>3, <1>10, Marked
<1>12. DOMAIN g = DOMAIN d /\ Entries(g)
       /\ \A k \in DOMAIN d : /\ g[k].status = IF k \in S THEN "closed" ELSE f[k].status
                              /\ g[k].in = f[k].in /\ g[k].by = f[k].by /\ g[k].to = f[k].to /\ g[k].val = f[k].val
                              /\ k \notin S => g[k] = f[k]
  BY <1>5, <1>10, <1>11, Marked
<1>13. DOMAIN e = DOMAIN d
       /\ \A k \in DOMAIN d : /\ e[k].status = IF k \in K THEN "consumed" ELSE g[k].status
                              /\ e[k].in = g[k].in /\ e[k].by = g[k].by /\ e[k].to = g[k].to /\ e[k].val = g[k].val
                              /\ k \notin K => e[k] = g[k]
  BY <1>7, <1>10, <1>12, Marked
<1>14. TokensInv(d) /\ MastersInv(d) /\ ProofsInv(d) /\ InvitesInv(d) /\ PairingsInv(d) /\ NamesInv(d) /\ ShutInv(d)
  BY DEF Credentials
<1>15. /\ \A k \in E : k[1] \in {"master", "grant", "token", "invite", "pairing", "credential"}
       /\ \A k \in DOMAIN d : k[1] = "master" => (k \in E <=> d[k].in = o /\ d[k].status = "active")
       /\ \A k \in DOMAIN d : k[1] = "grant" => (k \in E <=> d[k].in = o)
       /\ \A k \in DOMAIN d : k[1] = "token" => (k \in E <=> d[d[k].in].in = o /\ d[k].status = "active")
       /\ \A k \in DOMAIN d : k[1] = "invite" => (k \in E <=> d[k].in = o /\ d[k].status = "issued")
       /\ \A k \in DOMAIN d : k[1] = "pairing" => (k \in E <=> d[k].in = o /\ d[k].status \notin EndedPairings)
       /\ \A k \in DOMAIN d : k[1] = "credential" =>
             (k \in E <=> d[d[k].in].in = o /\ d[k].status \notin {"revoked", "superseded", "expired"})
  BY <1>2, <1>9, <1>14, EndsAre
<1>16. /\ o \in S
       /\ \A k \in S : k = o \/ (k \in DOMAIN d /\ k[1] \in {"workspace", "project"})
       /\ \A w \in DOMAIN d : w[1] = "workspace" => (w \in S <=> d[w].in = o)
  BY <1>4, <1>9, ScopesAre
<1>17. \A k \in DOMAIN d : e[k].in = d[k].in /\ e[k].by = d[k].by /\ e[k].to = d[k].to /\ e[k].val = d[k].val
  BY <1>11, <1>12, <1>13
<1>18. \A k \in DOMAIN d : k[1] \in {"master", "grant", "token", "invite", "pairing", "credential"} =>
          /\ e[k].status = IF k \in E THEN "revoked" ELSE d[k].status
          /\ k \notin E => e[k] = d[k]
  BY <1>6, <1>9, <1>11, <1>12, <1>13, <1>16
<1>19. \A k \in DOMAIN d : k[1] \in {"company", "workspace"} =>
          /\ e[k].status = IF k \in S THEN "closed" ELSE d[k].status
          /\ k \notin S => e[k] = d[k]
  BY <1>6, <1>11, <1>12, <1>13, <1>15
<1>20. \A k \in DOMAIN d : k[1] \in {"proof", "authority", "request", "rotation", "pairrequest"} => e[k] = d[k]
  BY <1>6, <1>9, <1>11, <1>12, <1>13, <1>15, <1>16
<1>21. \A k : k \in DOMAIN d <=> k \in DOMAIN e
  BY <1>13
<1>22. TokensInv(e)
  <2>1. ASSUME NEW t \in DOMAIN d, t[1] = "token", e[t].status = "active"
        PROVE  d[t].status = "active" /\ e[d[t].in].status = d[d[t].in].status
    <3>1. t \notin E /\ d[t].status = "active" /\ d[t].in \in DOMAIN d /\ d[t].in[1] = "grant"
      BY <1>14, <1>18, <2>1, LinksAre DEF TokensInv
    <3>2. d[t].in \notin E
      BY <1>15, <2>1, <3>1
    <3>. QED  BY <1>18, <3>1, <3>2
  <2>2. \A t \in DOMAIN d : t[1] = "grant" /\ e[t].status = "active" => d[t].status = "active"
    BY <1>18
  <2>. QED  BY <1>14, <1>17, <1>21, <2>1, <2>2, TokensMarked
<1>23. MastersInv(e)
  <2>1. \A m \in DOMAIN d : m[1] = "master" =>
        e[m].in = d[m].in /\ (e[m].status = "active" => d[m].status = "active")
    BY <1>17, <1>18
  <2>. QED  BY <1>14, <1>21, <2>1, MastersStay
<1>24. ProofsInv(e) /\ NamesInv(e)
  <2>1. Same(d, e, {"authority"})
    BY <1>20, <1>21 DEF Same
  <2>2. ProofsInv(e)
    BY <1>14, <1>20, <1>21, <2>1, ProofsStay
  <2>3. NamesInv(e)
    BY <1>14, <1>20, <1>21, NamesStay
  <2>. QED  BY <2>2, <2>3
<1>25. InvitesInv(e)
  BY <1>14, <1>17, <1>20, <1>21, InvitesStay
<1>26. PairingsInv(e)
  <2>1. ASSUME NEW k \in DOMAIN d, k[1] = "credential", e[k].status = "active"
        PROVE  e[d[k].in].status = "active" /\ d[d[k].in].by = k
    <3>1. d[k].in \in DOMAIN d /\ d[k].in[1] = "pairing" /\ k \notin E /\ d[k].status = "active"
      BY <1>14, <1>18, <2>1, PairingLinks
    <3>2. d[d[k].in].status = "active" /\ d[d[k].in].by = k
      BY <1>14, <2>1, <3>1 DEF PairingsInv
    <3>3. d[k].in \notin E
      BY <1>15, <2>1, <3>1
    <3>. QED  BY <1>18, <3>1, <3>2, <3>3
  <2>2. ASSUME NEW p \in DOMAIN d, p[1] = "pairing"
        PROVE  /\ e[p].status = "active" => e[d[p].by].status = "active"
               /\ e[p].status = "pending_activation" =>
                     d[p].status = "pending_activation" /\ e[d[p].to].status = d[d[p].to].status
    <3>1. /\ d[p].by \in DOMAIN d /\ d[p].by[1] = "credential" /\ d[d[p].by].in = p
          /\ d[p].to \in DOMAIN d /\ d[p].to[1] = "pairrequest"
          /\ d[p].status = "active" => d[d[p].by].status = "active"
      BY <1>14, <2>2, PairingLinks DEF PairingsInv
    <3>2. ASSUME e[p].status = "active" PROVE e[d[p].by].status = "active"
      <4>1. p \notin E /\ d[p].status = "active"
        BY <1>18, <2>2, <3>2
      <4>2. d[p].in /= o
        BY <1>15, <2>2, <4>1 DEF EndedPairings
      <4>3. d[p].by \notin E
        BY <1>15, <3>1, <4>2
      <4>. QED  BY <1>18, <3>1, <4>1, <4>3
    <3>3. e[d[p].to].status = d[d[p].to].status
      BY <1>20, <3>1
    <3>4. e[p].status = "pending_activation" => d[p].status = "pending_activation"
      BY <1>18, <2>2
    <3>. QED  BY <3>2, <3>3, <3>4
  <2>. QED  BY <1>14, <1>17, <1>20, <1>21, <2>1, <2>2, PairingsMarked
<1>27. ShutInv(e)
  <2>. SUFFICES ASSUME NEW s \in DOMAIN e, s[1] = "company", IsShut(e[s]), NEW k \in DOMAIN e, Opens(e, k, s)
                PROVE  FALSE
    BY DEF ShutInv
  <2>1. k \in DOMAIN d /\ k[1] \in {"master", "workspace", "pairing", "invite", "token"}
    BY <1>13 DEF Opens
  <2>2. k \notin E
    BY <1>15, <1>18, <2>1 DEF Opens
  <2>3. k[1] = "token" => d[k].in \in DOMAIN d /\ d[k].in[1] = "grant"
    BY <1>14, <2>1, LinksAre DEF TokensInv
  <2>4. k \notin S
    <3>1. k[1] = "workspace" => k \notin S
      BY <1>19, <2>1 DEF Opens
    <3>. QED  BY <1>9, <1>16, <2>1, <3>1
  <2>5. e[k] = d[k]
    BY <1>18, <1>19, <2>1, <2>2, <2>4
  <2>6. Opens(d, k, s)
    BY <1>17, <2>1, <2>3, <2>5 DEF Opens
  <2>7. CASE s = o
    <3>1. k[1] = "master" => k \in E
      BY <1>15, <2>1, <2>6, <2>7 DEF Opens
    <3>2. k[1] = "token" => k \in E
      BY <1>15, <2>1, <2>6, <2>7 DEF Opens
    <3>3. k[1] = "invite" => k \in E
      BY <1>15, <2>1, <2>6, <2>7 DEF Opens
    <3>4. k[1] = "pairing" => k \in E
      BY <1>15, <2>1, <2>6, <2>7 DEF Opens, EndedPairings
    <3>5. k[1] = "workspace" => k \in S
      BY <1>16, <2>1, <2>6, <2>7 DEF Opens
    <3>. QED  BY <2>1, <2>2, <2>4, <3>1, <3>2, <3>3, <3>4, <3>5
  <2>8. CASE s /= o
    <3>1. s \in DOMAIN d /\ e[s] = d[s]
      BY <1>13, <1>16, <1>19, <2>8
    <3>. QED  BY <1>14, <2>1, <2>6, <3>1 DEF ShutInv
  <2>. QED  BY <2>7, <2>8
<1>28. Credentials(e)
  BY <1>22, <1>23, <1>24, <1>25, <1>26, <1>27 DEF Credentials
<1>. QED  BY <1>8, <1>28

\* What is told of credentials holds without everything that lies in one company.
LEMMA PurgeCredentials ==
  ASSUME NEW d, NEW U, Shaped(d, U), Credentials(d), NEW o, o[1] = "company", NEW gone, NEW e,
         DOMAIN e = DOMAIN d \ gone,
         \A k \in DOMAIN d : k[1] /= "account" => (k \in gone <=> o \in Ancestors(d, k)),
         \A k \in DOMAIN e : k[1] /= "session" => e[k] = d[k]
  PROVE  Credentials(e)
<1>1. TokensInv(d) /\ MastersInv(d) /\ ProofsInv(d) /\ InvitesInv(d) /\ PairingsInv(d) /\ NamesInv(d) /\ ShutInv(d)
  BY DEF Credentials
<1>2. \A k \in DOMAIN e : k \in DOMAIN d
  OBVIOUS
<1>3. \A k \in DOMAIN e : k[1] \in Told => e[k] = d[k]
  BY DEF Told
<1>4. \A k \in DOMAIN d : k[1] \in {"master", "workspace", "grant", "pairing", "invite", "request", "proof",
                                  "authority", "pairrequest"} =>
         (k \in DOMAIN e <=> d[k].in /= o)
  BY InsideIs
<1>5. \A k \in DOMAIN d : k[1] \in {"token", "credential", "rotation"} /\ d[k].in \in DOMAIN d =>
         (k \in DOMAIN e <=> d[d[k].in].in /= o)
  BY InsideIs
<1>6. \A s \in DOMAIN d : s[1] = "company" => (s \in DOMAIN e <=> s /= o)
  <2>1. ASSUME NEW s \in DOMAIN d, s[1] = "company" PROVE o \in Ancestors(d, s) <=> s = o
    <3>1. In(d, s) = Nobody
      BY <2>1, LevelIs, LevelType, ShapeIs DEF In, Lies
    <3>2. In(d, Nobody) = Nobody /\ o /= Nobody
      BY LinksAre, NobodyIsNoKey DEF In
    <3>3. Ancestors(d, s) = {s} \ {Nobody}
      BY <3>1, <3>2 DEF Ancestors, Parent
    <3>. QED  BY <3>2, <3>3
  <2>. QED  BY <2>1
<1>7. TokensInv(e)
  <2>1. ASSUME NEW t \in DOMAIN e, t[1] = "token"
        PROVE  /\ t \in DOMAIN d /\ e[t] = d[t] /\ d[t].in \in DOMAIN d /\ d[t].in \in DOMAIN e
               /\ e[d[t].in] = d[d[t].in]
    <3>1. t \in DOMAIN d /\ e[t] = d[t] /\ d[t].in \in DOMAIN d /\ d[t].in[1] = "grant"
      BY <1>1, <1>2, <1>3, <2>1, LinksAre DEF TokensInv, Told
    <3>2. d[t].in \in DOMAIN e
      BY <1>4, <1>5, <2>1, <3>1
    <3>. QED  BY <1>3, <3>1, <3>2 DEF Told
  <2>2. ASSUME NEW g \in DOMAIN e, g[1] = "grant", e[g].by /= Nobody
        PROVE  g \in DOMAIN d /\ e[g] = d[g] /\ d[g].by \in DOMAIN e /\ d[g].by[1] = "token"
               /\ d[d[d[g].by].in].in = d[g].in
    <3>1. g \in DOMAIN d /\ e[g] = d[g]
      BY <1>2, <1>3, <2>2 DEF Told
    <3>2. d[g].by \in DOMAIN d /\ d[g].by[1] = "token" /\ d[d[d[g].by].in].in = d[g].in /\
          d[d[g].by].in \in DOMAIN d
      BY <1>1, <2>2, <3>1, LinksAre DEF TokensInv
    <3>3. d[g].in /= o
      BY <1>4, <2>2, <3>1
    <3>. QED  BY <1>5, <3>1, <3>2, <3>3
  <2>3. \A g \in DOMAIN e : g[1] = "grant" /\ e[g].by /= Nobody =>
           /\ e[g].by \in DOMAIN e /\ e[e[e[g].by].in].in = e[g].in
           /\ e[g].status = "active" => e[e[g].by].status /= "active"
    BY <1>1, <2>1, <2>2 DEF TokensInv
  <2>4. \A t, u \in DOMAIN e : t[1] = "token" /\ u[1] = "token" /\ e[t].in = e[u].in => t = u
    BY <1>1, <2>1 DEF TokensInv
  <2>5. \A t \in DOMAIN e : t[1] = "token" =>
        e[t].in \in DOMAIN e /\ (e[t].status = "active" => e[e[t].in].status \in {"active", "pending_activation"})
    BY <1>1, <2>1 DEF TokensInv
  <2>. QED  BY <2>3, <2>4, <2>5 DEF TokensInv
<1>8. MastersInv(e)
  <2>1. ASSUME NEW m \in DOMAIN e, m[1] = "master" PROVE e[m].in \in DOMAIN e
    <3>1. m \in DOMAIN d /\ e[m] = d[m] /\ d[m].in \in DOMAIN d /\ d[m].in[1] = "company"
      BY <1>1, <1>2, <1>3, <2>1, LinksAre DEF MastersInv, Told
    <3>. QED  BY <1>4, <1>6, <2>1, <3>1
  <2>2. ASSUME NEW s \in DOMAIN e, s[1] = "company" PROVE MastersOf(e, s) /= {} /\ Counted(e, s)
    <3>1. s \in DOMAIN d /\ s /= o
      BY <1>2, <1>6, <2>2
    <3>2. \A m : m[1] = "master" /\ m \in DOMAIN d /\ d[m].in = s => m \in DOMAIN e
      BY <1>4, <3>1
    <3>3. \A m \in DOMAIN e : m[1] = "master" => e[m] = d[m] /\ m \in DOMAIN d
      BY <1>2, <1>3 DEF Told
    <3>4. MastersOf(e, s) = MastersOf(d, s)
      BY <3>2, <3>3 DEF MastersOf
    <3>5. {m \in MastersOf(e, s) : e[m].status = "active"} = {m \in MastersOf(d, s) : d[m].status = "active"}
      BY <3>3, <3>4 DEF MastersOf
    <3>6. MastersOf(d, s) /= {} /\ Counted(d, s)
      BY <1>1, <2>2, <3>1 DEF MastersInv
    <3>. QED  BY <3>4, <3>5, <3>6 DEF Counted
  <2>. QED  BY <2>1, <2>2 DEF MastersInv
<1>9. ProofsInv(e)
  <2>1. ASSUME NEW a \in DOMAIN e, a[1] = "authority"
        PROVE  /\ a \in DOMAIN d /\ e[a] = d[a] /\ d[a].to \in DOMAIN e /\ d[a].to[1] = "proof"
               /\ e[d[a].to] = d[d[a].to] /\ d[d[a].to].in = d[a].in /\ d[d[a].to].status = "consumed"
    <3>1. a \in DOMAIN d /\ e[a] = d[a] /\ d[a].to \in DOMAIN d /\ d[a].to[1] = "proof"
          /\ d[d[a].to].in = d[a].in /\ d[d[a].to].status = "consumed"
      BY <1>1, <1>2, <1>3, <2>1 DEF ProofsInv, Told
    <3>2. d[a].to \in DOMAIN e
      BY <1>4, <2>1, <3>1
    <3>. QED  BY <1>3, <3>1, <3>2 DEF Told
  <2>2. \A a, b \in DOMAIN e : a[1] = "authority" /\ b[1] = "authority" /\ e[a].to = e[b].to => a = b
    BY <1>1, <2>1 DEF ProofsInv
  <2>. QED  BY <2>1, <2>2 DEF ProofsInv
<1>10. InvitesInv(e)
  <2>1. ASSUME NEW i \in DOMAIN e, i[1] = "invite"
        PROVE  /\ i \in DOMAIN d /\ e[i] = d[i] /\ d[i].to \in DOMAIN e /\ e[d[i].to] = d[d[i].to]
               /\ d[d[i].to].in = d[i].in /\ d[d[i].to].by = i /\ d[d[i].to].status = "approved"
    <3>1. /\ i \in DOMAIN d /\ e[i] = d[i] /\ d[i].to \in DOMAIN d /\ d[i].to[1] = "request"
          /\ d[d[i].to].in = d[i].in /\ d[d[i].to].by = i /\ d[d[i].to].status = "approved"
      BY <1>1, <1>2, <1>3, <2>1, LinksAre DEF InvitesInv, Told
    <3>2. d[i].to \in DOMAIN e
      BY <1>4, <2>1, <3>1
    <3>. QED  BY <1>3, <3>1, <3>2 DEF Told
  <2>. QED  BY <2>1 DEF InvitesInv
<1>11. PairingsInv(e)
  <2>1. ASSUME NEW k \in DOMAIN e, k[1] = "credential"
        PROVE  k \in DOMAIN d /\ e[k] = d[k] /\ d[k].in \in DOMAIN d /\ d[k].in \in DOMAIN e /\
            e[d[k].in] = d[d[k].in]
    <3>1. k \in DOMAIN d /\ e[k] = d[k] /\ d[k].in \in DOMAIN d /\ d[k].in[1] = "pairing"
      BY <1>1, <1>2, <1>3, <2>1, PairingLinks DEF Told
    <3>2. d[k].in \in DOMAIN e
      BY <1>4, <1>5, <2>1, <3>1
    <3>. QED  BY <1>3, <3>1, <3>2 DEF Told
  <2>2. ASSUME NEW p \in DOMAIN e, p[1] = "pairing"
        PROVE  /\ p \in DOMAIN d /\ e[p] = d[p] /\ d[p].by \in DOMAIN e /\ e[d[p].by] = d[d[p].by]
               /\ d[p].to \in DOMAIN e /\ e[d[p].to] = d[d[p].to]
    <3>1. /\ p \in DOMAIN d /\ e[p] = d[p]
          /\ d[p].by \in DOMAIN d /\ d[p].by[1] = "credential" /\ d[d[p].by].in = p
          /\ d[p].to \in DOMAIN d /\ d[p].to[1] = "pairrequest" /\ d[d[p].to].in = d[p].in
      BY <1>1, <1>2, <1>3, <2>2, PairingLinks DEF Told
    <3>2. d[p].in /= o
      BY <1>4, <2>2, <3>1
    <3>3. d[p].by \in DOMAIN e /\ d[p].to \in DOMAIN e
      BY <1>4, <1>5, <3>1, <3>2
    <3>. QED  BY <1>3, <3>1, <3>3 DEF Told
  <2>3. ASSUME NEW r \in DOMAIN e, r[1] = "rotation"
        PROVE  /\ e[r].in \in DOMAIN e
               /\ e[r].to \in DOMAIN e /\ e[e[r].to].in = e[r].in
               /\ e[r].by \in DOMAIN e /\ e[e[r].by].in = e[r].in
    <3>1. /\ r \in DOMAIN d /\ e[r] = d[r] /\ d[r].in \in DOMAIN d /\ d[r].in[1] = "pairing"
          /\ d[r].by \in DOMAIN d /\ d[r].by[1] = "credential" /\ d[d[r].by].in = d[r].in
          /\ d[r].to \in DOMAIN d /\ d[r].to[1] = "credential" /\ d[d[r].to].in = d[r].in
      BY <1>1, <1>2, <1>3, <2>3, PairingLinks DEF Told
    <3>2. d[d[r].in].in /= o
      BY <1>5, <2>3, <3>1
    <3>3. d[r].in \in DOMAIN e /\ d[r].by \in DOMAIN e /\ d[r].to \in DOMAIN e
      BY <1>4, <1>5, <3>1, <3>2
    <3>. QED  BY <1>3, <3>1, <3>3 DEF Told
  <2>4. \A k \in DOMAIN e : k[1] = "credential" =>
          /\ e[k].in \in DOMAIN e
          /\ e[k].status = "active" => e[e[k].in].status = "active" /\ e[e[k].in].by = k
    BY <1>1, <2>1 DEF PairingsInv
  <2>5. \A p \in DOMAIN e : p[1] = "pairing" =>
          /\ e[p].by \in DOMAIN e /\ e[e[p].by].in = p
          /\ e[p].status = "active" => e[e[p].by].status = "active"
          /\ e[p].to \in DOMAIN e /\ e[e[p].to].in = e[p].in
          /\ e[e[p].to].status \in {"exchanged", "active", "canceled"}
          /\ e[p].status = "pending_activation" => e[e[p].to].status = "exchanged"
    BY <1>1, <2>2 DEF PairingsInv
  <2>6. \A p \in DOMAIN e : p[1] = "pairing" =>
          (e[p].status = "pending_activation" => \A k \in DOMAIN e : k[1] = "credential" /\ e[k].in = p =>
              k = e[p].by)
    BY <1>1, <2>1, <2>2 DEF PairingsInv
  <2>7. \A p, q \in DOMAIN e : p[1] = "pairing" /\ q[1] = "pairing" /\ e[p].to = e[q].to => p = q
    BY <1>1, <2>2 DEF PairingsInv
  <2>. QED  BY <2>3, <2>4, <2>5, <2>6, <2>7 DEF PairingsInv
<1>12. NamesInv(e)
  BY <1>1, <1>2, <1>3, NamesStay DEF Told
<1>13. ShutInv(e)
  <2>1. ASSUME NEW k \in DOMAIN e, NEW s, Opens(e, k, s) PROVE k \in DOMAIN d /\ Opens(d, k, s)
    <3>1. k \in DOMAIN d /\ k[1] \in {"master", "workspace", "pairing", "invite", "token"} /\ e[k] = d[k]
      BY <1>2, <1>3, <2>1 DEF Opens, Told
    <3>2. CASE k[1] = "token"
      <4>1. d[k].in \in DOMAIN d /\ d[k].in[1] = "grant"
        BY <1>1, <3>1, <3>2, LinksAre DEF TokensInv
      <4>2. d[k].in \in DOMAIN e
        BY <1>4, <1>5, <2>1, <3>1, <3>2, <4>1
      <4>3. e[d[k].in] = d[d[k].in]
        BY <1>3, <4>1, <4>2 DEF Told
      <4>. QED  BY <2>1, <3>1, <3>2, <4>3 DEF Opens
    <3>3. CASE k[1] /= "token"
      BY <2>1, <3>1, <3>3 DEF Opens
    <3>. QED  BY <3>2, <3>3
  <2>2. \A s \in DOMAIN e : s[1] = "company" => s \in DOMAIN d /\ e[s] = d[s]
    BY <1>2, <1>3 DEF Told
  <2>. QED  BY <1>1, <2>1, <2>2, ShutStays
<1>. QED  BY <1>7, <1>8, <1>9, <1>10, <1>11, <1>12, <1>13 DEF Credentials

\* The methods that save a document, one set for each part of the store: accounts and
\* their companies, what closes a company, access requests and invites, and pairings.
FoundingOps == {"create_free_account", "create_bootstrap_account", "bootstrap_company_master_token",
      "delegate_company_master_credential", "register_top_level_agent_company_master_credential",
      "create_company_master_proof", "create_human_account", "create_human_account_with_session",
      "prove_and_link_company_master"}

\* The calls that make accounts, masters, proofs and authorities keep what is told of credentials.
LEMMA FoundingCredentials ==
  ASSUME NEW l, NEW c, NEW d, NEW U, Serves(l, c, d, U), Do(d, c.op, c) /= Refused, Credentials(d),
         c.op \in FoundingOps
  PROVE  Credentials(Do(d, c.op, c))
<1>0. Sent(c, U) /\ Shaped(d, U) /\ Shaped(d, U \cup {c.n}) /\ SuccessionInv(d)
  BY ServesIs
<1>1. CASE c.op = "create_free_account"
  <2>1. Do(d, c.op, c) = create_free_account(d, c)
    BY <1>1 DEF Do
  <2>2. c.n \notin U
BY <1>1 DEF Serves
<2>. QED  BY <1>0, <2>1, <2>2, create_free_accountCredentials
<1>2. CASE c.op = "create_bootstrap_account"
  <2>1. Do(d, c.op, c) = _create_bootstrap_account_file_locked(d, c)
    BY <1>2 DEF Do
  <2>2. c.of[1] = "setup" /\ c.of[2] \notin U /\ c.body \notin U
BY <1>2 DEF Serves, Formed, ChosenFits, OfFits
<2>. QED  BY <1>0, <2>1, <2>2, create_bootstrap_accountCredentials
<1>3. CASE c.op = "bootstrap_company_master_token"
  <2>1. Do(d, c.op, c) = bootstrap_company_master_token(d, c)
    BY <1>3 DEF Do
  <2>2. c.of[1] = "company"
BY <1>3 DEF Serves, Formed, OfFits
<2>. QED  BY <1>0, <2>1, <2>2, bootstrap_company_master_tokenCredentials
<1>4. CASE c.op = "delegate_company_master_credential"
  <2>1. Do(d, c.op, c) = delegate_company_master_credential(d, c)
    BY <1>4 DEF Do
  <2>2. c.of[1] = "master" /\ c.as[1] = "master"
BY <1>4 DEF Serves, Formed, AfterConnector, AfterMaster, AfterSession, AsFits, OfFits
<2>. QED  BY <1>0, <2>1, <2>2, delegate_company_master_credentialCredentials
<1>5. CASE c.op = "register_top_level_agent_company_master_credential"
  <2>1. Do(d, c.op, c) = register_top_level_agent_company_master_credential(d, c)
    BY <1>5 DEF Do
  <2>2. c.of[1] = "master" /\ c.as[1] = "token"
BY <1>5 DEF Serves, Formed, AfterConnector, AfterMaster, AfterSession, AsFits, OfFits
<2>. QED  BY <1>0, <2>1, <2>2, register_top_level_agent_company_master_credentialCredentials
<1>6. CASE c.op = "create_company_master_proof"
  <2>1. Do(d, c.op, c) = create_company_master_proof(d, c)
    BY <1>6 DEF Do
<2>. QED  BY <1>0, <2>1, create_company_master_proofCredentials
<1>7. CASE c.op = "create_human_account"
  <2>1. Do(d, c.op, c) = create_human_account(d, c)
    BY <1>7 DEF Do
  <2>2. c.as[1] = "proof"
BY <1>7 DEF Serves, Formed, AfterConnector, AfterMaster, AfterSession, AsFits
<2>. QED  BY <1>0, <2>1, <2>2, create_human_accountCredentials
<1>8. CASE c.op = "create_human_account_with_session"
  <2>1. Do(d, c.op, c) = create_human_account_with_session(d, c)
    BY <1>8 DEF Do
  <2>2. c.as[1] = "proof"
BY <1>8 DEF Serves, Formed, AfterConnector, AfterMaster, AfterSession, AsFits
<2>. QED  BY <1>0, <2>1, <2>2, create_human_account_with_sessionCredentials
<1>9. CASE c.op = "prove_and_link_company_master"
  <2>1. Do(d, c.op, c) = prove_and_link_company_master(d, c)
    BY <1>9 DEF Do
  <2>2. c.of[1] = "proof"
BY <1>9 DEF Serves, Formed, OfFits
<2>. QED  BY <1>0, <2>1, <2>2, prove_and_link_company_masterCredentials
<1>. QED  BY <1>1, <1>2, <1>3, <1>4, <1>5, <1>6, <1>7, <1>8, <1>9 DEF FoundingOps

CompaniesOps == {"set_human_top_level_agent_master_credential_setting", "close_company",
      "soft_delete_company", "restore_company"}

\* The calls that change a company keep what is told of credentials.
LEMMA CompaniesCredentials ==
  ASSUME NEW l, NEW c, NEW d, NEW U, Serves(l, c, d, U), Do(d, c.op, c) /= Refused, Credentials(d),
         c.op \in CompaniesOps
  PROVE  Credentials(Do(d, c.op, c))
<1>0. Sent(c, U) /\ Shaped(d, U) /\ Shaped(d, U \cup {c.n}) /\ SuccessionInv(d)
  BY ServesIs
<1>1. CASE c.op = "set_human_top_level_agent_master_credential_setting"
  <2>1. Do(d, c.op, c) = set_human_top_level_agent_master_credential_setting(d, c)
    BY <1>1 DEF Do
  <2>2. c.of[1] = "company"
BY <1>1 DEF Serves, Formed, OfFits
<2>. QED  BY <1>0, <2>1, <2>2, set_human_top_level_agent_master_credential_settingCredentials
<1>2. CASE c.op = "close_company"
  <2>1. Do(d, c.op, c) = close_company(d, c)
    BY <1>2 DEF Do
  <2>2. c.of[1] = "intent"
BY <1>2 DEF Serves, Formed, OfFits
  <2>3. Shaped(c.seen[1], U \cup {c.n})
    BY <1>2, ServesIs DEF Seeing, AfterSession
<2>. QED  BY <1>0, <2>1, <2>2, <2>3, close_companyCredentials
<1>3. CASE c.op = "soft_delete_company"
  <2>1. Do(d, c.op, c) = soft_delete_company(d, c)
    BY <1>3 DEF Do
  <2>2. c.of[1] = "intent"
BY <1>3 DEF Serves, Formed, OfFits
  <2>3. Shaped(c.seen[1], U \cup {c.n})
    BY <1>3, ServesIs DEF Seeing, AfterSession
<2>. QED  BY <1>0, <2>1, <2>2, <2>3, soft_delete_companyCredentials
<1>4. CASE c.op = "restore_company"
  <2>1. Do(d, c.op, c) = restore_company(d, c)
    BY <1>4 DEF Do
  <2>2. Shaped(c.seen[1], U \cup {c.n})
    BY <1>4, ServesIs DEF Seeing, AfterSession
<2>. QED  BY <1>0, <2>1, <2>2, restore_companyCredentials
<1>. QED  BY <1>1, <1>2, <1>3, <1>4 DEF CompaniesOps

AccessOps == {"request_agent_access", "decide_agent_access_request", "deny_agent_access_request",
      "issue_agent_invite", "revoke_agent_invite", "redeem_agent_invite", "revoke_agent_token",
      "prepare_agent_token_replacement", "confirm_agent_token_replacement",
      "cancel_agent_token_replacement", "expire_pending_agent_token_replacements",
      "prepare_human_agent_token_replacement", "human_agent_token_replacement_status",
      "confirm_human_agent_token_replacement", "cancel_human_agent_token_replacement"}

\* The calls on access requests, invites and tokens keep what is told of credentials.
LEMMA AccessCredentials ==
  ASSUME NEW l, NEW c, NEW d, NEW U, Serves(l, c, d, U), Do(d, c.op, c) /= Refused, Credentials(d),
         c.op \in AccessOps
  PROVE  Credentials(Do(d, c.op, c))
<1>0. Sent(c, U) /\ Shaped(d, U) /\ Shaped(d, U \cup {c.n}) /\ SuccessionInv(d)
  BY ServesIs
<1>1. CASE c.op = "request_agent_access"
  <2>1. Do(d, c.op, c) = request_agent_access(d, c)
    BY <1>1 DEF Do
<2>. QED  BY <1>0, <2>1, request_agent_accessCredentials
<1>2. CASE c.op = "decide_agent_access_request"
  <2>1. Do(d, c.op, c) = decide_agent_access_request(d, c)
    BY <1>2 DEF Do
  <2>2. c.of[1] = "request"
BY <1>2 DEF Serves, Formed, OfFits
<2>. QED  BY <1>0, <2>1, <2>2, decide_agent_access_requestCredentials
<1>3. CASE c.op = "deny_agent_access_request"
  <2>1. Do(d, c.op, c) = deny_agent_access_request(d, c)
    BY <1>3 DEF Do
  <2>2. c.of[1] = "request"
BY <1>3 DEF Serves, Formed, OfFits
<2>. QED  BY <1>0, <2>1, <2>2, deny_agent_access_requestCredentials
<1>4. CASE c.op = "issue_agent_invite"
  <2>1. Do(d, c.op, c) = issue_agent_invite(d, c)
    BY <1>4 DEF Do
  <2>2. c.of[1] = "request"
BY <1>4 DEF Serves, Formed, OfFits
<2>. QED  BY <1>0, <2>1, <2>2, issue_agent_inviteCredentials
<1>5. CASE c.op = "revoke_agent_invite"
  <2>1. Do(d, c.op, c) = revoke_agent_invite(d, c)
    BY <1>5 DEF Do
  <2>2. c.of[1] = "invite"
BY <1>5 DEF Serves, Formed, OfFits
<2>. QED  BY <1>0, <2>1, <2>2, revoke_agent_inviteCredentials
<1>6. CASE c.op = "redeem_agent_invite"
  <2>1. Do(d, c.op, c) = redeem_agent_invite(d, c)
    BY <1>6 DEF Do
  <2>2. c.of[1] = "invite" /\ c.to[1] = "token"
BY <1>6 DEF Serves, Formed, OfFits, ToFits
  <2>3. <<"grant", c.n>> \notin DOMAIN d /\ <<"token", c.n>> \notin DOMAIN d
    BY <1>0, FreshIs
<2>. QED  BY <1>0, <2>1, <2>2, <2>3, redeem_agent_inviteCredentials
<1>7. CASE c.op = "revoke_agent_token"
  <2>1. Do(d, c.op, c) = revoke_agent_token(d, c)
    BY <1>7 DEF Do
  <2>2. c.of[1] = "token"
BY <1>7 DEF Serves, Formed, OfFits
<2>. QED  BY <1>0, <2>1, <2>2, revoke_agent_tokenCredentials
<1>8. CASE c.op = "prepare_agent_token_replacement"
  <2>1. Do(d, c.op, c) = prepare_agent_token_replacement(d, c)
    BY <1>8 DEF Do
  <2>2. c.of[1] = "token"
BY <1>8 DEF Serves, Formed, OfFits
  <2>3. <<"grant", c.n>> \notin DOMAIN d /\ <<"token", c.n>> \notin DOMAIN d
    BY <1>0, FreshIs
<2>. QED  BY <1>0, <2>1, <2>2, <2>3, prepare_agent_token_replacementCredentials
<1>9. CASE c.op = "confirm_agent_token_replacement"
  <2>1. Do(d, c.op, c) = confirm_agent_token_replacement(d, c)
    BY <1>9 DEF Do
  <2>2. c.as[1] = "token"
BY <1>9 DEF Serves, Formed, AfterConnector, AfterMaster, AfterSession, AsFits
<2>. QED  BY <1>0, <2>1, <2>2, confirm_agent_token_replacementCredentials
<1>10. CASE c.op = "cancel_agent_token_replacement"
  <2>1. Do(d, c.op, c) = cancel_agent_token_replacement(d, c)
    BY <1>10 DEF Do
  <2>2. c.of[1] = "token"
BY <1>10 DEF Serves, Formed, OfFits
<2>. QED  BY <1>0, <2>1, <2>2, cancel_agent_token_replacementCredentials
<1>11. CASE c.op = "expire_pending_agent_token_replacements"
  <2>1. Do(d, c.op, c) = expire_pending_agent_token_replacements(d, c)
    BY <1>11 DEF Do
<2>. QED  BY <1>0, <2>1, expire_pending_agent_token_replacementsCredentials
<1>12. CASE c.op = "prepare_human_agent_token_replacement"
  <2>1. Do(d, c.op, c) = prepare_human_agent_token_replacement(d, c)
    BY <1>12 DEF Do
  <2>2. c.of[1] = "token"
BY <1>12 DEF Serves, Formed, OfFits
  <2>3. <<"grant", c.n>> \notin DOMAIN d /\ <<"token", c.n>> \notin DOMAIN d
    BY <1>0, FreshIs
<2>. QED  BY <1>0, <2>1, <2>2, <2>3, prepare_human_agent_token_replacementCredentials
<1>13. CASE c.op = "human_agent_token_replacement_status"
  <2>1. Do(d, c.op, c) = human_agent_token_replacement_status(d, c)
    BY <1>13 DEF Do
  <2>2. c.of[1] = "replacement"
BY <1>13 DEF Serves, Formed, OfFits
<2>. QED  BY <1>0, <2>1, <2>2, human_agent_token_replacement_statusCredentials
<1>14. CASE c.op = "confirm_human_agent_token_replacement"
  <2>1. Do(d, c.op, c) = confirm_human_agent_token_replacement(d, c)
    BY <1>14 DEF Do
  <2>2. c.of[1] = "replacement"
BY <1>14 DEF Serves, Formed, OfFits
<2>. QED  BY <1>0, <2>1, <2>2, confirm_human_agent_token_replacementCredentials
<1>15. CASE c.op = "cancel_human_agent_token_replacement"
  <2>1. Do(d, c.op, c) = cancel_human_agent_token_replacement(d, c)
    BY <1>15 DEF Do
  <2>2. c.of[1] = "replacement"
BY <1>15 DEF Serves, Formed, OfFits
<2>. QED  BY <1>0, <2>1, <2>2, cancel_human_agent_token_replacementCredentials
<1>. QED  BY <1>1, <1>2, <1>3, <1>4, <1>5, <1>6, <1>7, <1>8, <1>9, <1>10, <1>11, <1>12, <1>13,
      <1>14, <1>15 DEF AccessOps

PairingOps == {"purge_abandoned_connector_pairings", "create_connector_pairing_request",
      "approve_connector_pairing_request", "claim_connector_authorization_code",
      "exchange_connector_authorization_code", "cancel_connector_pairing_request",
      "connector_pairing_authorization_context", "activate_connector_pairing",
      "prepare_connector_rotation", "activate_connector_rotation", "revoke_connector_pairing",
      "disconnect_connector_pairing", "cancel_connector_pairing"}

\* The calls on connector pairings keep what is told of credentials.
LEMMA PairingCredentials ==
  ASSUME NEW l, NEW c, NEW d, NEW U, Serves(l, c, d, U), Do(d, c.op, c) /= Refused, Credentials(d),
         c.op \in PairingOps
  PROVE  Credentials(Do(d, c.op, c))
<1>0. Sent(c, U) /\ Shaped(d, U) /\ Shaped(d, U \cup {c.n}) /\ SuccessionInv(d)
  BY ServesIs
<1>1. CASE c.op = "purge_abandoned_connector_pairings"
  <2>1. Do(d, c.op, c) = purge_abandoned_connector_pairings(d, c)
    BY <1>1 DEF Do
<2>. QED  BY <1>0, <2>1, purge_abandoned_connector_pairingsCredentials
<1>2. CASE c.op = "create_connector_pairing_request"
  <2>1. Do(d, c.op, c) = create_connector_pairing_request(d, c)
    BY <1>2 DEF Do
<2>. QED  BY <1>0, <2>1, create_connector_pairing_requestCredentials
<1>3. CASE c.op = "approve_connector_pairing_request"
  <2>1. Do(d, c.op, c) = approve_connector_pairing_request(d, c)
    BY <1>3 DEF Do
  <2>2. c.of[1] = "pairrequest"
BY <1>3 DEF Serves, Formed, OfFits
<2>. QED  BY <1>0, <2>1, <2>2, approve_connector_pairing_requestCredentials
<1>4. CASE c.op = "claim_connector_authorization_code"
  <2>1. Do(d, c.op, c) = claim_connector_authorization_code(d, c)
    BY <1>4 DEF Do
  <2>2. c.of[1] = "pairrequest"
BY <1>4 DEF Serves, Formed, OfFits
<2>. QED  BY <1>0, <2>1, <2>2, claim_connector_authorization_codeCredentials
<1>5. CASE c.op = "exchange_connector_authorization_code"
  <2>1. Do(d, c.op, c) = exchange_connector_authorization_code(d, c)
    BY <1>5 DEF Do
  <2>2. c.of[1] = "pairrequest"
BY <1>5 DEF Serves, Formed, OfFits
<2>. QED  BY <1>0, <2>1, <2>2, exchange_connector_authorization_codeCredentials
<1>6. CASE c.op = "cancel_connector_pairing_request"
  <2>1. Do(d, c.op, c) = cancel_connector_pairing_request(d, c)
    BY <1>6 DEF Do
  <2>2. c.of[1] = "pairrequest"
BY <1>6 DEF Serves, Formed, OfFits
<2>. QED  BY <1>0, <2>1, <2>2, cancel_connector_pairing_requestCredentials
<1>7. CASE c.op = "connector_pairing_authorization_context"
  <2>1. Do(d, c.op, c) = connector_pairing_authorization_context(d, c)
    BY <1>7 DEF Do
  <2>2. c.of[1] = "pairrequest"
BY <1>7 DEF Serves, Formed, OfFits
<2>. QED  BY <1>0, <2>1, <2>2, connector_pairing_authorization_contextCredentials
<1>8. CASE c.op = "activate_connector_pairing"
  <2>1. Do(d, c.op, c) = activate_connector_pairing(d, c)
    BY <1>8 DEF Do
  <2>2. c.as[1] = "credential" /\ c.of[1] = "pairing"
BY <1>8 DEF Serves, Formed, AfterConnector, AfterMaster, AfterSession, AsFits, OfFits
<2>. QED  BY <1>0, <2>1, <2>2, activate_connector_pairingCredentials
<1>9. CASE c.op = "prepare_connector_rotation"
  <2>1. Do(d, c.op, c) = prepare_connector_rotation(d, c)
    BY <1>9 DEF Do
  <2>2. c.of[1] = "pairing"
BY <1>9 DEF Serves, Formed, OfFits
<2>. QED  BY <1>0, <2>1, <2>2, prepare_connector_rotationCredentials
<1>10. CASE c.op = "activate_connector_rotation"
  <2>1. Do(d, c.op, c) = activate_connector_rotation(d, c)
    BY <1>10 DEF Do
  <2>2. c.as[1] = "credential" /\ c.of[1] = "rotation"
BY <1>10 DEF Serves, Formed, AfterConnector, AfterMaster, AfterSession, AsFits, OfFits
<2>. QED  BY <1>0, <2>1, <2>2, activate_connector_rotationCredentials
<1>11. CASE c.op = "revoke_connector_pairing"
  <2>1. Do(d, c.op, c) = revoke_connector_pairing(d, c)
    BY <1>11 DEF Do
  <2>2. c.of[1] = "pairing"
BY <1>11 DEF Serves, Formed, OfFits
<2>. QED  BY <1>0, <2>1, <2>2, revoke_connector_pairingCredentials
<1>12. CASE c.op = "disconnect_connector_pairing"
  <2>1. Do(d, c.op, c) = disconnect_connector_pairing(d, c)
    BY <1>12 DEF Do
  <2>2. c.of[1] = "pairing"
BY <1>12 DEF Serves, Formed, OfFits
<2>. QED  BY <1>0, <2>1, <2>2, disconnect_connector_pairingCredentials
<1>13. CASE c.op = "cancel_connector_pairing"
  <2>1. Do(d, c.op, c) = cancel_connector_pairing(d, c)
    BY <1>13 DEF Do
  <2>2. c.of[1] = "pairing"
BY <1>13 DEF Serves, Formed, OfFits
<2>. QED  BY <1>0, <2>1, <2>2, cancel_connector_pairingCredentials
<1>. QED  BY <1>1, <1>2, <1>3, <1>4, <1>5, <1>6, <1>7, <1>8, <1>9, <1>10, <1>11, <1>12, <1>13 DEF
      PairingOps

\* A purge keeps what is told of credentials.
LEMMA PurgedCredentials ==
  ASSUME NEW l, NEW c, NEW d, NEW U, Serves(l, c, d, U), Do(d, c.op, c) /= Refused,
         c.op = "permanently_purge_company", Credentials(d)
  PROVE  Credentials(Do(d, c.op, c))
<1>. DEFINE o == ManagedCompany(c.seen[1], c.as)
            inside == {k \in DOMAIN d : o \in Ancestors(d, k)}
            kept == {d[k].by : k \in Section(d, "company") \ inside}
            gone == inside \cup (Section(d, "account") \ kept)
            left == Drop(d, gone)
            e == [k \in DOMAIN left |->
                    IF k[1] = "session" /\ left[k].by \in gone
                    THEN [left[k] EXCEPT !.by = Nobody] ELSE left[k]]
<1>1. Do(d, c.op, c) = permanently_purge_company(d, c)
  BY DEF Do
<1>2. permanently_purge_company(d, c) /= Refused
  BY <1>1
<1>3. /\ permanently_purge_company(d, c) = e
      /\ _management_human_session(c.seen[1], Then(c))
      /\ Status(d, o) \in {"closed", "soft_deleted"}
  BY <1>2, Zenon DEF permanently_purge_company
<1>4. c.as \in DOMAIN c.seen[1] /\ c.as[1] = "session"
  BY <1>3, ManagementIs
<1>5. Shaped(c.seen[1], U \cup {c.n})
  BY ServesIs DEF Serves, Seeing, AfterSession
<1>6. Root(o)
  BY <1>4, <1>5, ManagedIs
<1>7. Shaped(d, U)
  BY ServesIs
<1>8. o \in DOMAIN d
  BY <1>3 DEF Status
<1>9. o[1] = "company"
  <2>1. o /= Nobody
    BY <1>7, <1>8, ShapeIs
  <2>. QED  BY <1>6, <2>1 DEF Root, Level
<1>. HIDE DEF o, kept
<1>10. DOMAIN e = DOMAIN d \ gone
  BY DEF Drop
<1>11. \A k \in DOMAIN d : k[1] /= "account" => (k \in gone <=> o \in Ancestors(d, k))
  BY DEF Section
<1>12. \A k \in DOMAIN e : k[1] /= "session" => e[k] = d[k]
  BY DEF Drop
<1>. HIDE DEF e, gone
<1>13. Credentials(e)
  BY <1>7, <1>9, <1>10, <1>11, <1>12, PurgeCredentials
<1>. QED  BY <1>1, <1>3, <1>13

\* A call's own section keeps what is told of credentials.
LEMMA OwnCredentials ==
  ASSUME NEW l, NEW c, NEW d, NEW U, Serves(l, c, d, U), Do(d, c.op, c) /= Refused, c.op \notin Aux,
         Credentials(d), c.op \in Seeing => Credentials(c.seen[1])
  PROVE  Credentials(Do(d, c.op, c))
<1>0. Shaped(d, U)
  BY ServesIs
<1>1. c.op \in Own
  BY NothingElse
<1>2. CASE c.op \in WorkspaceOps \cup VisitsOps \cup TalkOps \cup PackagesOps \cup EditClaimsOps \cup ServersOps
  BY <1>0, <1>2, OthersSame, CredentialsStay
<1>8. CASE c.op \in Sessions
  BY <1>0, <1>8, SessionsSame, CredentialsStay
<1>9. CASE c.op \in MutationOps
  <2>1. c.op = "submit_sync_mutation"
    BY <1>9 DEF MutationOps
  <2>2. Shaped(c.seen[1], U \cup {c.n}) /\ Credentials(c.seen[1])
    BY <2>1, ServesIs DEF Seeing, AfterReading
  <2>. QED  BY <1>9, <2>2, MutationSame, CredentialsStay
<1>10. CASE c.op \in FoundingOps
  BY <1>10, FoundingCredentials
<1>11. CASE c.op \in CompaniesOps
  BY <1>11, CompaniesCredentials
<1>12. CASE c.op \in AccessOps
  BY <1>12, AccessCredentials
<1>13. CASE c.op \in PairingOps
  BY <1>13, PairingCredentials
<1>14. CASE c.op = "permanently_purge_company"
  BY <1>14, PurgedCredentials
<1>15. GovernanceOps \subseteq FoundingOps \cup Sessions
  BY DEF GovernanceOps, FoundingOps, Sessions
<1>16. CompanyOps \subseteq CompaniesOps \cup Sessions
  BY DEF CompanyOps, CompaniesOps, Sessions
<1>17. AgentsOps \subseteq AccessOps \cup Sessions
  BY DEF AgentsOps, AccessOps, Sessions
<1>18. ConnectorsOps \subseteq PairingOps \cup Sessions
  BY DEF ConnectorsOps, PairingOps, Sessions
<1>. QED  BY <1>1, <1>2, <1>8, <1>9, <1>10, <1>11, <1>12, <1>13, <1>14, <1>15, <1>16, <1>17, <1>18 DEF Own

\* The sections that serve several calls keep what is told of credentials.
LEMMA AuxCredentials ==
  ASSUME NEW c, NEW d, NEW U, NEW s \in Aux, Shaped(d, U), Do(d, s, c) /= Refused, Credentials(d),
         s \in Reserving => IsKey(c.key) /\ c.key[1] = "idem"
  PROVE  Credentials(Do(d, s, c))
<1>1. CASE s = "load"
  BY <1>1, Zenon DEF Do
<1>2. CASE s = "authenticate_company_master"
  BY <1>2 DEF Do, authenticate_company_master
<1>3. CASE s = "authenticate_human_owner"
  BY <1>3 DEF Do, authenticate_human_owner
<1>4. CASE s = "authenticate_human_session"
  BY <1>4 DEF Do, authenticate_human_session
<1>5. CASE s = "authenticate_human_account_session"
  BY <1>5 DEF Do, authenticate_human_account_session
<1>6. CASE s = "authenticate_connector_token"
  BY <1>6 DEF Do, authenticate_connector_token
<1>7. CASE s = "authenticate_agent_token"
  BY <1>7 DEF Do, authenticate_agent_token
<1>8. CASE s = "rotate_human_account_session_csrf"
  BY <1>8 DEF Do, rotate_human_account_session_csrf
<1>9. CASE s = "audit_log"
  BY <1>9 DEF Do, audit_log
<1>10. CASE s = "expire_connector_pairings"
  <2>1. Do(d, s, c) = expire_connector_pairings(d, c)
    BY <1>10 DEF Do
  <2>. QED  BY <2>1, expire_connector_pairingsCredentials
<1>11. CASE s = "claim_idempotency"
  <2>1. Do(d, s, c) = claim_idempotency(d, c)
    BY <1>11 DEF Do
  <2>2. Makes(d, claim_idempotency(d, c), {"idem"}, U)
    BY <1>11, <2>1, claim_idempotencyMakes DEF Reserving
  <2>. QED  BY <2>1, <2>2, Untold, CredentialsStay DEF Told
<1>12. CASE s = "record_idempotency"
  <2>1. Do(d, s, c) = record_idempotency(d, c)
    BY <1>12 DEF Do
  <2>2. Makes(d, record_idempotency(d, c), {"idem"}, U)
    BY <1>12, <2>1, record_idempotencyMakes DEF Reserving
  <2>. QED  BY <2>1, <2>2, Untold, CredentialsStay DEF Told
<1>13. CASE s = "release_idempotency_claim"
  <2>1. Do(d, s, c) = release_idempotency_claim(d, c)
    BY <1>13 DEF Do
  <2>2. Makes(d, release_idempotency_claim(d, c), {"idem"}, U)
    BY <1>13, <2>1, release_idempotency_claimMakes DEF Reserving
  <2>. QED  BY <2>1, <2>2, Untold, CredentialsStay DEF Told
<1>. QED
  BY <1>1, <1>2, <1>3, <1>4, <1>5, <1>6, <1>7, <1>8, <1>9, <1>10, <1>11, <1>12, <1>13 DEF Aux

\* The sweep of a load keeps what is told of credentials.
LEMMA SweepCredentials ==
  ASSUME NEW d, NEW U, Shaped(d, U), Credentials(d), NEW L
  PROVE  Credentials(_normalize_store(d, L))
BY SweepSame, CredentialsStay

================================================================================
