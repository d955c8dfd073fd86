---------------------------- MODULE FileDocument ----------------------------
(***************************************************************************)
(* The JSON document of FileStore (src/memoryendpoints/storage.py): one     *)
(* file that holds every section of the store.  A document is a function    *)
(* from keys to entries.  A key is <<section, identity>>; what a call       *)
(* creates under a generated identifier is identified by the number of the  *)
(* call, what the code identifies by a natural or derived key is identified *)
(* by that key.  The outbox events and ledger rows that a method appends    *)
(* for an entry live and die with it and are part of it here.               *)
(*                                                                          *)
(* The methods are operators from a document and a call to the document     *)
(* the method saves, or to Refused when it returns without saving.          *)
(***************************************************************************)
EXTENDS Naturals, FiniteSets, Sequences, TLC

CONSTANTS Refused,      \* the method returned without saving
          Nobody        \* a JSON null where a key could stand

\* A null names an entry of no section.
ASSUME NobodyIsNoKey == Nobody[1] = "nobody"

(***************************************************************************)
(* Entries.  All sections share one shape: the status; the entry it lies    *)
(* under; who made or holds it; what it refers to; a revision, sequence or  *)
(* epoch number; and a few more values in the order its method states.      *)
(***************************************************************************)
New(status, in) == [status |-> status, in |-> in, by |-> Nobody, to |-> Nobody,
                    rev |-> 0, val |-> <<>>]

_blank_store == [k \in {} |-> New("", Nobody)]

Section(d, s) == {k \in DOMAIN d : k[1] = s}
Under(d, s, p) == {k \in Section(d, s) : d[k].in = p}
Status(d, k) == IF k \in DOMAIN d THEN d[k].status ELSE "absent"
Live(d, k) == Status(d, k) = "active"
In(d, k) == IF k \in DOMAIN d THEN d[k].in ELSE Nobody

Put(d, k, e) == [j \in DOMAIN d \cup {k} |-> IF j = k THEN e ELSE d[j]]
With(d, f) == [j \in DOMAIN d \cup DOMAIN f |-> IF j \in DOMAIN f THEN f[j] ELSE d[j]]
Drop(d, K) == [k \in DOMAIN d \ K |-> d[k]]
Mark(d, K, s) == [k \in DOMAIN d |-> IF k \in K THEN [d[k] EXCEPT !.status = s] ELSE d[k]]

(***************************************************************************)
(* What _load does to the document it read: audit entries older than the    *)
(* audit window go; a direct message goes with its notifications and their  *)
(* receipts when its retention is over; a meeting message goes unless a     *)
(* routing decision cites it, and the read states that point at it point    *)
(* nowhere.  late is the set of keys whose deadline or retention is over.   *)
(***************************************************************************)
_prune_audit_log_data(d, late) == Drop(d, Section(d, "audit") \cap late)

\* Mutated form: a decision's message is swept like any other.
SweepsRouted(d, late) ==
    LET gone == Section(d, "message") \cap late
        notes == {k \in Section(d, "notification") : d[k].in \in gone}
        receipts == {k \in Section(d, "receipt") : d[k].in \in notes}
        talk == Section(d, "meeting") \cap late
        moved == [k \in DOMAIN d |->
                    IF k[1] = "read" /\ d[k].to \in talk
                    THEN [d[k] EXCEPT !.to = Nobody] ELSE d[k]]
    IN Drop(moved, gone \cup notes \cup receipts \cup talk)

_prune_coordination_data(d, late) ==
    LET gone == Section(d, "message") \cap late
        notes == {k \in Section(d, "notification") : d[k].in \in gone}
        receipts == {k \in Section(d, "receipt") : d[k].in \in notes}
        routed == {d[k].to : k \in Section(d, "routing")}
        talk == (Section(d, "meeting") \cap late) \ routed
        moved == [k \in DOMAIN d |->
                    IF k[1] = "read" /\ d[k].to \in talk
                    THEN [d[k] EXCEPT !.to = Nobody] ELSE d[k]]
    IN Drop(moved, gone \cup notes \cup receipts \cup talk)

_normalize_store(d, late) ==
    _prune_coordination_data(_prune_audit_log_data(d, late), late)

(***************************************************************************)
(* FileStore.audit: the entry a method appends before it saves.             *)
(***************************************************************************)
audit(d, n) == Put(d, <<"audit", n>>, New("written", Nobody))

(***************************************************************************)
(* The chain of scopes: a workspace lies in a company, a project in a       *)
(* workspace, a scope node in the project or node it was registered under.  *)
(***************************************************************************)
Parent(d, k) == In(d, k)

Ancestors(d, k) ==
    LET a == Parent(d, k)  b == Parent(d, a)  c == Parent(d, b)  e == Parent(d, c)
    IN {k, a, b, c, e} \ {Nobody}

CompanyOf(d, k) ==
    LET cs == {a \in Ancestors(d, k) : a[1] = "company" /\ a \in DOMAIN d}
    IN IF cs = {} THEN Nobody ELSE CHOOSE a \in cs : TRUE

(***************************************************************************)
(* A call whose earlier section found what it found at an earlier time: the *)
(* deadlines that had passed when its first section loaded.                 *)
(***************************************************************************)
Then(c) == [c EXCEPT !.late = c.before]

=============================================================================
