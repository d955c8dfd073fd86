------------------------- MODULE MCDistributedSync -------------------------
(* An instance of DistributedSync with one workspace, a device and a memory. *)
EXTENDS DistributedSync, TLC

Alike == Permutations(Calls) \cup Permutations(Processes) \cup Permutations(ClientKeys)

AllOperations == {"upsert", "delete", "register", "rotate", "revoke"}

Started == {c \in Calls : request[c] # NoRequest}

Edits == \A c \in Started : request[c].op \in {"upsert", "delete"} /\ request[c].device = NoDevice

KeysDiffer == \A c, d \in Started : request[c].key = request[d].key => c = d

\* The mixes that are followed.  A reader can tell calls apart only by what they
\* log, and the edits of one process log all that edits can.
Mixes ==
    IF \E r \in Readers : cursor[r] # 0 \/ page[r] # <<>>
    THEN Edits /\ OneProcess /\ KeysDiffer
    ELSE Edits \/ (OneProcess /\ \A c \in Started : request[c].op # "delete")
=============================================================================
