--------------------------- MODULE MCUaiEditClaims ---------------------------
(* Instances of UaiEditClaims with one path of one project.                 *)
EXTENDS UaiEditClaims, TLC

Alike == Permutations(Calls) \cup Permutations(Hashes) \cup Permutations(Processes)

SQLite(processes) == [snapshot |-> FALSE, processes |-> processes]
MySQL(processes) == [snapshot |-> TRUE, processes |-> processes]

SQLiteWorkers == {SQLite(Processes)}
MySQLWorkers == {MySQL(Processes)}
OneWorker == {SQLite({p}) : p \in Processes} \cup {MySQL({p}) : p \in Processes}
AllDeployments == SQLiteWorkers \cup MySQLWorkers \cup OneWorker
=============================================================================
