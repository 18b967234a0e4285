----------------------------- MODULE Controller -----------------------------
(***************************************************************************)
(* What the Controller's components share: the web workers and scheduled   *)
(* jobs that serve requests, and the database, whose transactions read a   *)
(* view (REPEATABLE READ) but lock the newest rows.                        *)
(***************************************************************************)
CONSTANTS
    Workers,            \* each serves one request at a time
    SnapshotIsolation   \* does the database refuse a lock on a row that is newer
                        \* than the read view (innodb_snapshot_isolation)?

ASSUME DatabaseAssumption == SnapshotIsolation \in BOOLEAN
=============================================================================
