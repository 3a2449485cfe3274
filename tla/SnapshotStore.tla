---------------------------- MODULE SnapshotStore ----------------------------
(***************************************************************************)
(* The `store` crate: one SQLite connection behind a mutex, and two tables *)
(* that are only ever added to.                                            *)
(*                                                                         *)
(* A row of risk_snapshots keeps the columns that decisions of the program *)
(* depend on:                                                              *)
(*   id      the uuid SnapshotStore::insert generates                      *)
(*   at      created_at, read from the clock before the mutex is taken     *)
(*   rowid   SQLite's own insertion number                                 *)
(*   hash    portfolio_hash                                                *)
(*   type    experiment_type                                               *)
(*   parent  the baseline the stored trace lists in parent_trace_ids       *)
(*   full    whether this is the narrated (/ask) or direct (/experiment)   *)
(*           result, and not a snapshot the planner's chain wrote mid-plan *)
(*                                                                         *)
(* An insert is two steps of its caller: the id and created_at are made    *)
(* first (the caller keeps now), then the row is committed under the       *)
(* mutex; two inserts may commit in the other order than they were         *)
(* stamped.                                                                *)
(***************************************************************************)
EXTENDS Naturals

CONSTANT NoId              \* "no id": an Option<String> that is None

VARIABLES rows,            \* risk_snapshots
          traces,          \* the ids in agent_execution_traces
          nextRow,         \* the rowid the next committed row gets
          now              \* the clock Utc::now reads, in coarse ticks

storeVars == <<rows, traces, nextRow, now>>

StoreInit == /\ rows = {}
             /\ traces = {}
             /\ nextRow = 1
             /\ now = 1

\* INSERT INTO risk_snapshots, under the mutex.
CommitRow(id, at, hash, type, parent, full) ==
    /\ rows' = rows \cup {[id |-> id, at |-> at, rowid |-> nextRow, hash |-> hash,
                           type |-> type, parent |-> parent, full |-> full]}
    /\ nextRow' = nextRow + 1
    /\ UNCHANGED <<traces, now>>

\* INSERT INTO agent_execution_traces.
CommitTrace(id) == /\ traces' = traces \cup {id}
                   /\ UNCHANGED <<rows, nextRow, now>>

Tick == /\ now' = now + 1
        /\ UNCHANGED <<rows, traces, nextRow>>

\* SnapshotStore::open on the file of the previous process, or on a disk that
\* came up empty: the schema statements are idempotent and keep every row.
Reopen(kept) == /\ rows' = IF kept THEN rows ELSE {}
                /\ traces' = IF kept THEN traces ELSE {}
                /\ nextRow' = IF kept THEN nextRow ELSE 1
                /\ UNCHANGED now

----------------------------------------------------------------------------

\* ORDER BY created_at DESC, rowid DESC: r is listed before s.
Newer(r, s) == r.at > s.at \/ (r.at = s.at /\ r.rowid > s.rowid)

RowsOf(hash) == {r \in rows : r.hash = hash}

\* latest_for_portfolio(hash, 1): the portfolio's row that no other is listed
\* before; empty when it has none.
Latest(hash) == {r \in RowsOf(hash) : \A s \in RowsOf(hash) : ~Newer(s, r)}

\* SnapshotStore::get(id).
ById(id) == {r \in rows : r.id = id}

=============================================================================
