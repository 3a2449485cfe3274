---------------------------- MODULE DriftListing ----------------------------
(***************************************************************************)
(* GET /drift (routes::get_drift) beside the requests that store drifts:   *)
(* the newest rows of a portfolio are scanned for risk drifts until there  *)
(* are as many as were asked for.  It reads the store once and changes     *)
(* nothing.                                                                *)
(***************************************************************************)
EXTENDS AskService

CONSTANTS ScanWindow,   \* DRIFT_SCAN_WINDOW
          Limits        \* the limits a client may ask for

ASSUME ListingAssumption == ScanWindow \in Nat /\ Limits \subseteq Nat

\* How many rows of a set the queries list before a row.
Ahead(row, set) == Cardinality({s \in set : Store!Newer(s, row)})

\* The place of a row among those of its portfolio.
Place(row) == Ahead(row, Store!RowsOf(row.hash))

\* latest_for_portfolio(hash, ScanWindow).
Candidates(p) == {row \in Store!RowsOf(p) : Place(row) < ScanWindow}

ScannedDrifts(p) == {row \in Candidates(p) : row.type = "RiskDrift"}

\* The loop of get_drift looks at the limit when it has listed a row, so that a
\* limit of 0 lists one.
Most(limit) == IF limit = 0 THEN 1 ELSE limit

\* Mutant of Listing: only as many rows are scanned as drifts are asked for.
ListingScansLimit(p, limit) == {row \in ScannedDrifts(p) : Place(row) < Most(limit)}

\* The rows of the reply, which has them in the order of the query: the drifts of
\* the scan that fewer than the limit of them come before.
Listing(p, limit) ==
    {row \in ScannedDrifts(p) : Ahead(row, ScannedDrifts(p)) < Most(limit)}

\* A drift whose client was answered is listed for its portfolio, unless the
\* disk was replaced, as many newer drifts are listed instead as were asked for,
\* or the rows before it fill the scan; rows that were stamped in another order
\* than they were committed hide none.  No more are listed than were asked for
\* (but the one that a limit of 0 lists), and the query leaves no two in either
\* order.
AnsweredDriftListed ==
    \A limit \in Limits : \A p \in Portfolios :
       LET list == Listing(p, limit)
       IN /\ Cardinality(list) <= Most(limit)
          /\ \A a, b \in list : a # b => (Store!Newer(a, b) <=> ~Store!Newer(b, a))
          /\ \A r \in Requests \ lost :
                (reply[r] = "ok" /\ hash[r] = p /\ first[r].type = "RiskDrift") =>
                   \E row \in ResultRows(r) :
                      \/ row \in list
                      \/ Cardinality(list) >= limit /\ \A s \in list : Store!Newer(s, row)
                      \/ Place(row) >= ScanWindow

=============================================================================
