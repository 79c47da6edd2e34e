----------------------------- MODULE ReportIndex ------------------------------
(***************************************************************************)
(* One row of the reports table and what the index's calls do to it        *)
(* (workers/bug-intake/src/indexStore.ts).  The index is a Durable Object  *)
(* of its own and each of these runs without an await, so a call is one    *)
(* step of whoever makes it.  The columns that only the list page shows    *)
(* (cached status, activity, viewed, triaged) are left out.                *)
(***************************************************************************)
EXTENDS Naturals

Row == [size : Nat, committed : BOOLEAN, following : BOOLEAN,
        bundleDeleted : BOOLEAN]

NoRow == [gone |-> TRUE]

\* reserveReport inserts the row before a byte is stored.
Reserved(n) == [size |-> n, committed |-> FALSE, following |-> FALSE,
                bundleDeleted |-> FALSE]

\* commitReport: following is set on a retry too.
CommitReport(row, following) ==
  IF row = NoRow THEN NoRow
  ELSE [row EXCEPT !.committed = TRUE, !.following = @ \/ following]

\* bundleExpired: only a committed row that is followed outlives its bundle.
BundleExpired(row) ==
  IF row # NoRow /\ row.committed /\ row.following
    THEN [row EXCEPT !.bundleDeleted = TRUE, !.size = 0]
    ELSE NoRow

\* threadEnded: a row whose bundle is gone goes, another is followed no more.
ThreadEnded(row) ==
  IF row = NoRow \/ row.bundleDeleted THEN NoRow
  ELSE [row EXCEPT !.following = FALSE]
=============================================================================
