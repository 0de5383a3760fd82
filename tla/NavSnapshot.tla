---------------------------- MODULE NavSnapshot ----------------------------
(***************************************************************************)
(* The daily NAV snapshot: record_portfolio_nav reads holdings, then       *)
(* accounts, in transactions of their own, and inserts what they add up to *)
(* in a third.  The book changes between them; any of them may fail, and a *)
(* failed read looks like an empty table.  As in PortfolioViews a book is  *)
(* the version number of its last commit.                                  *)
(***************************************************************************)
EXTENDS Integers

CONSTANTS MaxVersion,   \* bound: commits made to the book, plus one
          MaxFailures   \* bound: database calls that fail

Versions == 1 .. MaxVersion
Failed == 0                      \* what a failed read returns: [] or {}
Reads == Versions \cup {Failed}

VARIABLES version,    \* the committed book
          navPc,      \* where record_portfolio_nav is
          navHold,    \* holdings it has read
          navAcc,     \* accounts it has read
          navRow,     \* the snapshot its last run inserted
          failures

vars == <<version, navPc, navHold, navAcc, navRow, failures>>

NoRow == [acc |-> Failed, hold |-> Failed, written |-> FALSE]

TypeOK ==
  /\ version \in Versions
  /\ navPc \in {"sleep", "holdings", "accounts", "insert"}
  /\ navHold \in Reads
  /\ navAcc \in Reads
  /\ navRow \in [acc : Reads, hold : Reads, written : BOOLEAN]
  /\ failures \in 0 .. MaxFailures

Init ==
  /\ version = 1
  /\ navPc = "sleep" /\ navHold = Failed /\ navAcc = Failed /\ navRow = NoRow
  /\ failures = 0

\* An order or a reset commits.
Commit ==
  /\ version < MaxVersion
  /\ version' = version + 1
  /\ UNCHANGED <<navPc, navHold, navAcc, navRow, failures>>

\* A database read: the committed book, or nothing if the database fails.
Reading(r) ==
  \/ r = version /\ UNCHANGED failures
  \/ r = Failed /\ failures < MaxFailures /\ failures' = failures + 1

\* _nav_snapshot_loop wakes, at startup and once a day.
Wake ==
  /\ navPc = "sleep"
  /\ navPc' = "holdings"
  /\ navRow' = NoRow
  /\ UNCHANGED <<version, navHold, navAcc, failures>>

ReadHoldings ==
  /\ navPc = "holdings"
  /\ \E r \in Reads : Reading(r) /\ navHold' = r
  /\ navPc' = "accounts"
  /\ UNCHANGED <<version, navAcc, navRow>>

\* if not accounts: return {}.
ReadAccounts ==
  /\ navPc = "accounts"
  /\ \E r \in Reads : Reading(r) /\ navAcc' = r
  /\ navPc' = IF navAcc' = Failed THEN "sleep" ELSE "insert"
  /\ UNCHANGED <<version, navHold, navRow>>

\* The INSERT commits, or fails and leaves no row.
Insert ==
  /\ navPc = "insert"
  /\ navPc' = "sleep"
  /\ \/ /\ navRow' = [acc |-> navAcc, hold |-> navHold, written |-> TRUE]
        /\ UNCHANGED failures
     \/ /\ failures < MaxFailures /\ failures' = failures + 1
        /\ UNCHANGED navRow
  /\ UNCHANGED <<version, navHold, navAcc>>

Next == Commit \/ Wake \/ ReadHoldings \/ ReadAccounts \/ Insert

Spec == Init /\ [][Next]_vars

---------------------------------------------------------------------------
(* Properties.                                                             *)

\* "Returns {} and logs a warning on DB error" (docstring of
\* record_portfolio_nav): no snapshot is written from a read that failed.
NoSnapshotFromFailedRead == navRow.written => navRow.hold # Failed
=============================================================================
