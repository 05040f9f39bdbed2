----------------------------- MODULE ProviderLog -----------------------------
(***************************************************************************)
(* Provider with a history: what each of the first scans that were built   *)
(* had to report, and what was written to the log then.  The history       *)
(* changes nothing in the loop, which goes on after it is full; it lets    *)
(* the log be compared with a definition that does not mention             *)
(* Provider.lastProblems.                                                  *)
(***************************************************************************)
EXTENDS Provider

CONSTANT MaxReports  \* how many scans the history has room for

VARIABLES
  reports,  \* the problems of the built scans, oldest first
  lines     \* the messages written to the log for each of them

logHistory == <<reports, lines>>

LogInit ==
  /\ Init
  /\ reports = <<>>
  /\ lines = <<>>

LoggingBuild ==
  /\ Build
  /\ IF Len(reports) < MaxReports
     THEN /\ reports' = Append(reports, problems)
          /\ lines' = Append(lines, printed')
     ELSE UNCHANGED logHistory

\* Every other step: only a build leaves "prepared".
Silent ==
  /\ Next
  /\ ~(pc = "prepared" /\ pc' # "prepared")
  /\ UNCHANGED logHistory

LogNext == LoggingBuild \/ Silent

LogSpec == LogInit /\ [][LogNext]_<<vars, logHistory>> /\ Fairness

\* The messages that begin to be reported with the k-th of some reports.
Onsets(list, k) ==
  BagToSet(list[k]) \ (IF k = 1 THEN {} ELSE BagToSet(list[k - 1]))

\* A problem is logged when it appears, on as many lines as the scan has it,
\* and again only after it has gone: a scan that fails, a publish that is
\* canceled and a configuration that did not change do not make a standing
\* problem be logged again, and do not swallow a new one; nor does it matter
\* that a standing problem is reported more often, or less, than it was.
LoggedAtOnset ==
  /\ Len(lines) = Len(reports)
  /\ \A k \in 1 .. Len(reports) : lines[k] = [m \in Onsets(reports, k) |-> reports[k][m]]
=============================================================================
