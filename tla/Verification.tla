------------------------------ MODULE Verification ------------------------------
(***************************************************************************)
(* The quality gate behind writing tools: verification/layer.py, the       *)
(* reports it stores (verification/report.py), the regression cases it     *)
(* captures (verification/regression.py), and the self review that looks   *)
(* at the reports (verification/self_review.py).                           *)
(*                                                                         *)
(* A check is "passed" or the output of the command that failed.  Checks   *)
(* are those of the first commands, in their order.                        *)
(***************************************************************************)
EXTENDS Naturals, Sequences

\* Mutant: the latest record stands for all.
Wrote_Latest(records) == records[Len(records)] = "wrote"

\* One of the records is of write_file or edit_file, and succeeded.
Wrote(records) == \E i \in DOMAIN records : records[i] = "wrote"

\* The loop over the commands ends with the last one, or the first to fail.
AllChecked(checks, commands) ==
  Len(checks) > 0 /\ (Len(checks) = commands \/ checks[Len(checks)] # "passed")

\* VerificationReport.create
Report(of, checks) ==
  [of |-> of, checks |-> checks, passed |-> \A i \in DOMAIN checks : checks[i] = "passed"]

\* The fingerprint is made of the commands of the report and the output of the
\* first that failed.
Fingerprint(report) ==
  LET failed == {i \in DOMAIN report.checks : report.checks[i] # "passed"}
      first == CHOOSE i \in failed : \A j \in failed : i <= j IN
  [commands |-> Len(report.checks), output |-> report.checks[first]]

\* capture: one case for each fingerprint; a known one gets a new source.
Captured(cases, report) ==
  IF report.passed THEN cases
  ELSE LET known == {c \in cases : c.fingerprint = Fingerprint(report)}
           new == [fingerprint |-> Fingerprint(report), source |-> report.of] IN
       (cases \ known) \cup {new}

\* VerificationStore.save
WithReport(reports, report) == Append(reports, report)

\* VerificationStore.latest: of the session, whichever run it is of.
LatestPassed(reports) == reports = <<>> \/ reports[Len(reports)].passed

\* SelfReview.run, which has no caller: the answer and the latest report decide.
ReviewPasses(reports, blank) == ~blank /\ LatestPassed(reports)

=============================================================================
