------------------------ MODULE AuthoritativeReport ------------------------
(***************************************************************************)
(* What a structured analysis promises to whoever reads the answer         *)
(* (docs/phase4/workflow_analysis.md): one piece of evidence is published  *)
(* and stays; a business scenario is attached to it at most once and is    *)
(* calculated only from usable evidence; the decision never goes beyond    *)
(* asking for more data; the report closes the answer and shows the rest.  *)
(***************************************************************************)
VARIABLES
  evidence,  \* status of the published evidence, or "none"
  scenario,  \* status of the business scenario, or "none"
  verdict,   \* status of the decision, or "not_required"
  report     \* what the report shows, or Blank

reportVars == <<evidence, scenario, verdict, report>>

Statuses == {"completed", "inconclusive", "invalid", "abstained",
             "unavailable", "failed"}
Usable == evidence \in {"completed", "inconclusive"}

Blank == [evidence |-> "none", scenario |-> "none", verdict |-> "not_required",
          complete |-> FALSE]

Init ==
  /\ evidence = "none" /\ scenario = "none" /\ verdict = "not_required"
  /\ report = Blank

Open == report = Blank

Publish ==
  /\ evidence = "none" /\ Open
  /\ evidence' \in Statuses
  /\ UNCHANGED <<scenario, verdict, report>>

Project ==
  /\ evidence # "none" /\ scenario = "none" /\ Open
  /\ scenario' \in IF Usable THEN {"completed", "inconclusive", "abstained", "failed"}
                   ELSE {"abstained"}
  /\ UNCHANGED <<evidence, verdict, report>>

Decide ==
  /\ evidence # "none" /\ verdict = "not_required" /\ Open
  /\ verdict' = IF Usable THEN "needs_more_data" ELSE "blocked"
  /\ UNCHANGED <<evidence, scenario, report>>

\* The report shows what was published and decided, not what anyone claims.
Report ==
  /\ evidence # "none" /\ Open
  /\ report' = [evidence |-> evidence, scenario |-> scenario,
                verdict |-> verdict, complete |-> Usable]
  /\ UNCHANGED <<evidence, scenario, verdict>>

Next == Publish \/ Project \/ Decide \/ Report

Spec == Init /\ [][Next]_reportVars
=============================================================================
