------------------------- MODULE RolloutGovernance -------------------------
(***************************************************************************)
(* What the agent workflow promises about decisions a human has to approve *)
(* (packages/agents/human_approval_agent.py, executive_summary_agent.py):  *)
(* at most one proposal is made, consent is asked for exactly when the     *)
(* proposal is an action and is never anything the caller did not say, and *)
(* the announcement shows that consent.                                    *)
(***************************************************************************)
VARIABLES
  answer,    \* what the caller said beforehand, or "silent"
  proposal,  \* "none" before a decision, an action, or "hold"
  consent,   \* "none" before the approval step
  announced  \* "none" before the summary

govVars == <<answer, proposal, consent, announced>>

Verdicts == {"approved", "rejected", "revision_requested"}
Actions == {"rollout", "do_not_rollout", "rollback"}

Init ==
  /\ answer \in Verdicts \cup {"silent"}
  /\ proposal = "none" /\ consent = "none" /\ announced = "none"

\* A decision is made before any consent is recorded, at most once.
Propose ==
  /\ proposal = "none" /\ consent = "none" /\ announced = "none"
  /\ proposal' \in Actions \cup {"hold"}
  /\ UNCHANGED <<answer, consent, announced>>

\* Only an action needs consent; a silent caller leaves it pending.
Ask ==
  /\ consent = "none" /\ announced = "none"
  /\ consent' = IF proposal \notin Actions THEN "skipped"
                ELSE IF answer = "silent" THEN "pending" ELSE answer
  /\ UNCHANGED <<answer, proposal, announced>>

\* What may be announced: a consent that is not an approval comes first, an
\* action stands only when it was approved.
Announcement ==
  IF consent \in {"pending", "rejected", "revision_requested"} THEN consent
  ELSE IF consent = "approved" /\ proposal = "rollout" THEN "rollout_approved"
  ELSE IF consent = "approved" THEN proposal
  ELSE "no_action"

Announce ==
  /\ consent # "none" /\ announced = "none"
  /\ announced' = Announcement
  /\ UNCHANGED <<answer, proposal, consent>>

Next == Propose \/ Ask \/ Announce

Spec == Init /\ [][Next]_govVars
=============================================================================
