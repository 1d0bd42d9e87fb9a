---------------------------- MODULE AlphaSpending ----------------------------
(***************************************************************************)
(* What sequential monitoring promises about the error budget of one       *)
(* experiment (docs/phase4/sequential_testing.md): every look pays for its *)
(* chance to reject, the payments never exceed the total alpha, only a look *)
(* that paid can reject, and after a rejection nothing is paid any more.   *)
(***************************************************************************)
EXTENDS Integers

CONSTANT TotalAlpha

VARIABLES
  spent,   \* the alpha the looks so far have paid
  verdict  \* "open", "rejected" or "void"

alphaVars == <<spent, verdict>>

Init == spent = 0 /\ verdict = "open"

Pay == \E price \in 0..(TotalAlpha - spent) :
  /\ verdict = "open"
  /\ spent' = spent + price
  /\ verdict' \in IF price > 0 THEN {"open", "rejected"} ELSE {"open"}

\* A broken plan takes back even a rejection.
Void ==
  /\ verdict' = "void"
  /\ UNCHANGED spent

Next == Pay \/ Void

Spec == Init /\ [][Next]_alphaVars
=============================================================================
