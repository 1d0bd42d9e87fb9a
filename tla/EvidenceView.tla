---------------------------- MODULE EvidenceView ----------------------------
(***************************************************************************)
(* What the question page promises its reader: the panel is empty, loads   *)
(* the answer to one question about the experiment on display, or shows    *)
(* that answer or a problem; changing the experiment empties it, and what  *)
(* is loading is concluded.  Nothing is known here of calls, mounts and    *)
(* late responses.                                                         *)
(***************************************************************************)
CONSTANTS Experiments, Questions, None

VARIABLES
  context,  \* the experiment on display
  panel     \* what the panel shows, and which question and evidence

Empty == [kind |-> "empty", question |-> None, evidence |-> {}]
Loading(q) == [kind |-> "loading", question |-> q, evidence |-> {}]
Problem == [kind |-> "problem", question |-> None, evidence |-> {}]
Answer(q, chunks) == [kind |-> "answer", question |-> q, evidence |-> chunks]

Init == context \in Experiments \cup {None} /\ panel = Empty

Ask == /\ panel.kind # "loading"
       /\ \E q \in Questions : panel' = Loading(q)
       /\ UNCHANGED context

Conclude == /\ panel.kind = "loading"
            /\ \/ panel' = Problem
               \/ \E chunks \in SUBSET {context} :
                    panel' = Answer(panel.question, chunks)
            /\ UNCHANGED context

Clear == /\ panel.kind # "loading"
         /\ panel' = Empty
         /\ UNCHANGED context

Change == context' # context /\ panel' = Empty

Next == Ask \/ Conclude \/ Clear \/ Change

Spec == Init /\ [][Next]_<<context, panel>>

\* With the promise that whatever is loading is concluded or abandoned.
FairSpec == Spec /\ WF_<<context, panel>>(Conclude)
=============================================================================
