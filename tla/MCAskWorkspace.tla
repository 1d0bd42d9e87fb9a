--------------------------- MODULE MCAskWorkspace ---------------------------
(***************************************************************************)
(* Two requests, of the page or of another client, two known experiments   *)
(* and one that is not, and three mounts: enough for an answer that arrives  *)
(* after the reader has gone to another experiment and asked there, or has *)
(* asked again, and for two handlers that interleave.                      *)
(***************************************************************************)
EXTENDS AskWorkspace

CONSTANTS a, b, c

MCRequests == 1..2
MCExperiments == {a, b, c}
MCKnown == {a, b}
\* The page was opened before the first experiment was ingested, or after.
MCLists == {<<b>>, <<a, b>>}
MCDirectAsks == {a, c}
MCTraceHash == [r \in MCRequests |-> 50]

LangSmith(strict, rate) ==
  [kind |-> "langsmith", strict |-> strict, rate |-> rate, alwaysErrors |-> TRUE]
OTel ==
  [kind |-> "otel", strict |-> FALSE, rate |-> 100, alwaysErrors |-> TRUE]
Phoenix == [kind |-> "phoenix", strict |-> TRUE, rate |-> 100, alwaysErrors |-> TRUE]

\* Off, sampled out but for errors, and both kinds with either of them strict.
Both == <<LangSmith(TRUE, 100), OTel>>
Isolated == <<LangSmith(FALSE, 100), Phoenix>>
Quiet == <<LangSmith(FALSE, 10)>>
MCSetups == {Quiet, Both, Isolated}
MCProcesses == {[mode |-> "agent_workflow", setup |-> Quiet],
                [mode |-> "agent_workflow", setup |-> Both],
                [mode |-> "legacy_rag", setup |-> Isolated]}
=============================================================================
