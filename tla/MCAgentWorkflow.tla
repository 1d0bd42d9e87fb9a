--------------------------- MODULE MCAgentWorkflow ---------------------------
(***************************************************************************)
(* Two stored experiments and one that is not: a search can mix the chunks *)
(* of two experiments, and a pinned id can name no row.                    *)
(***************************************************************************)
EXTENDS AgentWorkflow, TLC

CONSTANTS a, b, c

MCExperiments == {a, b, c}
MCStored == {a, b}

\* The two stored experiments are interchangeable.
Symmetry == Permutations(MCStored)
=============================================================================
