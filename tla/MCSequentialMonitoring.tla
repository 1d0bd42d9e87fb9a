----------------------- MODULE MCSequentialMonitoring -----------------------
(***************************************************************************)
(* Three looks: the first has no budget (its tail underflowed), the second *)
(* some, the third what is left of a total the raw shape would overshoot.  *)
(***************************************************************************)
EXTENDS SequentialMonitoring, TLC

CONSTANTS u1, u2, x, y, b1, b2

MCShape == <<0, 3, 6>>
MCUnits == {u1, u2}
MCValues == {x, y}
MCBindings == {b1, b2}

\* Units, outcome values and bindings are only compared with each other.
Symmetry == Permutations(MCUnits) \cup Permutations(MCValues)
              \cup Permutations(MCBindings)
=============================================================================
