--------------------------- MODULE MCRealtimeFanout ---------------------------
(* Small instances of RealtimeFanout for TLC. *)
EXTENDS RealtimeFanout, TLC

CONSTANTS a, b, c1, c2, k

OneProcess == {a}
TwoProcesses == {a, b}
TwoChanges == {c1, c2}
OneClient == {k}

\* Processes and changes differ in nothing but their names.
Symmetric == Permutations(Processes) \cup Permutations(Changes)

\* Where SYMMETRY cannot be used, c1 is the change that is made first.
OneFirst == c2 \in made' => c1 \in made'
=============================================================================
