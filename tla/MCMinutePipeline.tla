------------------------ MODULE MCMinutePipeline ------------------------
(* Roots and upstream files for the model-checking runs.                *)
EXTENDS MinutePipeline

CONSTANTS a, b

TwoRoots == {a, b}
OneRoot == {a}

Ch(adds, drops) == [adds |-> adds, drops |-> drops]

(* Files that the pre-filter drops, that only tag, and that do both.    *)
SomeChanges == {Ch({}, {a}), Ch({a}, {}), Ch({b}, {a}), Ch({a}, {b})}
==========================================================================
