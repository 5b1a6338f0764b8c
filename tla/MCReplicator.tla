---------------------------- MODULE MCReplicator ----------------------------
(* A node, a way and a relation, small enough for TLC. *)
EXTENDS Replicator

Is(tagged, refs) == [tagged |-> tagged, refs |-> refs]
At0(tagged, refs) == [v |-> 0, tagged |-> tagged, refs |-> refs]

Things == {1, 2, 3}

(* A tagged relation of a way that does not yet refer to the node; or *)
(* nothing at all.                                                    *)
Worlds == {<<At0(FALSE, {}), At0(FALSE, {}), At0(TRUE, {2})>>, <<None, None, None>>}

Single(o, data) == [x \in {o} |-> data]
Pair(o, data, p, other) == [x \in {o, p} |-> IF x = o THEN data ELSE other]

(* Tagging (where it is missing, creating) and deleting the node; tagging   *)
(* the way; the untagged way comes to refer to a node that exists, or that  *)
(* the same file changes; the relation loses its tag, or is deleted by a    *)
(* file that tags the node.                                                 *)
Changes ==
  {Single(1, Is(TRUE, {})), Single(1, None), Single(2, Is(TRUE, {1})),
   Single(2, Is(FALSE, {1})), Pair(1, Is(FALSE, {}), 2, Is(FALSE, {1})),
   Single(3, Is(FALSE, {2})), Pair(1, Is(TRUE, {}), 3, None)}
=============================================================================
