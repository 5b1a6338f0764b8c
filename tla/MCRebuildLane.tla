--------------------------- MODULE MCRebuildLane ---------------------------
(* Two days, whose hour files are of unequal length and whose minute files  *)
(* partly repeat a time stamp. *)
EXTENDS RebuildLane

Times == [day |-> <<2, 4>>, hour |-> <<1, 2, 4, 5>>, minute |-> <<1, 2, 3, 3, 4, 5, 6>>]
=============================================================================
