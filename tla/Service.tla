------------------------------ MODULE Service ------------------------------
(***************************************************************************)
(* What the blue/green rebuild promises its users: the public API is       *)
(* answered from one generation of the data; that generation is always     *)
(* completely imported, stays on disk for as long as it is offered, and    *)
(* is only ever replaced by a newer one.                                   *)
(***************************************************************************)
EXTENDS Naturals

CONSTANT Generations   \* the generations there may be: natural numbers

VARIABLES
  stock,     \* the generations completely imported and still on disk
  offered    \* the generation the API is answered from

vars == <<stock, offered>>

Init == offered \in Generations /\ stock = {offered}

(* An import completes: its data is at least as new as what is offered.    *)
Build(g) ==
  /\ g >= offered
  /\ stock' = stock \union {g}
  /\ UNCHANGED offered

(* A generation that is not offered leaves the disk.                       *)
Discard(g) ==
  /\ g # offered
  /\ stock' = stock \ {g}
  /\ UNCHANGED offered

(* The API switches to a newer generation, which is in stock.          *)
Offer(g) ==
  /\ g \in stock
  /\ g > offered
  /\ offered' = g
  /\ UNCHANGED stock

Next == \E g \in Generations : Build(g) \/ Discard(g) \/ Offer(g)

Spec == Init /\ [][Next]_vars
=============================================================================
