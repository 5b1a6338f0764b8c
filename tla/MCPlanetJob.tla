---------------------------- MODULE MCPlanetJob ----------------------------
(* Two planet snapshots, and minutes before, between and after them. *)
EXTENDS PlanetJob

TwoSnapshots == <<1, 2>>
=============================================================================
