--------------------------- MODULE MCBlueGreen ---------------------------
(* Fault sets for the model-checking runs of BlueGreen.                  *)
EXTENDS BlueGreen

NoFaults == {}
CalmFaults == {"pod", "api", "job"}
ImportFaults == {"import"}
AllFaults == {"pod", "api", "job", "import", "rm"}
==========================================================================
