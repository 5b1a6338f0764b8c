----------------------------- MODULE MCFullPbf -----------------------------
(* Hours of two minutes followed by minutes.                               *)
EXTENDS FullPbf

HourMinute == <<"hour", "minute">>
TwoMinuteHours == [c \in {"hour", "minute"} |-> IF c = "hour" THEN 2 ELSE 1]
(* Steps before which a kill loses something, and all of them but one.     *)
Perils == {"extracting", "clear", "publish", "imported", "refull", "restate"}
ExtractsSurvive == Perils \ {"extracting"}
SnapshotsSurvive == Perils \ {"refull"}
=============================================================================
