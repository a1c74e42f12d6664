--------------------------- MODULE MCTimeoutManager ---------------------------
(* Instances of TimeoutManager for TLC. *)
EXTENDS TimeoutManager

CONSTANTS a1, a2, a3, r1, r2

ThreeAddrs   == {a1, a2, a3}
OneReceiver  == {r1}
TwoReceivers == {r1, r2}
AllOps       == {"schedule", "drop", "dropReceiver"}
OnlySchedule == {"schedule"}
AnyContents  == {"all", "zero", "huge", "nothing"}
Extremes     == {"zero", "huge"}
SoonOrLater  == {0, 1}
===============================================================================
