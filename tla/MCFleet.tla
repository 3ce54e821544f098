------------------------------ MODULE MCFleet ------------------------------
(* Instances of the fleet for TLC. *)
EXTENDS Fleet

Apart     == AllFaults \ {"linger"}     \* rounds that do not overlap
Abandoned == {"abandon", "linger"}
=============================================================================
