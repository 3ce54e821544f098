------------------------------ MODULE MCRelay ------------------------------
(* Instances of the relay for TLC. *)
EXTENDS Relay

MCWrong  == {"w1", "w2"}
Clean    == {}
Late     == {"late"}
Tainting == {"taint"}
=============================================================================
