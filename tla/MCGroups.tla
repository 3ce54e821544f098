------------------------------ MODULE MCGroups ------------------------------
(* Instances of the groups for TLC. *)
EXTENDS Groups

CONSTANTS p, b, gd, cs1, cs2, mark, t1, t2

NoNames   == {}
TwoNames  == {cs1, cs2}
Settled   == {-1, 1}
OneParam  == {p}
OneBox    == {b}
None      == {}
Numbers   == {0, 1}
MCBodies  == {"text"}
MCTokens  == {t1, t2}
=============================================================================
