----------------------------- MODULE Stretching -----------------------------
(* How badly a list fits: glue_badness of src/engine.c, used by the page   *)
(* builder, the packer and the line breaker.                               *)
EXTENDS Integers

InfiniteBadness == 10000

\* 100 (needed / available)^3, in the arithmetic of the code.
GlueBadness(needed, available) ==
    LET ratio == IF needed <= 7230584 THEN (needed * 297) \div available
                 ELSE IF available >= 1663497
                      THEN needed \div (available \div 297)
                 ELSE needed
    IN  IF needed = 0 THEN 0
        ELSE IF available <= 0 \/ ratio > 1290 THEN InfiniteBadness
        ELSE (ratio * ratio * ratio + 131072) \div 262144
=============================================================================
