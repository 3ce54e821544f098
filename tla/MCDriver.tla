------------------------------ MODULE MCDriver ------------------------------
(* The preamble in one file and two chapters in another, which opens after    *)
(* the checkpoint the preamble leaves and is open at the next.                *)
EXTENDS Driver, TLC

MCFileOf == (0 :> "main" @@ 1 :> "chapters" @@ 2 :> "chapters")
MCDraft == [p \in 0..R |-> 1]
MCDeclined == {{}, {0}, 0..R-1}
=============================================================================
