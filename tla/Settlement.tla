----------------------------- MODULE Settlement -----------------------------
(***************************************************************************)
(* What a speculative run promises, with no word of who computes what: the *)
(* regions 0 .. N of a document are settled from the front.  A region may  *)
(* be written at any time until it is settled, and with anything; it is    *)
(* right when it is settled, stays as it is from then on, and the whole is *)
(* published once, when every region is settled.                           *)
(***************************************************************************)
EXTENDS Integers

CONSTANT N

VARIABLES
    settled,    \* how many regions, from the front, are settled
    text,       \* what stands in each region
    published

vars == <<settled, text, published>>

Texts == [0 .. N -> {"blank", "good", "bad"}]

Init ==
    /\ settled = 0
    /\ text = [r \in 0 .. N |-> "blank"]
    /\ published = FALSE

SettledUntouched == \A r \in 0 .. settled - 1 : text'[r] = text[r]

\* Somebody writes, on a guess, where nothing is settled.
Guess ==
    /\ ~published
    /\ text' \in Texts
    /\ SettledUntouched
    /\ UNCHANGED <<settled, published>>

\* One region or several, the next ones, are settled as right.
Settle ==
    /\ settled' \in settled + 1 .. N + 1
    /\ text' \in Texts
    /\ SettledUntouched
    /\ \A r \in settled .. settled' - 1 : text'[r] = "good"
    /\ UNCHANGED published

Publish ==
    /\ ~published
    /\ settled = N + 1
    /\ published' = TRUE
    /\ UNCHANGED <<settled, text>>

Next == Guess \/ Settle \/ Publish

Spec == Init /\ [][Next]_vars
FairSpec == Spec /\ WF_vars(Settle) /\ WF_vars(Publish)
=============================================================================
