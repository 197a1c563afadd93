----------------------------- MODULE NewestWins -----------------------------
(***************************************************************************)
(* What a generation counter is for: a place on the screen that is filled  *)
(* by answers to asynchronous requests.  Only the answer to the newest     *)
(* request may fill it, a dismissal empties it and makes every request so  *)
(* far an old one, and an answer to an old request changes nothing.        *)
(* managers/raypathManager.ts has two such places, the baseline            *)
(* (baselineLoadGeneration) and the detail window (detailGeneration).      *)
(***************************************************************************)
EXTENDS Naturals

VARIABLES
    newest,      \* number of the last request or dismissal
    pending,     \* numbers of the requests not answered
    showing      \* the request whose answer fills the place, 0 when it is empty

vars == <<newest, pending, showing>>

Init == newest = 0 /\ pending = {} /\ showing = 0

\* What is shown stays until the answer comes.
Ask ==
    /\ newest' = newest + 1
    /\ pending' = pending \union {newest'}
    /\ UNCHANGED showing

Dismiss ==
    /\ newest' = newest + 1
    /\ showing' = 0
    /\ UNCHANGED pending

\* An answer may bring nothing to show; an error may leave what is shown.
Answer(n) ==
    /\ pending' = pending \ {n}
    /\ showing' \in IF n = newest THEN {n, 0, showing} ELSE {showing}
    /\ UNCHANGED newest

Next == Ask \/ Dismiss \/ \E n \in pending : Answer(n)

Spec == Init /\ [][Next]_vars
=============================================================================
