---------------------------- MODULE EngineContract ----------------------------
(***************************************************************************)
(* What the loop relies on of the ML engine's round numbers.  An answer    *)
(* announces the number after the one the engine left last.  A run without *)
(* an answer may have counted or not, and it may have lost the count, so   *)
(* that the next one begins again (RoundLeft of Federation).               *)
(***************************************************************************)
EXTENDS Integers

VARIABLES
    running,    \* whether an engine runs
    count,      \* the round the last run left
    announced   \* the rounds the loop was told of

Init == ~running /\ count = 0 /\ announced = {}

Start == ~running /\ running' /\ UNCHANGED <<count, announced>>

Answer ==
    /\ running /\ ~running'
    /\ count' = count + 1
    /\ announced' = announced \union {count'}

Fail ==
    /\ running /\ ~running'
    /\ count' \in {count, count + 1, 0}
    /\ UNCHANGED announced

Next == Start \/ Answer \/ Fail

Spec == Init /\ [][Next]_<<running, count, announced>>
==============================================================================
