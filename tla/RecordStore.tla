----------------------------- MODULE RecordStore -----------------------------
(***************************************************************************)
(* What the federation promises of its records, whatever the loops, the    *)
(* failed rounds, the mesh and the crashes do: a participant publishes     *)
(* records of its own, everybody learns published records one at a time    *)
(* and each at most once, a log is only ever appended to, and a process    *)
(* that stops forgets all of its logs together.                            *)
(***************************************************************************)
EXTENDS Sequences

CONSTANT Node

VARIABLES
    produced,   \* the records each participant has published
    held        \* per process, the log of what it learned of each participant

EmptyLogs == [a \in Node |-> <<>>]

Init ==
    /\ produced = [a \in Node |-> {}]
    /\ held = [n \in Node |-> EmptyLogs]

Publish(a) ==
    /\ produced[a] \subseteq produced'[a]
    /\ produced' = [produced EXCEPT ![a] = produced'[a]]
    /\ UNCHANGED held

Learn(n, a) ==
    /\ \E r \in produced[a] :
          /\ \A i \in DOMAIN held[n][a] : held[n][a][i] # r
          /\ held' = [held EXCEPT ![n][a] = Append(@, r)]
    /\ UNCHANGED produced

Forget(n) ==
    /\ held' = [held EXCEPT ![n] = EmptyLogs]
    /\ UNCHANGED produced

Next ==
    \/ \E a \in Node : Publish(a)
    \/ \E n, a \in Node : Learn(n, a)
    \/ \E n \in Node : Forget(n)

Spec == Init /\ [][Next]_<<produced, held>>
==============================================================================
