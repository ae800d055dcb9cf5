------------------------------- MODULE MCCohort -------------------------------
(***************************************************************************)
(* Instances of Cohort for TLC.  Nodes have integers for ids, ordered as   *)
(* such, and the floating point numbers have two binary digits, so that    *)
(* 1 + 1 + 4 = 6, but 4 + 1 + 1 = 4.  One run has behaviours of two kinds: *)
(* few passes that overlap in every way, and more of them in turns.        *)
(***************************************************************************)
EXTENDS Cohort

MCIdLess(m, o) == m < o

MCDouble == {0, 1, 2, 3, 4, 6, 8, 12, 16}

\* To the nearest, of two equally near ones to that with an even last digit; 16 is infinity.
MCAdd(x, y) ==
    LET s == Min({x + y, 16})
    IN  IF s \in MCDouble THEN s
        ELSE CASE s = 5 -> 4 [] s = 7 -> 8 [] s \in {9, 10} -> 8 [] s \in {11, 13} -> 12
               [] OTHER -> 16

VARIABLE inTurns    \* of which kind the behaviour is

\* The bound on the passes that overlap, and who has a pass when they take turns.
FreePasses == 3
Turns == <<2, 1, 2, 1>>

\* Overlapping passes: all reviews have the score 1, which sums do not tell apart.
OneScore ==
    \A n \in Node : \A r \in RecordsIn(pending[n]) : IsReview(r) => r.kind.trust_score = 1

FreeLoop(n) == ~inTurns /\ Loop(n) /\ passes' <= FreePasses /\ OneScore'

\* In turns: updates arrive before the next pass, the reviews when all passes are over, and
\* both in every order.
AtRest == \A n \in Node : pc[n] = "Clock" /\ outbox[n] = <<>>

TurnLoop(n) ==
    /\ inTurns
    /\ \/ pc[n] # "Clock"
       \/ /\ AtRest
          /\ \A m \in Node : \A r \in wire[m] : IsReview(r)
          /\ passes < Len(Turns) /\ n = Turns[passes + 1]
    /\ Loop(n)

TurnReceive(n) ==
    /\ inTurns /\ AtRest
    /\ Receive(n)
    /\ \A r \in wire[n] \ wire'[n] : IsUpdate(r) \/ passes = Len(Turns)

Step(n) ==
    \/ FreeLoop(n) \/ TurnLoop(n)
    \/ ~inTurns /\ Mesh(n)
    \/ inTurns /\ pc[n] = "Clock" /\ Broadcast(n)
    \/ TurnReceive(n)

MCSpec ==
    /\ Init /\ inTurns \in BOOLEAN
    /\ [][(\E n \in Node : Step(n)) /\ UNCHANGED inTurns]_<<vars, inTurns>>
    /\ \A n \in Node : WF_vars(FreeLoop(n)) /\ WF_vars(TurnLoop(n))
==============================================================================
