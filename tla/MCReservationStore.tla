------------------------- MODULE MCReservationStore -------------------------
EXTENDS ReservationStore

CONSTANTS c1, c2, r1, r2, pay1, pay2, ox, i1

\* All operations want one input; pay1 expires at 1, pay2 at 2.
MCInputOf == [o \in Operation \cup Foreign |-> i1]
MCDeadlineOf ==
    [o \in Operation \cup Foreign |-> IF o = pay1 THEN 1 ELSE IF o = pay2 THEN 2 ELSE 0]
MCSymmetry == Permutations(Client) \cup Permutations(Record)

\* A stop comes before anything was reconciled, and the gate opens before block 2.
StopsEarly ==
    gate.generation > 0 =>
        /\ reconciling = None /\ (gate.stopped => tip.time <= 1)
        /\ \A r \in Record : operations[r] # None =>
               operations[r].stateVersion = 1 \/ operations[r].status = "released"
=============================================================================
