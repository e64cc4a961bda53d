---------------------------- MODULE MCRewardQueue ----------------------------
(***************************************************************************)
(* Instances of RewardQueue.                                                *)
(***************************************************************************)
EXTENDS RewardQueue, TLC

CONSTANTS r1, r2, alice, bob, large

TwoOwners == {<<r1, alice>>, <<r2, bob>>}

\* Coins are of one unit, but the large one pays one reward and leaves change, which
\* with the rest of the funds pays another.
OneUnit == [r \in Request |-> 1]
TwoUnits == [r \in Request |-> 2]
Faces == [c \in Base |-> IF c = large THEN 3 ELSE 1]

\* With TwoOwners, a request and its owner change places together.
PairSymmetry ==
    Permutations(Base \ {large}) \cup {(r1 :> r2) @@ (r2 :> r1) @@ (alice :> bob) @@ (bob :> alice)}

\* Where change is made, nothing is disturbed and cancelled only after a reorganisation:
\* everything together is too many states.
CalmWithChange ==
    large \in deposited => disturbances = 0 /\ (handler["operator"] # Idle => fork > 0)
=============================================================================
