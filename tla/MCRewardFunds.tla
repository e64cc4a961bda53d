---------------------------- MODULE MCRewardFunds ----------------------------
(* Rewards for TLC in one run: the queue of requests, each paid with the coins *)
(* there are, and one request whose coins may have to be merged first.        *)
(* They share no state, so a behaviour runs one of them, chosen at the start. *)
EXTENDS RewardQueue, RewardConsolidation, TLC

CONSTANT large

VARIABLE part

AnyOwner == Request \X Owner

\* The large coin pays one reward and leaves half of another.
TwoUnits == [r \in Request |-> 2]
Faces == [c \in Base |-> IF c = large THEN 3 ELSE 1]

\* Three coins no two of which make up the larger amounts, one more of one of them, and
\* one that, deposited between the two reads of the funds, makes a round of two outputs.
MCValue == [c \in Piece |-> <<1, 2, 2, 1, 5>>[c]]

\* Nothing tells requests or owners apart.
MCSymmetry == Permutations(Request) \cup Permutations(Owner)

MCInit ==
    /\ part \in {"queue", "consolidation"}
    /\ Init /\ InitFunds
    /\ part = "queue" => need = 1 /\ supply = {}
    /\ part = "consolidation" => deposited = {}

MCNext ==
    /\ \/ part = "queue" /\ Next /\ UNCHANGED varsFunds
       \/ part = "consolidation" /\ NextFunds /\ UNCHANGED vars
    /\ UNCHANGED part

MCSpec == MCInit /\ [][MCNext]_<<vars, varsFunds, part>>
=============================================================================
