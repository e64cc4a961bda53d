------------------------------ MODULE MCWallet ------------------------------
(* The wallet's own state for TLC in one run: the submitter's journal and the *)
(* owner's store.  They share no state, so a behaviour runs one of them,      *)
(* chosen at the start.                                                       *)
EXTENDS Submission, OwnerStore, TLC

CONSTANTS p1, p2, o1, o2, i1, i2

VARIABLE part

\* Processes of the submitter and of the owner are p1 and p2, operations o1 and o2.
MCSymmetry == Permutations(Proc) \cup Permutations(LocalOp) \cup Permutations(Coin)

MCInit ==
    /\ part \in {"submission", "store"}
    /\ InitSubmission /\ InitOwner

MCNext ==
    /\ \/ part = "submission" /\ NextSubmission /\ UNCHANGED varsOwner
       \/ part = "store" /\ NextOwner /\ UNCHANGED varsSubmission
    /\ UNCHANGED part

MCSpec == MCInit /\ [][MCNext]_<<varsSubmission, varsOwner, part>>
=============================================================================
