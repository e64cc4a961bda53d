------------------------------- MODULE MCPool -------------------------------
(* The ledger for TLC in one run: the pool, the proofs about hidden amounts   *)
(* it relies on, and the client that reads its history.  They share no state  *)
(* (Pool uses what the proofs establish, HistorySync has a chain of its own), *)
(* so a behaviour runs one of them, chosen at the start.                      *)
EXTENDS Pool, HistorySync, AmountProofs, TLC

CONSTANTS alice, bob, deposit, pay, send

VARIABLE part

\* Pool: amounts 1..M with M = 2 in a field of 9 elements, and claims outside
\* the range on both sides (0, 3, and 8, which is -1 modulo 9).
MCClaim == {0, 1, 2, 3, 8}

\* HistorySync: a deposit, and two operations that want its output.
MCConsumes == [o \in Op |-> IF o = deposit THEN {} ELSE {1}]
MCCreates == [o \in Op |-> IF o = deposit THEN {1} ELSE IF o = pay THEN {3} ELSE {4}]

\* AmountProofs: amounts of 4 bits in a group of order 19, two draws of the prover.
MCSecret ==
    {[blinding |-> 3, alpha |-> 5, rho |-> 7, tau1 |-> 2, tau2 |-> 11, nonce |-> 4,
      left |-> <<1, 2, 3, 4>>, right |-> <<5, 0, 18, 6>>],
     [blinding |-> 0, alpha |-> 0, rho |-> 1, tau1 |-> 16, tau2 |-> 3, nonce |-> 9,
      left |-> <<0, 9, 3, 14>>, right |-> <<8, 1, 8, 2>>]}
MCOpening == [amount : {1, 2, 16}, blinding : {0, 5}]

MCSymmetry == Permutations(Owner)

MCInit ==
    /\ part \in {"pool", "history", "proof"}
    /\ Init /\ InitHistory /\ InitProof
    /\ part # "history" => chain = <<Empty>>

MCNext ==
    /\ \/ part = "pool" /\ Next /\ UNCHANGED <<varsHistory, varsProof>>
       \/ part = "history" /\ NextHistory /\ UNCHANGED <<vars, varsProof>>
       \/ part = "proof" /\ NextProof /\ UNCHANGED <<vars, varsHistory>>
    /\ UNCHANGED part

MCSpec == MCInit /\ [][MCNext]_<<vars, varsHistory, varsProof, part>>
=============================================================================
