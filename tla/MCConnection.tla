---------------------------- MODULE MCConnection ----------------------------
(* The ends of a Pay for TLC in one run: the adapter with the pool under it;  *)
(* the client of one Pay: two processes of the owner, three calls between     *)
(* them, and the exported Pay in the hands of another submitter; and the      *)
(* sign-in at the service before it.  They share no state (PaymentClient has  *)
(* a chain of its own), so a behaviour runs one of them, chosen at the start. *)
EXTENDS PaymentAdapter, PaymentClient, AuthChallenge, TLC

CONSTANTS c1, c2, q1, q2

VARIABLE part

\* PaymentAdapter: one depositor, a partial payment of 1 out of a UTXO
\* of 2, and a router that may deliver and report different amounts.
MCClaim == {1, 2}

MCSymmetry == Permutations(Tab) \cup Permutations(Login)

MCInit ==
    /\ part \in {"adapter", "client", "sign-in"}
    /\ InitAdapter /\ InitClient /\ InitAuth

MCNext ==
    /\ \/ part = "adapter" /\ NextAdapter /\ UNCHANGED <<varsClient, varsAuth>>
       \/ part = "client" /\ NextClient /\ UNCHANGED <<allVars, varsAuth>>
       \/ part = "sign-in" /\ NextAuth /\ UNCHANGED <<allVars, varsClient>>
    /\ UNCHANGED part

MCSpec == MCInit /\ [][MCNext]_<<allVars, varsClient, varsAuth, part>>
=============================================================================
