---------------------------- MODULE AccountLedger ----------------------------
(***************************************************************************)
(* What the confidential pool promises, without UTXOs, commitments, proofs  *)
(* or calls: one balance per account, and steps that each move one amount,  *)
(* at most MaxAmount, into, between or out of accounts.                     *)
(***************************************************************************)
EXTENDS Integers

CONSTANTS Account, MaxAmount
VARIABLE holdings

Init == holdings = [a \in Account |-> 0]

Deposit(a, amount) == holdings' = [holdings EXCEPT ![a] = @ + amount]

Pay(from, to, amount) ==
    /\ from # to
    /\ amount <= holdings[from]
    /\ holdings' = [holdings EXCEPT ![from] = @ - amount, ![to] = @ + amount]

Withdraw(a, amount) ==
    /\ amount <= holdings[a]
    /\ holdings' = [holdings EXCEPT ![a] = @ - amount]

Next ==
    \E a, b \in Account, amount \in 1..MaxAmount :
        Deposit(a, amount) \/ Pay(a, b, amount) \/ Withdraw(a, amount)

Spec == Init /\ [][Next]_holdings
=============================================================================
