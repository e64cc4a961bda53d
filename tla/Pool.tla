-------------------------------- MODULE Pool --------------------------------
(***************************************************************************)
(* contracts/src/Pool.sol: a pool of ETH whose holdings are UTXOs.  A UTXO  *)
(* stores its owner and a Pedersen commitment; the model writes the amount  *)
(* the commitment hides, a member of the scalar field 0..Q-1.  Balance and  *)
(* range proofs are the statements they prove: the balance equation holds   *)
(* modulo Q, and a range-proved amount lies in 1..M.                        *)
(*                                                                          *)
(* A transaction is atomic except where the code gives control away: the    *)
(* CALL that pays a withdrawal's destination, in the middle of _commit.     *)
(* `calls' is the stack of such calls in progress; each frame keeps the     *)
(* storage a revert goes back to.                                           *)
(***************************************************************************)
EXTENDS Integers, Sequences, FiniteSets, FiniteSetsExt

CONSTANTS
    Owner,      \* accounts that own UTXOs and sign requests
    Payee,      \* contracts a withdrawal may pay, PoolAddress among them
    PoolAddress,\* the pool's own address: a legal destination, its receive() accepts
    M,          \* the largest hidden amount, 1 << 64 in the code
    Q,          \* the order of the group the commitments live in
    Claim,      \* the amounts the commitments of a request may hide
    MaxOps,     \* bound: operation ids that exist
    MaxBalance, \* bound: ETH that may be donated up to
    None        \* "not executed"

W == 2 * M

OpId == 1..MaxOps
UtxoId == 2..(2 * MaxOps + 1)

ASSUME AmountAssumption ==
    /\ M \in Nat \ {0}
    /\ Q \in Nat
    /\ Q > 4 * M
    /\ Claim \subseteq 0..(Q - 1)

ASSUME BoundAssumption ==
    /\ MaxOps \in Nat
    /\ MaxBalance \in Nat

ASSUME AddressAssumption == PoolAddress \in Payee /\ None \notin Payee \cup Owner

VARIABLES
    utxos,               \* UtxoId -> record; status 0 absent, 1 unspent, 2 spent
    executedOperations,  \* OpId -> the request executed under that id, or None
    accountedLiability,  \* ETH owed to the holders of unspent UTXOs
    balance,             \* address(this).balance
    operationInProgress, \* the reentrancy flag of `enter'
    log,                 \* the operations in the order their events are emitted
    calls                \* withdrawal CALLs in progress, innermost last

vars == <<utxos, executedOperations, accountedLiability, balance,
          operationInProgress, log, calls>>

Executed == {op \in OpId : executedOperations[op] # None}

-----------------------------------------------------------------------------
(* Requests.  signer is the account the signature recovers to.              *)

Kind == {"deposit", "transfer", "withdraw"}
Output == [owner : Owner, amount : Claim]
UpToTwo(S) == {<<>>} \cup {<<x>> : x \in S} \cup (S \X S)

Request == [kind : Kind, owner : Owner, signer : Owner, inputIds : UpToTwo(UtxoId),
            outputs : UpToTwo(Output), d : 0..(W + 1), w : 0..(W + 1), destination : Payee \cup {None}]

ASSUME NoneAssumption == None \notin Request

\* PoolBinding.outputId: distinct for every operation and index (a hash).
OutputId(op, i) == 2 * op + (i - 1)

OutputIds(op, r) == {OutputId(op, i) : i \in DOMAIN r.outputs}
Inputs(r) == {r.inputIds[i] : i \in DOMAIN r.inputIds}

\* The sum of at most two amounts.
Total(s) == IF Len(s) = 0 THEN 0 ELSE IF Len(s) = 1 THEN s[1] ELSE s[1] + s[2]

ValueIn(u, r) == Total([i \in DOMAIN r.inputIds |-> u[r.inputIds[i]].amount])
ValueOut(r) == Total([i \in DOMAIN r.outputs |-> r.outputs[i].amount])

\* Pool._validateShape: the counts and the parties of each kind.
DepositShape(r) ==
    /\ r.kind = "deposit"
    /\ Len(r.inputIds) = 0 /\ Len(r.outputs) = 1
    /\ r.w = 0 /\ r.destination = None
    /\ r.outputs[1].owner = r.owner

TransferShape(r) ==
    /\ r.kind = "transfer"
    /\ Len(r.inputIds) \in 1..2 /\ Len(r.outputs) \in 1..2
    /\ r.d = 0 /\ r.w = 0 /\ r.destination = None
    /\ Len(r.outputs) = 2 => r.outputs[2].owner = r.owner

\* A variant: the change of a withdrawal may go to anyone.
WithdrawShapeAnyChange(r) ==
    /\ r.kind = "withdraw"
    /\ Len(r.inputIds) \in 1..2 /\ Len(r.outputs) \in 0..1
    /\ r.d = 0 /\ r.destination # None

WithdrawShape(r) ==
    /\ r.kind = "withdraw"
    /\ Len(r.inputIds) \in 1..2 /\ Len(r.outputs) \in 0..1
    /\ r.d = 0 /\ r.destination # None
    /\ Len(r.outputs) = 1 => r.outputs[1].owner = r.owner

\* A variant: the bound of a withdrawal is used for a deposit too.
PublicAmountsOneBound(r) ==
    /\ r.kind = "deposit" => r.d \in 1..W
    /\ r.kind = "withdraw" => r.w \in 1..W

\* Pool._validateShape: PublicAmountOutOfRange.
PublicAmounts(r) ==
    /\ r.kind = "deposit" => r.d \in 1..M
    /\ r.kind = "withdraw" => r.w \in 1..W

\* A variant: msg.value is not compared with d.
ValueSentUnchecked(r, value) == value \in Nat

\* Pool._validateShape: MsgValueMismatch.
ValueSent(r, value) == value = r.d

\* A variant: the order admits equal inputs.
OrderedInputsWeakly(r) == Len(r.inputIds) = 2 => r.inputIds[1] <= r.inputIds[2]

\* Pool._validateShape: inputIds strictly ascend, so no input is named twice.
OrderedInputs(r) == Len(r.inputIds) = 2 => r.inputIds[1] < r.inputIds[2]

ValidShape(r, value) ==
    /\ DepositShape(r) \/ TransferShape(r) \/ WithdrawShape(r)
    /\ PublicAmounts(r)
    /\ ValueSent(r, value)
    /\ OrderedInputs(r)

\* Variants: spent inputs pass; inputs of another owner pass.
SpendableInputsExisting(r) ==
    \A id \in Inputs(r) : utxos[id].status # 0 /\ utxos[id].owner = r.owner
SpendableInputsAnyOwner(r) == \A id \in Inputs(r) : utxos[id].status = 1

\* Pool._execute: every input exists, is unspent and belongs to the owner.
SpendableInputs(r) ==
    \A id \in Inputs(r) : utxos[id].status = 1 /\ utxos[id].owner = r.owner

\* Pool._execute: the operation and the outputs it would create are new.
NewOperation(op, r) ==
    /\ executedOperations[op] = None
    /\ \A id \in OutputIds(op, r) : utxos[id].status = 0

\* Pool._checkAuthorization.
Authorized(r) == r.signer = r.owner

\* Pool._verifyProofs, first half: inputs + d*H - outputs - w*H commits to 0.
BalanceProved(r) == (ValueIn(utxos, r) + r.d - ValueOut(r) - r.w) % Q = 0

\* A variant: only the first output is range-proved.
RangeProvedFirst(r) ==
    r.kind # "deposit" /\ r.outputs # <<>> => r.outputs[1].amount \in 1..M

\* Pool._verifyProofs, second half: one range proof per output, none for a deposit.
RangeProved(r) ==
    r.kind # "deposit" => \A i \in DOMAIN r.outputs : r.outputs[i].amount \in 1..M

Executable(op, r, value) ==
    /\ ValidShape(r, value)
    /\ NewOperation(op, r)
    /\ SpendableInputs(r)
    /\ Authorized(r)
    /\ BalanceProved(r)
    /\ RangeProved(r)

-----------------------------------------------------------------------------
Init ==
    /\ utxos = [id \in UtxoId |-> [status |-> 0, owner |-> None, amount |-> 0]]
    /\ executedOperations = [op \in OpId |-> None]
    /\ accountedLiability = 0
    /\ balance = 0
    /\ operationInProgress = FALSE
    /\ log = <<>>
    /\ calls = <<>>

\* A variant: no reentrancy guard.
EnterAnyTime == operationInProgress \in BOOLEAN

\* The modifier `enter'.
Enter == ~operationInProgress

\* The storage writes of _commit before the CALL.
Applied(op, r) ==
    [id \in UtxoId |->
        IF id \in Inputs(r) THEN [utxos[id] EXCEPT !.status = 2]
        ELSE IF id \in OutputIds(op, r)
             THEN LET o == r.outputs[id - 2 * op + 1]
                  IN [status |-> 1, owner |-> o.owner, amount |-> o.amount]
             ELSE utxos[id]]

\* A variant: the liability falls on a deposit.
CommitSwapped(op, r) ==
    /\ r.w <= accountedLiability
    /\ utxos' = Applied(op, r)
    /\ executedOperations' = [executedOperations EXCEPT ![op] = r]
    /\ accountedLiability' = accountedLiability - r.d + r.w

Commit(op, r) ==
    /\ r.w <= accountedLiability
    /\ utxos' = Applied(op, r)
    /\ executedOperations' = [executedOperations EXCEPT ![op] = r]
    /\ accountedLiability' = accountedLiability + r.d - r.w

\* deposit and transfer run to their end: _commit, then the events.
Deposit(op, r, value) ==
    /\ Enter
    /\ r.kind = "deposit"
    /\ Executable(op, r, value)
    /\ Commit(op, r)
    /\ balance' = balance + value
    /\ log' = Append(log, op)
    /\ UNCHANGED <<operationInProgress, calls>>

Transfer(op, r) ==
    /\ Enter
    /\ r.kind = "transfer"
    /\ Executable(op, r, 0)
    /\ Commit(op, r)
    /\ log' = Append(log, op)
    /\ UNCHANGED <<balance, operationInProgress, calls>>

Snapshot == [utxos |-> utxos, executedOperations |-> executedOperations,
             accountedLiability |-> accountedLiability, balance |-> balance,
             operationInProgress |-> operationInProgress, log |-> log]

\* withdraw up to its CALL: the destination has control, the events are not out.
WithdrawCall(op, r) ==
    /\ Enter
    /\ r.kind = "withdraw"
    /\ Executable(op, r, 0)
    /\ Commit(op, r)
    /\ r.w <= balance
    /\ balance' = IF r.destination = PoolAddress THEN balance ELSE balance - r.w
    /\ operationInProgress' = TRUE
    /\ calls' = Append(calls, [op |-> op, before |-> Snapshot])
    /\ UNCHANGED log

Top == calls[Len(calls)]
Popped == SubSeq(calls, 1, Len(calls) - 1)

\* The destination accepted the ETH: the events, then the end of `enter'.
WithdrawReturn ==
    /\ calls # <<>>
    /\ log' = Append(log, Top.op)
    /\ operationInProgress' = FALSE
    /\ calls' = Popped
    /\ UNCHANGED <<utxos, executedOperations, accountedLiability, balance>>

\* The destination refused: revert WithdrawalFailed undoes the transaction.
\* The pool's own receive() never refuses.
WithdrawRevert ==
    /\ calls # <<>>
    /\ executedOperations[Top.op].destination # PoolAddress
    /\ utxos' = Top.before.utxos
    /\ executedOperations' = Top.before.executedOperations
    /\ accountedLiability' = Top.before.accountedLiability
    /\ balance' = Top.before.balance
    /\ operationInProgress' = Top.before.operationInProgress
    /\ log' = Top.before.log
    /\ calls' = Popped

\* receive(): ETH nobody is owed, at any time, during a CALL too.
Receive(amount) ==
    /\ balance + amount <= MaxBalance
    /\ balance' = balance + amount
    /\ UNCHANGED <<utxos, executedOperations, accountedLiability,
                   operationInProgress, log, calls>>

\* The calldata a caller may send, by kind; other shapes fail ValidShape.
DepositRequest ==
    [kind : {"deposit"}, owner : Owner, signer : Owner, inputIds : {<<>>},
     outputs : {<<o>> : o \in Output}, d : 0..(W + 1), w : {0}, destination : {None}]
TransferRequest(ins) ==
    [kind : {"transfer"}, owner : Owner, signer : Owner, inputIds : {ins},
     outputs : UpToTwo(Output), d : {0}, w : {0}, destination : {None}]
WithdrawRequest(ins) ==
    [kind : {"withdraw"}, owner : Owner, signer : Owner, inputIds : {ins},
     outputs : {<<>>} \cup {<<o>> : o \in Output}, d : {0}, w : 0..(W + 1), destination : Payee]

\* Ids already executed and inputs that never existed fail Executable, so
\* only the rest is enumerated.
Next ==
    \/ \E op \in OpId \ Executed :
          \/ \E r \in DepositRequest, value \in 0..(W + 1) : Deposit(op, r, value)
          \/ \E ins \in UpToTwo(UtxoId) :
                /\ \A i \in DOMAIN ins : utxos[ins[i]].status # 0
                /\ \/ \E r \in TransferRequest(ins) : Transfer(op, r)
                   \/ \E r \in WithdrawRequest(ins) : WithdrawCall(op, r)
    \/ WithdrawReturn
    \/ WithdrawRevert
    \/ \E amount \in 1..MaxBalance : Receive(amount)

Spec == Init /\ [][Next]_vars

-----------------------------------------------------------------------------
(* Properties.                                                              *)

UtxoRecord == [status : {0}, owner : {None}, amount : {0}]
              \cup [status : 1..2, owner : Owner, amount : Claim]

Storage == [utxos : [UtxoId -> UtxoRecord],
            executedOperations : [OpId -> Request \cup {None}],
            accountedLiability : Nat, balance : Nat,
            operationInProgress : BOOLEAN, log : Seq(OpId)]

\* The state has the shape Pool.sol's storage declares.
TypeOK ==
    /\ utxos \in [UtxoId -> UtxoRecord]
    /\ executedOperations \in [OpId -> Request \cup {None}]
    /\ accountedLiability \in Nat
    /\ balance \in Nat
    /\ operationInProgress \in BOOLEAN
    /\ log \in Seq(OpId)
    /\ calls \in Seq([op : OpId, before : Storage])

Unspent == {id \in UtxoId : utxos[id].status = 1}

\* Every recorded commitment hides an amount in 1..M, so a sum of two cannot
\* wrap around the field (the range proofs of _verifyProofs, d <= M of a deposit).
AmountsInRange == \A id \in UtxoId : utxos[id].status # 0 => utxos[id].amount \in 1..M

\* _verifyProofs checks a balance modulo Q, yet every executed operation
\* balances exactly: no amount is created or destroyed by wrapping around.
ExactBalance ==
    \A op \in Executed :
        LET r == executedOperations[op]
        IN ValueIn(utxos, r) + r.d = ValueOut(r) + r.w

\* The liability _commit keeps is the sum of the hidden amounts that can still
\* be spent, so its check accountedLiability < w never refuses a holder.
Conservation ==
    accountedLiability = MapThenSumSet(LAMBDA id : utxos[id].amount, Unspent)

\* getAccounting never reverts: the ETH held covers the liability, also while a
\* destination has control and after a withdrawal to the pool itself.
Solvency == accountedLiability <= balance

\* An input is consumed by at most one operation, once.
NoDoubleSpend ==
    /\ \A op \in Executed : LET ids == executedOperations[op].inputIds
                            IN \A i, j \in DOMAIN ids : i # j => ids[i] # ids[j]
    /\ \A o1, o2 \in Executed :
          o1 # o2 => Inputs(executedOperations[o1]) \cap Inputs(executedOperations[o2]) = {}

\* A UTXO is spent only by an operation its owner signed (_checkAuthorization
\* and the owner check of _execute together).
OwnerAuthorizes ==
    /\ \A op \in Executed : \A id \in Inputs(executedOperations[op]) :
          utxos[id].owner = executedOperations[op].signer
    /\ \A id \in UtxoId : utxos[id].status = 2 =>
          \E op \in Executed : id \in Inputs(executedOperations[op])

\* The events replay: an operation's inputs are outputs of operations logged
\* before it, and outside a CALL the log lists every executed operation once.
\* packages/core/src/sync.ts rebuilds the UTXO set by going through the log in
\* order, so an operation that re-entered during a CALL would break it.
LogReplays ==
    /\ \A i \in DOMAIN log : \A id \in Inputs(executedOperations[log[i]]) :
          \E j \in 1..(i - 1) : id \in OutputIds(log[j], executedOperations[log[j]])
    /\ calls = <<>> => /\ {log[i] : i \in DOMAIN log} = Executed
                       /\ Len(log) = Cardinality(Executed)

-----------------------------------------------------------------------------
(* Refinement: the pool is a ledger of one account per owner.  A withdrawal  *)
(* takes effect when its CALL has returned; until then the accounts are the  *)
(* ones a revert would restore.                                              *)

Settled == IF calls = <<>> THEN utxos ELSE calls[1].before.utxos

holdings ==
    [o \in Owner |->
        MapThenSumSet(LAMBDA id : Settled[id].amount,
                      {id \in UtxoId : Settled[id].status = 1 /\ Settled[id].owner = o})]

Accounts == INSTANCE AccountLedger WITH Account <- Owner, MaxAmount <- W

\* Every operation is one account's deposit, payment or withdrawal: no
\* operation debits two accounts, or an account by more than it holds.
ImplementsAccounts == Accounts!Spec
=============================================================================
