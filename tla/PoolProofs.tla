----------------------------- MODULE PoolProofs -----------------------------
(***************************************************************************)
(* Theorems about the contracts, for all values of the constants.  Pool:    *)
(* the types, then the inductive invariants LedgerInv, OrderInv and HoldInv *)
(* and the properties they imply.  PaymentAdapter, which runs on Pool:      *)
(* AdapterInv, at the end.                                                  *)
(***************************************************************************)
EXTENDS PaymentAdapter, SumProofs, TLAPS

\* Two amounts closer than the group order Q that agree modulo Q are equal: why the
\* balance proof of _verifyProofs is exact for amounts within the range proof's bound.
LEMMA SmallMultiple ==
    ASSUME NEW x \in Int, -Q < x, x < Q, x % Q = 0
    PROVE  x = 0
BY AmountAssumption

\* A list of at most two elements, the shape _validateShape admits, is a sequence.
LEMMA UpToTwoType ==
    ASSUME NEW S, NEW s \in UpToTwo(S)
    PROVE  /\ s \in Seq(S)
           /\ Len(s) \in 0..2
           /\ DOMAIN s = 1..Len(s)
           /\ \A i \in DOMAIN s : s[i] \in S
           /\ Len(s) = 0 => s = <<>>
<1>1. CASE s = <<>>
  BY <1>1
<1>2. CASE \E x \in S : s = <<x>>
  BY <1>2
<1>3. CASE \E x \in S, y \in S : s = <<x, y>>
  BY <1>3
<1> QED BY <1>1, <1>2, <1>3 DEF UpToTwo

\* Every calldata of deposit() is a request.
LEMMA DepositRequestType == DepositRequest \subseteq Request
<1>1. \A o \in Output : <<o>> \in UpToTwo(Output) /\ <<>> \in UpToTwo(UtxoId)
  BY DEF UpToTwo
<1>2. 0 \in 0..(W + 1)
  BY AmountAssumption DEF W
<1> QED BY <1>1, <1>2 DEF DepositRequest, Request, Kind

\* Every calldata of transfer() and of withdraw() is a request.
LEMMA SpendRequestType ==
    ASSUME NEW ins \in UpToTwo(UtxoId)
    PROVE  TransferRequest(ins) \subseteq Request /\ WithdrawRequest(ins) \subseteq Request
<1>1. <<>> \in UpToTwo(Output) /\ \A o \in Output : <<o>> \in UpToTwo(Output)
  BY DEF UpToTwo
<1>2. 0 \in 0..(W + 1)
  BY AmountAssumption DEF W
<1> QED BY <1>1, <1>2 DEF TransferRequest, WithdrawRequest, Request, Kind

-----------------------------------------------------------------------------
\* The identifiers an operation derives for its outputs are UTXO ids, each naming one output.
LEMMA OutputIdType ==
    ASSUME NEW op \in OpId, NEW r \in Request
    PROVE  /\ OutputIds(op, r) \subseteq UtxoId
           /\ Inputs(r) \subseteq UtxoId
           /\ \A id \in OutputIds(op, r) : /\ id - 2 * op + 1 \in DOMAIN r.outputs
                                           /\ r.outputs[id - 2 * op + 1] \in Output
<1>1. r.outputs \in UpToTwo(Output) /\ r.inputIds \in UpToTwo(UtxoId)
  BY DEF Request
<1>2. DOMAIN r.outputs \subseteq 1..2 /\ \A i \in DOMAIN r.outputs : r.outputs[i] \in Output
  BY <1>1, UpToTwoType
<1>3. Inputs(r) \subseteq UtxoId
  BY <1>1, UpToTwoType DEF Inputs
<1>4. ASSUME NEW i \in DOMAIN r.outputs
      PROVE  /\ OutputId(op, i) \in UtxoId
             /\ OutputId(op, i) - 2 * op + 1 = i
  BY <1>2, BoundAssumption DEF OutputId, OpId, UtxoId
<1> QED BY <1>2, <1>3, <1>4 DEF OutputIds

\* The storage writes keep the record shapes: an input is unspent when it is
\* marked, an output gets the owner and commitment of the request.
LEMMA AppliedType ==
    ASSUME TypeOK, NEW op \in OpId, NEW r \in Request, SpendableInputs(r)
    PROVE  Applied(op, r) \in [UtxoId -> UtxoRecord]
<1> SUFFICES ASSUME NEW id \in UtxoId
             PROVE  Applied(op, r)[id] \in UtxoRecord
  BY DEF Applied
<1>1. utxos[id] \in UtxoRecord
  BY DEF TypeOK
<1>2. CASE id \in Inputs(r)
  <2>1. utxos[id] \in [status : 1..2, owner : Owner, amount : Claim]
    BY <1>1, <1>2 DEF SpendableInputs, UtxoRecord
  <2> QED BY <1>2, <2>1 DEF Applied, UtxoRecord
<1>3. CASE id \notin Inputs(r) /\ id \in OutputIds(op, r)
  BY <1>3, OutputIdType DEF Applied, UtxoRecord, Output
<1>4. CASE id \notin Inputs(r) /\ id \notin OutputIds(op, r)
  BY <1>1, <1>4 DEF Applied
<1> QED BY <1>2, <1>3, <1>4

\* _commit keeps the types of the storage it writes.
LEMMA CommitType ==
    ASSUME TypeOK, NEW op \in OpId, NEW r \in Request, NEW value,
           Executable(op, r, value), Commit(op, r)
    PROVE  /\ utxos' \in [UtxoId -> UtxoRecord]
           /\ executedOperations' \in [OpId -> Request \cup {None}]
           /\ accountedLiability' \in Nat
<1>1. r.d \in Nat /\ r.w \in Nat
  BY AmountAssumption DEF Request, W
<1> QED BY <1>1, AppliedType DEF Executable, Commit, TypeOK

\* What a revert restores is a storage.
LEMMA SnapshotType == TypeOK => Snapshot \in Storage
BY DEF TypeOK, Snapshot, Storage

\* Every transaction, call and revert keeps the type invariant.
LEMMA TypeInductive == TypeOK /\ [Next]_vars => TypeOK'
<1> SUFFICES ASSUME TypeOK, [Next]_vars PROVE TypeOK'
  OBVIOUS
<1>1. ASSUME NEW op \in OpId, NEW r \in DepositRequest, NEW value \in 0..(W + 1),
             Deposit(op, r, value)
      PROVE  TypeOK'
  <2>1. r \in Request
    BY DepositRequestType
  <2>2. balance' \in Nat
    BY <1>1, AmountAssumption DEF Deposit, TypeOK, W
  <2>3. log' \in Seq(OpId)
    BY <1>1 DEF Deposit, TypeOK
  <2> QED BY <1>1, <2>1, <2>2, <2>3, CommitType DEF Deposit, TypeOK
<1>2. ASSUME NEW op \in OpId, NEW ins \in UpToTwo(UtxoId), NEW r \in TransferRequest(ins),
             Transfer(op, r)
      PROVE  TypeOK'
  <2>1. r \in Request
    BY SpendRequestType
  <2>2. log' \in Seq(OpId)
    BY <1>2 DEF Transfer, TypeOK
  <2> QED BY <1>2, <2>1, <2>2, CommitType DEF Transfer, TypeOK
<1>3. ASSUME NEW op \in OpId, NEW ins \in UpToTwo(UtxoId), NEW r \in WithdrawRequest(ins),
             WithdrawCall(op, r)
      PROVE  TypeOK'
  <2>1. r \in Request
    BY SpendRequestType
  <2>2. balance' \in Nat
    BY <1>3, <2>1, AmountAssumption DEF WithdrawCall, TypeOK, Request, W
  <2>3. calls' \in Seq([op : OpId, before : Storage])
    BY <1>3, SnapshotType DEF WithdrawCall, TypeOK
  <2> QED BY <1>3, <2>1, <2>2, <2>3, CommitType DEF WithdrawCall, TypeOK
<1>4. ASSUME calls # <<>>
      PROVE  Top \in [op : OpId, before : Storage] /\ Popped \in Seq([op : OpId, before : Storage])
  <2> DEFINE Frame == [op : OpId, before : Storage]
  <2>1. calls \in Seq(Frame)
    BY DEF TypeOK
  <2> HIDE DEF Frame
  <2>2. Top \in Frame /\ Popped \in Seq(Frame)
    BY <1>4, <2>1 DEF Top, Popped
  <2> QED BY <2>2 DEF Frame
<1>5. CASE WithdrawReturn
  <2>1. Top.op \in OpId
    BY <1>4, <1>5 DEF WithdrawReturn
  <2>2. log' \in Seq(OpId)
    BY <1>5, <2>1 DEF WithdrawReturn, TypeOK
  <2> QED BY <1>4, <1>5, <2>2 DEF WithdrawReturn, TypeOK
<1>6. CASE WithdrawRevert
  BY <1>4, <1>6 DEF WithdrawRevert, TypeOK, Storage
<1>7. ASSUME NEW amount \in 1..MaxBalance, Receive(amount)
      PROVE  TypeOK'
  BY <1>7, BoundAssumption DEF Receive, TypeOK
<1>8. CASE UNCHANGED vars
  BY <1>8 DEF vars, TypeOK
<1> QED BY <1>1, <1>2, <1>3, <1>5, <1>6, <1>7, <1>8 DEF Next

\* The deployed pool satisfies the type invariant.
LEMMA InitType == Init => TypeOK
<1> SUFFICES ASSUME Init PROVE TypeOK
  OBVIOUS
<1>1. [status |-> 0, owner |-> None, amount |-> 0] \in UtxoRecord
  BY DEF UtxoRecord
<1>2. utxos \in [UtxoId -> UtxoRecord] /\ executedOperations \in [OpId -> Request \cup {None}]
  BY <1>1 DEF Init
<1>3. log \in Seq(OpId) /\ calls \in Seq([op : OpId, before : Storage])
  BY DEF Init
<1> QED BY <1>2, <1>3 DEF Init, TypeOK

\* Pool.sol keeps its storage well-formed, whatever is sent to it.
THEOREM TypeCorrect == Spec => []TypeOK
BY InitType, TypeInductive, PTL DEF Spec

-----------------------------------------------------------------------------
(***************************************************************************)
(* The inductive invariant.  It speaks of the current storage and of every  *)
(* storage a revert may restore.  The conjunct that the properties lack is  *)
(* that the inputs of an executed operation are spent: it keeps an input's  *)
(* amount and owner fixed and keeps it out of every later operation.        *)
(***************************************************************************)

InRange(u) == \A id \in UtxoId : u[id].status # 0 => u[id].amount \in 1..M

DistinctInputs(r) ==
    \A i, j \in DOMAIN r.inputIds : i # j => r.inputIds[i] # r.inputIds[j]

\* What an executed request r says about the UTXOs it consumed.
Honoured(u, r) ==
    /\ \A id \in Inputs(r) : u[id].status = 2 /\ u[id].owner = r.signer
    /\ DistinctInputs(r)
    /\ ValueIn(u, r) + r.d = ValueOut(r) + r.w

Ledger(u, e) ==
    /\ InRange(u)
    /\ \A op \in OpId : e[op] # None => Honoured(u, e[op])
    /\ \A o1, o2 \in OpId :
          e[o1] # None /\ e[o2] # None /\ o1 # o2 => Inputs(e[o1]) \cap Inputs(e[o2]) = {}
    /\ \A id \in UtxoId : u[id].status = 2 =>
          \E op \in OpId : e[op] # None /\ id \in Inputs(e[op])

LedgerInv ==
    /\ Ledger(utxos, executedOperations)
    /\ accountedLiability <= balance
    /\ \A i \in DOMAIN calls :
          LET b == calls[i].before
          IN Ledger(b.utxos, b.executedOperations) /\ b.accountedLiability <= b.balance

\* The sum of at most two amounts up to hi is at most twice hi.
LEMMA TotalBound ==
    ASSUME NEW n \in 0..2, NEW hi \in Nat, NEW s \in [1..n -> 0..hi]
    PROVE  Total(s) \in 0..(2 * hi)
<1>1. s \in Seq(0..hi) /\ Len(s) = n
  OBVIOUS
<1>2. CASE n = 0
  BY <1>1, <1>2 DEF Total
<1>3. CASE n = 1
  BY <1>1, <1>3 DEF Total
<1>4. CASE n = 2
  BY <1>1, <1>4 DEF Total
<1> QED BY <1>2, <1>3, <1>4

\* The inputs of an executable operation hide at most W together.
LEMMA ValueInBound ==
    ASSUME TypeOK, InRange(utxos), NEW r \in Request, SpendableInputs(r)
    PROVE  ValueIn(utxos, r) \in 0..W
<1>1. r.inputIds \in UpToTwo(UtxoId)
  BY DEF Request
<1>2. PICK n \in 0..2 : DOMAIN r.inputIds = 1..n
  BY <1>1, UpToTwoType
<1>3. \A i \in 1..n : utxos[r.inputIds[i]].amount \in 0..M
  BY <1>1, <1>2, UpToTwoType, AmountAssumption DEF SpendableInputs, Inputs, InRange
<1>4. [i \in DOMAIN r.inputIds |-> utxos[r.inputIds[i]].amount] \in [1..n -> 0..M]
  BY <1>2, <1>3
<1> QED BY <1>4, TotalBound, AmountAssumption DEF ValueIn, W

\* The outputs of a request hide at most twice the largest of their amounts together.
LEMMA ValueOutBound ==
    ASSUME NEW r \in Request, NEW hi \in Nat,
           \A i \in DOMAIN r.outputs : r.outputs[i].amount \in 0..hi
    PROVE  ValueOut(r) \in 0..(2 * hi)
<1>1. r.outputs \in UpToTwo(Output)
  BY DEF Request
<1>2. PICK n \in 0..2 : DOMAIN r.outputs = 1..n
  BY <1>1, UpToTwoType
<1>3. [i \in DOMAIN r.outputs |-> r.outputs[i].amount] \in [1..n -> 0..hi]
  BY <1>2
<1> QED BY <1>3, TotalBound DEF ValueOut

\* No wrap-around: a balance that holds modulo Q holds, and what an operation
\* creates is in range; a deposit, which carries no range proof, creates d.
LEMMA NoWrap ==
    ASSUME TypeOK, InRange(utxos), NEW op, NEW r \in Request, NEW value,
           Executable(op, r, value)
    PROVE  /\ ValueIn(utxos, r) + r.d = ValueOut(r) + r.w
           /\ \A i \in DOMAIN r.outputs : r.outputs[i].amount \in 1..M
<1>1. r.d \in Nat /\ r.w \in Nat /\ r.outputs \in UpToTwo(Output) /\ r.inputIds \in UpToTwo(UtxoId)
  BY AmountAssumption DEF Request, W
<1>2. ValueIn(utxos, r) \in 0..W
  BY ValueInBound DEF Executable
<1>3. CASE r.kind = "deposit"
  <2>1. r.inputIds = <<>> /\ Len(r.outputs) = 1 /\ r.w = 0 /\ r.d \in 1..M
    BY <1>1, <1>3, UpToTwoType
       DEF Executable, ValidShape, DepositShape, TransferShape, WithdrawShape, PublicAmounts
  <2>2. DOMAIN r.outputs = {1} /\ r.outputs[1] \in Output
    BY <1>1, <2>1, UpToTwoType
  <2>3. r.outputs[1].amount \in 0..(Q - 1)
    BY <2>2, AmountAssumption DEF Output
  <2>4. ValueIn(utxos, r) = 0
    BY <2>1 DEF ValueIn, Total
  <2>5. ValueOut(r) = r.outputs[1].amount
    <3>1. [i \in DOMAIN r.outputs |-> r.outputs[i].amount] = <<r.outputs[1].amount>>
      BY <2>2
    <3> QED BY <3>1 DEF ValueOut, Total
  <2>6. (r.d - r.outputs[1].amount) % Q = 0
    BY <1>1, <2>1, <2>3, <2>4, <2>5 DEF Executable, BalanceProved
  <2>7. r.d - r.outputs[1].amount = 0
    <3> DEFINE x == r.d - r.outputs[1].amount
    <3>1. x \in Int /\ -Q < x /\ x < Q
      BY <2>1, <2>3, AmountAssumption
    <3> HIDE DEF x
    <3>2. x = 0
      BY <2>6, <3>1, SmallMultiple DEF x
    <3> QED BY <3>2 DEF x
  <2> QED BY <2>1, <2>2, <2>3, <2>4, <2>5, <2>7
<1>4. CASE r.kind # "deposit"
  <2>1. \A i \in DOMAIN r.outputs : r.outputs[i].amount \in 1..M
    BY <1>4 DEF Executable, RangeProved
  <2>2. ValueOut(r) \in 0..W
    BY <2>1, ValueOutBound, AmountAssumption DEF W
  <2>3. r.d = 0 /\ r.w \in 0..W
    BY <1>1, <1>4, AmountAssumption
       DEF Executable, ValidShape, DepositShape, TransferShape, WithdrawShape, PublicAmounts, W
  <2>4. ValueIn(utxos, r) + r.d - ValueOut(r) - r.w = 0
    <3> DEFINE x == ValueIn(utxos, r) + r.d - ValueOut(r) - r.w
    <3>1. x \in Int /\ -Q < x /\ x < Q
      BY <1>2, <2>2, <2>3, AmountAssumption DEF W
    <3>2. x % Q = 0
      BY DEF Executable, BalanceProved
    <3> HIDE DEF x
    <3>3. x = 0
      BY <3>1, <3>2, SmallMultiple
    <3> QED BY <3>3 DEF x
  <2> QED BY <1>2, <2>1, <2>2, <2>3, <2>4
<1> QED BY <1>3, <1>4

\* The UTXOs after the writes of _commit: inputs spent, outputs new, the rest
\* untouched; no input is an output, and no existing UTXO changes its amount.
LEMMA AppliedFacts ==
    ASSUME TypeOK, NEW op \in OpId, NEW r \in Request, NEW value,
           Executable(op, r, value), Commit(op, r)
    PROVE  /\ \A id \in UtxoId : utxos[id].status # 0 =>
                  /\ utxos'[id].amount = utxos[id].amount
                  /\ utxos'[id].owner = utxos[id].owner
           /\ \A id \in Inputs(r) : utxos[id].status = 1 /\ utxos'[id].status = 2
           /\ \A id \in OutputIds(op, r) :
                  /\ utxos'[id].status = 1
                  /\ utxos'[id].amount = r.outputs[id - 2 * op + 1].amount
                  /\ utxos'[id].owner = r.outputs[id - 2 * op + 1].owner
           /\ \A id \in UtxoId \ (Inputs(r) \cup OutputIds(op, r)) : utxos'[id] = utxos[id]
<1>1. Inputs(r) \subseteq UtxoId /\ OutputIds(op, r) \subseteq UtxoId
  BY OutputIdType
<1>2. \A id \in Inputs(r) : utxos[id].status = 1
  BY DEF Executable, SpendableInputs
<1>3. \A id \in OutputIds(op, r) : utxos[id].status = 0
  BY DEF Executable, NewOperation
<1>4. utxos' = Applied(op, r)
  BY DEF Commit
<1>5. ASSUME NEW id \in Inputs(r)
      PROVE  /\ utxos'[id].status = 2
             /\ utxos'[id].amount = utxos[id].amount
             /\ utxos'[id].owner = utxos[id].owner
  <2>1. utxos'[id] = [utxos[id] EXCEPT !.status = 2]
    BY <1>1, <1>4, <1>5 DEF Applied
  <2>2. utxos[id] \in UtxoRecord
    BY <1>1, <1>5 DEF TypeOK
  <2> QED BY <2>1, <2>2 DEF UtxoRecord
<1>6. ASSUME NEW id \in OutputIds(op, r)
      PROVE  /\ utxos'[id].status = 1
             /\ utxos'[id].amount = r.outputs[id - 2 * op + 1].amount
             /\ utxos'[id].owner = r.outputs[id - 2 * op + 1].owner
  <2>1. id \notin Inputs(r)
    BY <1>2, <1>3, <1>6
  <2> QED BY <1>1, <1>4, <1>6, <2>1 DEF Applied
<1>7. \A id \in UtxoId \ (Inputs(r) \cup OutputIds(op, r)) : utxos'[id] = utxos[id]
  BY <1>4 DEF Applied
<1>8. \A id \in UtxoId : utxos[id].status # 0 =>
          utxos'[id].amount = utxos[id].amount /\ utxos'[id].owner = utxos[id].owner
  BY <1>3, <1>5, <1>7
<1> QED BY <1>2, <1>5, <1>6, <1>7, <1>8

\* An executed operation stays honoured: its inputs are spent already.
LEMMA HonouredStable ==
    ASSUME TypeOK, NEW op \in OpId, NEW r \in Request, NEW value,
           Executable(op, r, value), Commit(op, r),
           NEW q \in Request, Honoured(utxos, q)
    PROVE  Honoured(utxos', q)
<1>1. Inputs(q) \subseteq UtxoId
  <2>1. q.inputIds \in UpToTwo(UtxoId)
    BY DEF Request
  <2> QED BY <2>1, UpToTwoType DEF Inputs
<1>2. \A id \in Inputs(q) : utxos[id].status = 2
  BY DEF Honoured
<1>3. \A id \in Inputs(q) : id \notin Inputs(r) /\ id \notin OutputIds(op, r)
  BY <1>2 DEF Executable, SpendableInputs, NewOperation
<1>4. \A id \in Inputs(q) : utxos'[id] = utxos[id]
  BY <1>1, <1>3, AppliedFacts
<1>5. ValueIn(utxos', q) = ValueIn(utxos, q)
  <2>1. \A i \in DOMAIN q.inputIds : utxos'[q.inputIds[i]].amount = utxos[q.inputIds[i]].amount
    BY <1>4 DEF Inputs
  <2>2. [i \in DOMAIN q.inputIds |-> utxos'[q.inputIds[i]].amount]
          = [i \in DOMAIN q.inputIds |-> utxos[q.inputIds[i]].amount]
    BY <2>1
  <2> QED BY <2>2 DEF ValueIn
<1> QED BY <1>4, <1>5 DEF Honoured

\* A newly executed operation is honoured.
LEMMA HonouredNew ==
    ASSUME TypeOK, InRange(utxos), NEW op \in OpId, NEW r \in Request, NEW value,
           Executable(op, r, value), Commit(op, r)
    PROVE  Honoured(utxos', r)
<1>1. r.inputIds \in UpToTwo(UtxoId)
  BY DEF Request
<1>2. \A id \in Inputs(r) : utxos'[id].status = 2 /\ utxos'[id].owner = r.signer
  BY OutputIdType, AppliedFacts DEF Executable, SpendableInputs, Authorized
<1>3. DistinctInputs(r)
  <2>1. /\ DOMAIN r.inputIds = 1..Len(r.inputIds) /\ Len(r.inputIds) \in 0..2
        /\ \A i \in DOMAIN r.inputIds : r.inputIds[i] \in Int
    BY <1>1, UpToTwoType, BoundAssumption DEF UtxoId
  <2>2. Len(r.inputIds) = 2 => r.inputIds[1] < r.inputIds[2]
    BY DEF Executable, ValidShape, OrderedInputs
  <2> QED BY <2>1, <2>2 DEF DistinctInputs
<1>4. ValueIn(utxos', r) = ValueIn(utxos, r)
  <2>1. \A i \in DOMAIN r.inputIds : utxos'[r.inputIds[i]].amount = utxos[r.inputIds[i]].amount
    BY OutputIdType, AppliedFacts DEF Inputs
  <2>2. [i \in DOMAIN r.inputIds |-> utxos'[r.inputIds[i]].amount]
          = [i \in DOMAIN r.inputIds |-> utxos[r.inputIds[i]].amount]
    BY <2>1
  <2> QED BY <2>2 DEF ValueIn
<1> QED BY <1>2, <1>3, <1>4, NoWrap DEF Honoured

\* Executing an operation on a sound storage gives a sound storage.
LEMMA LedgerStep ==
    ASSUME TypeOK, Ledger(utxos, executedOperations),
           NEW op \in OpId, NEW r \in Request, NEW value,
           Executable(op, r, value), Commit(op, r)
    PROVE  Ledger(utxos, executedOperations)'
<1>1. InRange(utxos) /\ r # None
  BY NoneAssumption DEF Ledger
<1>2. executedOperations' = [executedOperations EXCEPT ![op] = r] /\ executedOperations[op] = None
  BY DEF Commit, Executable, NewOperation
<1>3. /\ executedOperations'[op] = r
      /\ \A o \in OpId \ {op} : executedOperations'[o] = executedOperations[o]
      /\ \A o \in OpId : executedOperations[o] # None => executedOperations[o] \in Request
  BY <1>2 DEF TypeOK
<1>4. InRange(utxos')
  <2> SUFFICES ASSUME NEW id \in UtxoId, utxos'[id].status # 0
               PROVE  utxos'[id].amount \in 1..M
    BY DEF InRange
  <2>1. CASE id \in OutputIds(op, r)
    BY <1>1, <2>1, AppliedFacts, NoWrap, OutputIdType
  <2>2. CASE id \in Inputs(r)
    BY <1>1, <2>2, AppliedFacts DEF InRange
  <2>3. CASE id \notin Inputs(r) \cup OutputIds(op, r)
    BY <1>1, <2>3, AppliedFacts DEF InRange
  <2> QED BY <2>1, <2>2, <2>3
<1>5. \A o \in OpId : executedOperations'[o] # None => Honoured(utxos', executedOperations'[o])
  <2> SUFFICES ASSUME NEW o \in OpId, executedOperations'[o] # None
               PROVE  Honoured(utxos', executedOperations'[o])
    OBVIOUS
  <2>1. CASE o = op
    BY <1>1, <1>3, <2>1, HonouredNew
  <2>2. CASE o # op
    BY <1>3, <2>2, HonouredStable DEF Ledger
  <2> QED BY <2>1, <2>2
<1>6. ASSUME NEW o \in OpId, o # op, executedOperations[o] # None
      PROVE  Inputs(r) \cap Inputs(executedOperations[o]) = {}
  <2>1. \A id \in Inputs(executedOperations[o]) : utxos[id].status = 2
    BY <1>6 DEF Ledger, Honoured
  <2> QED BY <2>1 DEF Executable, SpendableInputs
<1>7. \A o1, o2 \in OpId :
          executedOperations'[o1] # None /\ executedOperations'[o2] # None /\ o1 # o2
          => Inputs(executedOperations'[o1]) \cap Inputs(executedOperations'[o2]) = {}
  <2> SUFFICES ASSUME NEW o1 \in OpId, NEW o2 \in OpId, o1 # o2,
                      executedOperations'[o1] # None, executedOperations'[o2] # None
               PROVE  Inputs(executedOperations'[o1]) \cap Inputs(executedOperations'[o2]) = {}
    OBVIOUS
  <2>1. CASE o1 = op
    BY <1>3, <1>6, <2>1
  <2>2. CASE o2 = op
    BY <1>3, <1>6, <2>2
  <2>3. CASE o1 # op /\ o2 # op
    BY <1>3, <2>3 DEF Ledger
  <2> QED BY <2>1, <2>2, <2>3
<1>8. \A id \in UtxoId : utxos'[id].status = 2 =>
          \E o \in OpId : executedOperations'[o] # None /\ id \in Inputs(executedOperations'[o])
  <2> SUFFICES ASSUME NEW id \in UtxoId, utxos'[id].status = 2
               PROVE  \E o \in OpId : executedOperations'[o] # None /\ id \in Inputs(executedOperations'[o])
    OBVIOUS
  <2>1. CASE id \in Inputs(r)
    BY <1>1, <1>3, <2>1
  <2>2. CASE id \notin Inputs(r)
    <3>1. id \notin OutputIds(op, r)
      BY AppliedFacts
    <3>2. utxos[id].status = 2
      BY <2>2, <3>1, AppliedFacts
    <3>3. PICK o \in OpId : executedOperations[o] # None /\ id \in Inputs(executedOperations[o])
      BY <3>2 DEF Ledger
    <3> QED BY <1>2, <1>3, <3>3
  <2> QED BY <2>1, <2>2
<1> QED BY <1>4, <1>5, <1>7, <1>8 DEF Ledger

\* Every step keeps the inductive invariant, in the storage and in every frame a
\* revert would restore.
LEMMA LedgerInductive == TypeOK /\ LedgerInv /\ [Next]_vars => LedgerInv'
<1> SUFFICES ASSUME TypeOK, LedgerInv, [Next]_vars PROVE LedgerInv'
  OBVIOUS
<1> DEFINE FrameOK(f) == /\ Ledger(f.before.utxos, f.before.executedOperations)
                         /\ f.before.accountedLiability <= f.before.balance
<1>1. /\ Ledger(utxos, executedOperations)
      /\ accountedLiability <= balance
      /\ \A i \in DOMAIN calls : FrameOK(calls[i])
  BY DEF LedgerInv
<1>2. calls \in Seq([op : OpId, before : Storage]) /\ accountedLiability \in Nat /\ balance \in Nat
  BY DEF TypeOK
<1>3. ASSUME NEW op \in OpId, NEW r \in DepositRequest, NEW value \in 0..(W + 1),
             Deposit(op, r, value)
      PROVE  LedgerInv'
  <2>1. r \in Request
    BY DepositRequestType
  <2>2. Ledger(utxos, executedOperations)'
    BY <1>1, <1>3, <2>1, LedgerStep DEF Deposit
  <2>3. value = r.d /\ r.w \in Nat /\ r.d \in Nat
    BY <1>3, <2>1, AmountAssumption DEF Deposit, Executable, ValidShape, ValueSent, Request, W
  <2>4. accountedLiability' <= balance'
    BY <1>1, <1>2, <1>3, <2>3 DEF Deposit, Commit
  <2> QED BY <1>1, <1>3, <2>2, <2>4 DEF Deposit, LedgerInv
<1>4. ASSUME NEW op \in OpId, NEW ins \in UpToTwo(UtxoId), NEW r \in TransferRequest(ins),
             Transfer(op, r)
      PROVE  LedgerInv'
  <2>1. r \in Request
    BY SpendRequestType
  <2>2. Ledger(utxos, executedOperations)'
    BY <1>1, <1>4, <2>1, LedgerStep DEF Transfer
  <2>3. 0 = r.d /\ r.w \in Nat
    BY <1>4, <2>1, AmountAssumption DEF Transfer, Executable, ValidShape, ValueSent, Request, W
  <2>4. accountedLiability' <= balance'
    BY <1>1, <1>2, <1>4, <2>3 DEF Transfer, Commit
  <2> QED BY <1>1, <1>4, <2>2, <2>4 DEF Transfer, LedgerInv
<1>5. ASSUME NEW op \in OpId, NEW ins \in UpToTwo(UtxoId), NEW r \in WithdrawRequest(ins),
             WithdrawCall(op, r)
      PROVE  LedgerInv'
  <2>1. r \in Request
    BY SpendRequestType
  <2>2. Ledger(utxos, executedOperations)'
    BY <1>1, <1>5, <2>1, LedgerStep DEF WithdrawCall
  <2>3. 0 = r.d /\ r.w \in Nat
    BY <1>5, <2>1, AmountAssumption DEF WithdrawCall, Executable, ValidShape, ValueSent, Request, W
  <2>4. accountedLiability' <= balance'
    BY <1>1, <1>2, <1>5, <2>3 DEF WithdrawCall, Commit
  <2>5. FrameOK([op |-> op, before |-> Snapshot])
    BY <1>1 DEF Snapshot
  <2>6. \A i \in DOMAIN calls' : FrameOK(calls'[i])
    <3> HIDE DEF FrameOK
    <3>1. calls' = Append(calls, [op |-> op, before |-> Snapshot])
      BY <1>5 DEF WithdrawCall
    <3> QED BY <1>1, <1>2, <2>5, <3>1
  <2> QED BY <2>2, <2>4, <2>6 DEF LedgerInv
<1>6. ASSUME calls # <<>>
      PROVE  /\ Len(calls) \in DOMAIN calls
             /\ \A i \in DOMAIN Popped : FrameOK(Popped[i])
  <2> HIDE DEF FrameOK
  <2> QED BY <1>1, <1>2, <1>6 DEF Popped
<1>7. CASE WithdrawReturn
  BY <1>1, <1>6, <1>7 DEF WithdrawReturn, LedgerInv
<1>8. CASE WithdrawRevert
  <2>1. FrameOK(Top)
    BY <1>1, <1>6, <1>8 DEF WithdrawRevert, Top
  <2> QED BY <1>6, <1>8, <2>1 DEF WithdrawRevert, LedgerInv
<1>9. ASSUME NEW amount \in 1..MaxBalance, Receive(amount)
      PROVE  LedgerInv'
  BY <1>1, <1>2, <1>9, BoundAssumption DEF Receive, LedgerInv
<1>10. CASE UNCHANGED vars
  BY <1>10 DEF vars, LedgerInv
<1> QED BY <1>3, <1>4, <1>5, <1>7, <1>8, <1>9, <1>10 DEF Next

\* The deployed pool satisfies the inductive invariant.
LEMMA InitLedger == Init => LedgerInv
BY DEF Init, LedgerInv, Ledger, InRange

\* The inductive invariant holds throughout.
LEMMA LedgerInvariant == Spec => [](TypeOK /\ LedgerInv)
<1>1. Init => TypeOK /\ LedgerInv
  BY InitType, InitLedger
<1>2. (TypeOK /\ LedgerInv) /\ [Next]_vars => (TypeOK /\ LedgerInv)'
  BY TypeInductive, LedgerInductive
<1> QED BY <1>1, <1>2, PTL DEF Spec

\* getAccounting never reverts: the ETH the pool holds covers what it owes.
THEOREM PoolSolvent == Spec => []Solvency
<1>1. LedgerInv => Solvency
  BY DEF LedgerInv, Solvency
<1> QED BY <1>1, LedgerInvariant, PTL

\* Hidden amounts stay in 1..M.
THEOREM HiddenAmountsInRange == Spec => []AmountsInRange
<1>1. LedgerInv => AmountsInRange
  BY DEF LedgerInv, Ledger, InRange, AmountsInRange
<1> QED BY <1>1, LedgerInvariant, PTL

\* Every executed operation balances exactly, although _verifyProofs checks
\* the balance modulo the group order.
THEOREM OperationsBalance == Spec => []ExactBalance
<1>1. LedgerInv => ExactBalance
  BY DEF LedgerInv, Ledger, Honoured, ExactBalance, Executed
<1> QED BY <1>1, LedgerInvariant, PTL

\* No UTXO is consumed twice.
THEOREM SpentOnce == Spec => []NoDoubleSpend
<1>1. LedgerInv => NoDoubleSpend
  BY DEF LedgerInv, Ledger, Honoured, DistinctInputs, NoDoubleSpend, Executed
<1> QED BY <1>1, LedgerInvariant, PTL

\* A UTXO is consumed only with its owner's signature.
THEOREM SpentByOwner == Spec => []OwnerAuthorizes
<1>1. LedgerInv => OwnerAuthorizes
  BY DEF LedgerInv, Ledger, Honoured, OwnerAuthorizes, Executed
<1> QED BY <1>1, LedgerInvariant, PTL

-----------------------------------------------------------------------------
(***************************************************************************)
(* The order of events.  Outside a CALL the log and the storage agree; in   *)
(* one, the log is that of the storage before the transaction, and the      *)
(* storage is one operation ahead.                                          *)
(***************************************************************************)

\* A log l that explains the UTXOs u and the executed operations e.
Replayed(u, e, l) ==
    /\ \A i \in DOMAIN l : e[l[i]] # None
    /\ \A i, j \in DOMAIN l : l[i] = l[j] => i = j
    /\ \A op \in OpId : e[op] # None => \E i \in DOMAIN l : l[i] = op
    /\ \A i \in DOMAIN l : \A id \in Inputs(e[l[i]]) :
          \E j \in DOMAIN l : j < i /\ id \in OutputIds(l[j], e[l[j]])
    /\ \A id \in UtxoId : u[id].status # 0 => \E i \in DOMAIN l : id \in OutputIds(l[i], e[l[i]])

\* From u, e to v, f one operation was executed.
OneMore(u, e, v, f, op) ==
    /\ e[op] = None /\ f[op] # None
    /\ \A o \in OpId \ {op} : f[o] = e[o]
    /\ \A id \in Inputs(f[op]) : id \in UtxoId /\ u[id].status # 0
    /\ \A id \in UtxoId : v[id].status # 0 => u[id].status # 0 \/ id \in OutputIds(op, f[op])

InCall(f, u, e, l) ==
    /\ ~f.before.operationInProgress
    /\ f.before.log = l
    /\ Replayed(f.before.utxos, f.before.executedOperations, l)
    /\ OneMore(f.before.utxos, f.before.executedOperations, u, e, f.op)

OrderInv ==
    /\ Len(calls) <= 1
    /\ operationInProgress <=> calls # <<>>
    /\ calls = <<>> => Replayed(utxos, executedOperations, log)
    /\ calls # <<>> => InCall(calls[1], utxos, executedOperations, log)

\* The event of the operation that was executed last completes the log.
LEMMA ReplayedAppend ==
    ASSUME NEW u, NEW e, NEW v, NEW f, NEW l \in Seq(OpId), NEW op \in OpId,
           Replayed(u, e, l), OneMore(u, e, v, f, op)
    PROVE  Replayed(v, f, Append(l, op))
<1> DEFINE n == Len(l)
           m == Append(l, op)
<1>1. /\ n \in Nat /\ DOMAIN l = 1..n /\ DOMAIN m = 1..(n + 1) /\ m[n + 1] = op
      /\ \A i \in 1..n : m[i] = l[i] /\ l[i] \in OpId
  OBVIOUS
<1>2. \A i \in 1..n : l[i] # op /\ f[l[i]] = e[l[i]]
  BY <1>1 DEF Replayed, OneMore
<1>3. ASSUME NEW id \in UtxoId, u[id].status # 0
      PROVE  \E i \in 1..n : id \in OutputIds(m[i], f[m[i]])
  <2>1. PICK i \in 1..n : id \in OutputIds(l[i], e[l[i]])
    BY <1>1, <1>3 DEF Replayed
  <2> QED BY <1>1, <1>2, <2>1
<1> HIDE DEF m
<1>4. \A i \in DOMAIN m : f[m[i]] # None
  <2>1. \A i \in 1..n : f[m[i]] # None
    BY <1>1, <1>2 DEF Replayed
  <2>2. f[m[n + 1]] # None
    BY <1>1 DEF OneMore
  <2> QED BY <1>1, <2>1, <2>2
<1>5. ASSUME NEW i \in DOMAIN m, NEW j \in DOMAIN m, m[i] = m[j]
      PROVE  i = j
  <2>1. CASE i \in 1..n /\ j \in 1..n
    BY <1>1, <1>5, <2>1 DEF Replayed
  <2>2. CASE i = n + 1 \/ j = n + 1
    BY <1>1, <1>2, <1>5, <2>2
  <2> QED BY <1>1, <2>1, <2>2
<1>6. ASSUME NEW o \in OpId, f[o] # None
      PROVE  \E i \in DOMAIN m : m[i] = o
  <2>1. CASE o = op
    BY <1>1, <2>1
  <2>2. CASE o # op
    <3>1. PICK i \in 1..n : l[i] = o
      BY <1>1, <1>6, <2>2 DEF Replayed, OneMore
    <3> QED BY <1>1, <3>1
  <2> QED BY <2>1, <2>2
<1>7. ASSUME NEW i \in DOMAIN m, NEW id \in Inputs(f[m[i]])
      PROVE  \E j \in DOMAIN m : j < i /\ id \in OutputIds(m[j], f[m[j]])
  <2>1. CASE i \in 1..n
    <3>1. id \in Inputs(e[l[i]])
      BY <1>1, <1>2, <1>7, <2>1
    <3>2. PICK j \in 1..n : j < i /\ id \in OutputIds(l[j], e[l[j]])
      BY <1>1, <2>1, <3>1 DEF Replayed
    <3>3. m[j] = l[j] /\ f[l[j]] = e[l[j]] /\ j \in DOMAIN m
      BY <1>1, <1>2
    <3> QED BY <3>2, <3>3
  <2>2. CASE i = n + 1
    <3>1. id \in UtxoId /\ u[id].status # 0
      BY <1>1, <1>7, <2>2 DEF OneMore
    <3>2. PICK j \in 1..n : id \in OutputIds(m[j], f[m[j]])
      BY <1>3, <3>1
    <3> QED BY <1>1, <2>2, <3>2
  <2> QED BY <1>1, <2>1, <2>2
<1>8. ASSUME NEW id \in UtxoId, v[id].status # 0
      PROVE  \E i \in DOMAIN m : id \in OutputIds(m[i], f[m[i]])
  <2>1. CASE u[id].status # 0
    BY <1>1, <1>3, <2>1
  <2>2. CASE id \in OutputIds(op, f[op])
    BY <1>1, <2>2
  <2> QED BY <1>8, <2>1, <2>2 DEF OneMore
<1>9. Replayed(v, f, m)
  BY <1>4, <1>5, <1>6, <1>7, <1>8 DEF Replayed
<1> QED BY <1>9 DEF m

\* _commit executes one operation, whose inputs exist.
LEMMA CommitOneMore ==
    ASSUME TypeOK, NEW op \in OpId, NEW r \in Request, NEW value,
           Executable(op, r, value), Commit(op, r)
    PROVE  OneMore(utxos, executedOperations, utxos', executedOperations', op)
<1>1. executedOperations' = [executedOperations EXCEPT ![op] = r] /\ executedOperations[op] = None
  BY DEF Commit, Executable, NewOperation
<1>2. executedOperations'[op] = r /\ r # None
  BY <1>1, NoneAssumption DEF TypeOK
<1>3. \A o \in OpId \ {op} : executedOperations'[o] = executedOperations[o]
  BY <1>1 DEF TypeOK
<1>4. \A id \in Inputs(r) : id \in UtxoId /\ utxos[id].status # 0
  BY OutputIdType DEF Executable, SpendableInputs
<1>5. \A id \in UtxoId : utxos'[id].status # 0 => utxos[id].status # 0 \/ id \in OutputIds(op, r)
  BY <1>4, AppliedFacts
<1> QED BY <1>1, <1>2, <1>3, <1>4, <1>5 DEF OneMore

\* The guard `enter' leaves at most one CALL in progress.
LEMMA OneCall ==
    ASSUME TypeOK, OrderInv, calls # <<>>
    PROVE  Len(calls) = 1 /\ Top = calls[1] /\ Top.op \in OpId /\ Popped = <<>>
<1> DEFINE Frame == [op : OpId, before : Storage]
<1>1. calls \in Seq(Frame)
  BY DEF TypeOK
<1> HIDE DEF Frame
<1>2. Len(calls) = 1 /\ calls[1] \in Frame
  <2>1. Len(calls) \in Nat /\ Len(calls) # 0
    BY <1>1
  <2>2. Len(calls) <= 1
    BY DEF OrderInv
  <2>3. \A n \in Nat : n # 0 /\ n <= 1 => n = 1
    OBVIOUS
  <2>4. Len(calls) = 1
    BY <2>1, <2>2, <2>3
  <2> QED BY <1>1, <2>4
<1>3. Popped = <<>>
  BY <1>2 DEF Popped
<1> QED BY <1>2, <1>3 DEF Frame, Top

\* Every step keeps the log in order.
LEMMA OrderInductive == TypeOK /\ OrderInv /\ [Next]_vars => OrderInv'
<1> SUFFICES ASSUME TypeOK, OrderInv, [Next]_vars PROVE OrderInv'
  OBVIOUS
<1>1. log \in Seq(OpId)
  BY DEF TypeOK
<1>2. ASSUME Enter
      PROVE  calls = <<>> /\ Replayed(utxos, executedOperations, log)
  BY <1>2 DEF Enter, OrderInv
<1>3. ASSUME NEW op \in OpId, NEW r \in DepositRequest, NEW value \in 0..(W + 1),
             Deposit(op, r, value)
      PROVE  OrderInv'
  <2>1. OneMore(utxos, executedOperations, utxos', executedOperations', op)
    BY <1>3, DepositRequestType, CommitOneMore DEF Deposit
  <2>2. Replayed(utxos', executedOperations', log')
    BY <1>1, <1>2, <1>3, <2>1, ReplayedAppend DEF Deposit
  <2> QED BY <1>2, <1>3, <2>2 DEF Deposit, OrderInv
<1>4. ASSUME NEW op \in OpId, NEW ins \in UpToTwo(UtxoId), NEW r \in TransferRequest(ins),
             Transfer(op, r)
      PROVE  OrderInv'
  <2>1. OneMore(utxos, executedOperations, utxos', executedOperations', op)
    BY <1>4, SpendRequestType, CommitOneMore DEF Transfer
  <2>2. Replayed(utxos', executedOperations', log')
    BY <1>1, <1>2, <1>4, <2>1, ReplayedAppend DEF Transfer
  <2> QED BY <1>2, <1>4, <2>2 DEF Transfer, OrderInv
<1>5. ASSUME NEW op \in OpId, NEW ins \in UpToTwo(UtxoId), NEW r \in WithdrawRequest(ins),
             WithdrawCall(op, r)
      PROVE  OrderInv'
  <2> DEFINE f == [op |-> op, before |-> Snapshot]
  <2>1. OneMore(utxos, executedOperations, utxos', executedOperations', op)
    BY <1>5, SpendRequestType, CommitOneMore DEF WithdrawCall
  <2>2. calls = <<>> /\ Replayed(utxos, executedOperations, log) /\ log' = log
    BY <1>2, <1>5 DEF WithdrawCall
  <2>3. Len(calls') = 1 /\ calls' # <<>> /\ calls'[1] = f
    BY <1>5, <2>2 DEF WithdrawCall
  <2>4. InCall(f, utxos', executedOperations', log')
    BY <1>5, <2>1, <2>2 DEF InCall, Snapshot, WithdrawCall, Enter
  <2>5. operationInProgress'
    BY <1>5 DEF WithdrawCall
  <2> HIDE DEF f
  <2>6. InCall(calls'[1], utxos', executedOperations', log')
    BY <2>3, <2>4
  <2> QED BY <2>3, <2>5, <2>6 DEF OrderInv
<1>6. ASSUME calls # <<>>
      PROVE  /\ Len(calls) = 1 /\ Top = calls[1] /\ Top.op \in OpId /\ Popped = <<>>
             /\ InCall(Top, utxos, executedOperations, log)
  BY <1>6, OneCall DEF OrderInv
<1>7. CASE WithdrawReturn
  <2>1. Replayed(utxos', executedOperations', log')
    BY <1>1, <1>6, <1>7, ReplayedAppend DEF WithdrawReturn, InCall
  <2> QED BY <1>6, <1>7, <2>1 DEF WithdrawReturn, OrderInv
<1>8. CASE WithdrawRevert
  <2>1. Replayed(utxos', executedOperations', log') /\ ~operationInProgress'
    BY <1>6, <1>8 DEF WithdrawRevert, InCall
  <2> QED BY <1>6, <1>8, <2>1 DEF WithdrawRevert, OrderInv
<1>9. ASSUME UNCHANGED <<utxos, executedOperations, operationInProgress, log, calls>>
      PROVE  OrderInv'
  BY <1>9 DEF OrderInv, InCall
<1>10. ASSUME NEW amount \in 1..MaxBalance, Receive(amount)
       PROVE  OrderInv'
  BY <1>9, <1>10 DEF Receive
<1>11. CASE UNCHANGED vars
  BY <1>9, <1>11 DEF vars
<1> QED BY <1>3, <1>4, <1>5, <1>7, <1>8, <1>10, <1>11 DEF Next

\* Nothing is logged at first.
LEMMA InitOrder == Init => OrderInv
<1> SUFFICES ASSUME Init PROVE OrderInv
  OBVIOUS
<1>1. log = <<>> /\ calls = <<>> /\ DOMAIN log = {} /\ Len(calls) = 0
  BY DEF Init
<1> QED BY <1>1 DEF Init, OrderInv, Replayed

\* A log without repetitions is as long as the set it lists.
LEMMA LogCounts ==
    ASSUME NEW l \in Seq(OpId), NEW S, S = {l[i] : i \in DOMAIN l},
           \A i, j \in DOMAIN l : l[i] = l[j] => i = j
    PROVE  Len(l) = Cardinality(S)
<1>1. l \in [1..Len(l) -> S] /\ Len(l) \in Nat
  <2>1. DOMAIN l = 1..Len(l) /\ Len(l) \in Nat /\ l = [i \in 1..Len(l) |-> l[i]]
    OBVIOUS
  <2> QED BY <2>1
<1>2. l \in Injection(1..Len(l), S)
  BY <1>1 DEF Injection, IsInjective
<1>3. l \in Surjection(1..Len(l), S)
  BY <1>1 DEF Surjection
<1>4. ExistsBijection(1..Len(l), S)
  BY <1>2, <1>3 DEF ExistsBijection, Bijection
<1> QED BY <1>1, <1>4, FS_CountingElements

\* packages/core/src/sync.ts can rebuild the UTXO set from the events in order,
\* although a destination has control between an operation and its events.
THEOREM EventsReplay == Spec => []LogReplays
<1>1. TypeOK /\ OrderInv => LogReplays
  <2> SUFFICES ASSUME TypeOK, OrderInv PROVE LogReplays
    OBVIOUS
  <2>1. log \in Seq(OpId) /\ DOMAIN log = 1..Len(log) /\ Len(log) \in Nat
    BY DEF TypeOK
  <2>2. PICK e : /\ \E u : Replayed(u, e, log)
                 /\ \A i \in DOMAIN log : executedOperations[log[i]] = e[log[i]]
    <3>1. CASE calls = <<>>
      BY <3>1 DEF OrderInv
    <3>2. CASE calls # <<>>
      <4> DEFINE b == calls[1].before
      <4>1. /\ Replayed(b.utxos, b.executedOperations, log)
            /\ OneMore(b.utxos, b.executedOperations, utxos, executedOperations, calls[1].op)
        BY <3>2 DEF OrderInv, InCall
      <4>2. \A i \in DOMAIN log : log[i] \in OpId /\ log[i] # calls[1].op
        BY <2>1, <4>1 DEF Replayed, OneMore
      <4> QED BY <4>1, <4>2 DEF OneMore
    <3> QED BY <3>1, <3>2
  <2>3. ASSUME NEW i \in DOMAIN log, NEW id \in Inputs(executedOperations[log[i]])
        PROVE  \E j \in 1..(i - 1) : id \in OutputIds(log[j], executedOperations[log[j]])
    <3>1. PICK j \in DOMAIN log : j < i /\ id \in OutputIds(log[j], e[log[j]])
      BY <2>2, <2>3 DEF Replayed
    <3>2. j \in 1..(i - 1)
      BY <2>1, <3>1
    <3> QED BY <2>2, <3>1, <3>2
  <2>4. ASSUME calls = <<>>
        PROVE  {log[i] : i \in DOMAIN log} = Executed /\ Len(log) = Cardinality(Executed)
    <3>1. Replayed(utxos, executedOperations, log)
      BY <2>4 DEF OrderInv
    <3>2. \A i \in DOMAIN log : log[i] \in OpId
      BY <2>1
    <3>3. Executed = {log[i] : i \in DOMAIN log}
      BY <3>1, <3>2 DEF Executed, Replayed
    <3>4. \A i, j \in DOMAIN log : log[i] = log[j] => i = j
      BY <3>1 DEF Replayed
    <3> HIDE DEF Executed
    <3> QED BY <2>1, <3>3, <3>4, LogCounts
  <2> QED BY <2>3, <2>4 DEF LogReplays
<1>2. TypeOK /\ OrderInv /\ [Next]_vars => (TypeOK /\ OrderInv)'
  BY TypeInductive, OrderInductive
<1>3. Init => TypeOK /\ OrderInv
  BY InitType, InitOrder
<1> QED BY <1>1, <1>2, <1>3, PTL DEF Spec

-----------------------------------------------------------------------------
(***************************************************************************)
(* What owners hold.  The sum runs over all unspent UTXOs and counts those  *)
(* of the given owners, so that one lemma about _commit serves the total    *)
(* (all owners) and each account (one owner).                               *)
(***************************************************************************)

UnspentIn(u) == {id \in UtxoId : u[id].status = 1}
Weight(u, O) == [id \in UtxoId |-> IF u[id].owner \in O THEN u[id].amount ELSE 0]
Holds(u, O) == SumOver(Weight(u, O), UnspentIn(u))

\* The amounts of a set of UTXOs, as Conservation and holdings add them up.
LEMMA AmountsSum ==
    ASSUME NEW D, NEW u, NEW S \in SUBSET D, IsFiniteSet(S), \A id \in S : u[id].amount \in Nat
    PROVE  MapThenSumSet(LAMBDA id : u[id].amount, S) = SumOver([id \in D |-> u[id].amount], S)
<1> DEFINE g == [id \in D |-> u[id].amount]
           Body(F, s) == IF s = {} THEN 0 ELSE u[Chosen(s)].amount + F[s \ {Chosen(s)}]
           G == CHOOSE F : F = [s \in SUBSET S |-> Body(F, s)]
<1>1. MapThenSumSet(LAMBDA id : u[id].amount, S) = G[S]
  BY DEF MapThenSumSet, MapThenFoldSet, Chosen
<1>2. \A F : FoldedBy(F, g, S) <=> F = [s \in SUBSET S |-> Body(F, s)]
  <2> SUFFICES ASSUME NEW F
               PROVE  FoldedBy(F, g, S) <=> F = [s \in SUBSET S |-> Body(F, s)]
    OBVIOUS
  <2>1. \A s \in SUBSET S : s # {} => u[Chosen(s)].amount = g[Chosen(s)]
    BY ChosenIn
  <2>2. [s \in SUBSET S |-> Body(F, s)]
          = [s \in SUBSET S |-> IF s = {} THEN 0 ELSE g[Chosen(s)] + F[s \ {Chosen(s)}]]
    <3> HIDE DEF g
    <3> QED BY <2>1
  <2> QED BY <2>2 DEF FoldedBy
<1>3. \A x \in S : g[x] \in Int
  OBVIOUS
<1> HIDE DEF g
<1>4. \E F : FoldedBy(F, g, S)
  BY <1>3, FoldsExist
<1> HIDE DEF Body
<1>5. G = [s \in SUBSET S |-> Body(G, s)]
  BY <1>2, <1>4
<1> HIDE DEF G
<1>6. FoldedBy(G, g, S)
  BY <1>2, <1>5
<1>7. SumOver(g, S) = G[S]
  BY <1>3, <1>6, SumValue
<1> QED BY <1>1, <1>7 DEF g

\* Every storage has finitely many UTXOs, and amounts are numbers.
LEMMA WeightType ==
    ASSUME NEW u \in [UtxoId -> UtxoRecord], NEW O
    PROVE  /\ IsFiniteSet(UtxoId) /\ IsFiniteSet(UnspentIn(u)) /\ UnspentIn(u) \in SUBSET UtxoId
           /\ \A id \in UtxoId : u[id].amount \in Nat /\ Weight(u, O)[id] \in Nat
           /\ Holds(u, O) \in Nat
<1>1. IsFiniteSet(UtxoId)
  <2>1. 2 * MaxOps + 1 \in Int
    BY BoundAssumption
  <2> QED BY <2>1, FS_Interval DEF UtxoId
<1>2. UnspentIn(u) \in SUBSET UtxoId
  BY DEF UnspentIn
<1>3. IsFiniteSet(UnspentIn(u))
  BY <1>1, <1>2, FS_Subset
<1>4. \A id \in UtxoId : u[id].amount \in Nat
  <2>1. \A a \in {0} \cup Claim : a \in Nat
    BY AmountAssumption
  <2> SUFFICES ASSUME NEW id \in UtxoId
               PROVE  u[id].amount \in Nat
    OBVIOUS
  <2>2. u[id] \in UtxoRecord
    OBVIOUS
  <2>3. u[id].amount \in {0} \cup Claim
    BY <2>2 DEF UtxoRecord
  <2> QED BY <2>1, <2>3, Zenon
<1>5. \A id \in UtxoId : Weight(u, O)[id] \in Nat
  BY <1>4 DEF Weight
<1>6. Holds(u, O) \in Nat
  BY <1>2, <1>3, <1>5, SumType DEF Holds
<1> QED BY <1>1, <1>2, <1>3, <1>4, <1>5, <1>6

\* The amounts of all unspent UTXOs are what all owners hold.
LEMMA TotalHeld ==
    ASSUME NEW u \in [UtxoId -> UtxoRecord]
    PROVE  MapThenSumSet(LAMBDA id : u[id].amount, UnspentIn(u)) = Holds(u, Owner)
<1> DEFINE g == [id \in UtxoId |-> u[id].amount]
           S == UnspentIn(u)
<1>1. IsFiniteSet(S) /\ S \in SUBSET UtxoId /\ \A id \in UtxoId : u[id].amount \in Nat
  BY WeightType
<1>2. \A id \in S : g[id] \in Nat /\ Weight(u, Owner)[id] = g[id]
  BY <1>1 DEF UnspentIn, UtxoRecord, Weight
<1>3. MapThenSumSet(LAMBDA id : u[id].amount, S) = SumOver(g, S)
  <2> HIDE DEF S
  <2> QED BY <1>1, AmountsSum
<1> HIDE DEF g, S
<1>4. SumOver(Weight(u, Owner), S) = SumOver(g, S)
  BY <1>1, <1>2, SumAgrees
<1> QED BY <1>3, <1>4 DEF S, Holds

\* The amounts of an owner's unspent UTXOs are what the owner holds.
LEMMA OwnHeld ==
    ASSUME NEW u \in [UtxoId -> UtxoRecord], NEW o \in Owner
    PROVE  MapThenSumSet(LAMBDA id : u[id].amount,
                         {id \in UtxoId : u[id].status = 1 /\ u[id].owner = o}) = Holds(u, {o})
<1> DEFINE g == [id \in UtxoId |-> u[id].amount]
           w == Weight(u, {o})
           S == UnspentIn(u)
           T == {id \in UtxoId : u[id].status = 1 /\ u[id].owner = o}
<1>1. /\ IsFiniteSet(UtxoId) /\ IsFiniteSet(S) /\ S \in SUBSET UtxoId
      /\ \A id \in UtxoId : u[id].amount \in Nat /\ w[id] \in Nat
  BY WeightType
<1>2. T \in SUBSET S /\ T \in SUBSET UtxoId /\ \A id \in S \ T : w[id] = 0
  BY DEF UnspentIn, Weight
<1>3. IsFiniteSet(T)
  BY <1>1, <1>2, FS_Subset
<1>4. \A id \in T : g[id] \in Nat /\ w[id] = g[id]
  BY <1>1 DEF Weight
<1>5. MapThenSumSet(LAMBDA id : u[id].amount, T) = SumOver(g, T)
  <2> HIDE DEF T
  <2> QED BY <1>1, <1>2, <1>3, AmountsSum
<1> HIDE DEF g, w, S, T
<1>6. SumOver(w, T) = SumOver(g, T)
  BY <1>3, <1>4, SumAgrees
<1>7. SumOver(w, S) = SumOver(w, T)
  <2>1. \A id \in S : w[id] \in Nat
    BY <1>1
  <2> QED BY <1>1, <1>2, <2>1, SumZeros
<1> QED BY <1>5, <1>6, <1>7 DEF S, T, w, Holds

\* At most two new elements add their own values.
LEMMA SumUpToTwo ==
    ASSUME NEW R, IsFiniteSet(R), NEW g, \A x \in R : g[x] \in Nat,
           NEW D, NEW s \in UpToTwo(D), \A i, j \in DOMAIN s : i # j => s[i] # s[j],
           \A i \in DOMAIN s : s[i] \notin R /\ g[s[i]] \in Nat
    PROVE  SumOver(g, R \cup {s[i] : i \in DOMAIN s})
             = Total([i \in DOMAIN s |-> g[s[i]]]) + SumOver(g, R)
<1> DEFINE all == {s[i] : i \in DOMAIN s}
           vals == [i \in DOMAIN s |-> g[s[i]]]
<1>1. SumOver(g, R) \in Nat
  BY SumType
<1>2. CASE s = <<>>
  <2>1. all = {} /\ vals = <<>>
    BY <1>2
  <2>2. R \cup all = R /\ Total(vals) = 0
    BY <2>1 DEF Total
  <2> QED BY <1>1, <2>2
<1>3. CASE \E x \in D : s = <<x>>
  <2>1. PICK x \in D : s = <<x>>
    BY <1>3
  <2>2. all = {x} /\ vals = <<g[x]>> /\ x \notin R /\ g[x] \in Nat
    BY <2>1
  <2>3. Total(vals) = g[x]
    BY <2>2 DEF Total
  <2>4. SumOver(g, R \cup {x}) = g[x] + SumOver(g, R)
    BY <2>2, SumWith
  <2> QED BY <2>2, <2>3, <2>4
<1>4. CASE \E x \in D, y \in D : s = <<x, y>>
  <2>1. PICK x \in D, y \in D : s = <<x, y>>
    BY <1>4
  <2>2. DOMAIN s = 1..2 /\ s[1] = x /\ s[2] = y
    BY <2>1
  <2>3. /\ x # y /\ x \notin R /\ y \notin R /\ g[x] \in Nat /\ g[y] \in Nat
    BY <2>2
  <2>4. all = {x, y} /\ vals = <<g[x], g[y]>>
    BY <2>2
  <2>5. Total(vals) = g[x] + g[y]
    <3>1. Len(vals) = 2 /\ vals[1] = g[x] /\ vals[2] = g[y]
      BY <2>4
    <3> HIDE DEF vals
    <3> QED BY <3>1 DEF Total
  <2>6. IsFiniteSet(R \cup {x}) /\ \A z \in R \cup {x} : g[z] \in Int
    BY <2>3, FS_AddElement
  <2>7. SumOver(g, R \cup {x}) = g[x] + SumOver(g, R)
    BY <2>3, <2>6, SumWith
  <2>8. SumOver(g, (R \cup {x}) \cup {y}) = g[y] + SumOver(g, R \cup {x})
    BY <2>3, <2>6, SumWith
  <2>9. R \cup all = (R \cup {x}) \cup {y}
    BY <2>4
  <2>10. SumOver(g, R \cup all) = Total(vals) + SumOver(g, R)
    <3> HIDE DEF all, vals
    <3> QED BY <1>1, <2>3, <2>5, <2>7, <2>8, <2>9
  <2> QED BY <2>10
<1> QED BY <1>2, <1>3, <1>4 DEF UpToTwo

\* The value of a request's inputs and outputs that belong to the owners in O.
InOf(u, r, O) == IF r.owner \in O THEN ValueIn(u, r) ELSE 0
OutOf(r, O) ==
    Total([i \in DOMAIN r.outputs |-> IF r.outputs[i].owner \in O THEN r.outputs[i].amount ELSE 0])

\* An unspent input counts for the request's owner.
LEMMA InputsHeld ==
    ASSUME TypeOK, NEW op \in OpId, NEW r \in Request, NEW value,
           Executable(op, r, value), NEW O
    PROVE  /\ InOf(utxos, r, O) \in Nat /\ SumOver(Weight(utxos, O), UnspentIn(utxos) \ Inputs(r)) \in Nat
           /\ Holds(utxos, O)
                = InOf(utxos, r, O) + SumOver(Weight(utxos, O), UnspentIn(utxos) \ Inputs(r))
<1> DEFINE g == Weight(utxos, O)
           S == UnspentIn(utxos)
           R == S \ Inputs(r)
           s == r.inputIds
<1>1. /\ s \in UpToTwo(UtxoId) /\ DOMAIN s = 1..Len(s) /\ Len(s) \in 0..2
      /\ \A i \in DOMAIN s : s[i] \in UtxoId
  <2>1. s \in UpToTwo(UtxoId)
    BY DEF Request
  <2> QED BY <2>1, UpToTwoType
<1>2. utxos \in [UtxoId -> UtxoRecord]
  BY DEF TypeOK
<1>3. /\ IsFiniteSet(S) /\ S \in SUBSET UtxoId
      /\ \A id \in UtxoId : utxos[id].amount \in Nat /\ g[id] \in Nat
  BY <1>2, WeightType
<1>4. \A i \in DOMAIN s : s[i] \in S /\ utxos[s[i]].owner = r.owner
  BY <1>1 DEF Executable, SpendableInputs, Inputs, UnspentIn
<1>5. S = R \cup {s[i] : i \in DOMAIN s} /\ \A i \in DOMAIN s : s[i] \notin R
  BY <1>4 DEF Inputs
<1>6. \A i, j \in DOMAIN s : i # j => s[i] # s[j]
  <2>1. Len(s) = 2 => s[1] < s[2]
    BY DEF Executable, ValidShape, OrderedInputs
  <2>2. \A i \in DOMAIN s : s[i] \in Int
    BY <1>1, BoundAssumption DEF UtxoId
  <2> QED BY <1>1, <2>1, <2>2
<1>7. IsFiniteSet(R) /\ \A id \in R : g[id] \in Nat
  BY <1>3, FS_Subset
<1>8. Total([i \in DOMAIN s |-> g[s[i]]]) = InOf(utxos, r, O) /\ InOf(utxos, r, O) \in Nat
  <2>1. CASE r.owner \in O
    <3>1. [i \in DOMAIN s |-> g[s[i]]] = [i \in DOMAIN s |-> utxos[s[i]].amount]
      BY <1>1, <1>4, <2>1 DEF Weight
    <3>2. [i \in DOMAIN s |-> utxos[s[i]].amount] \in [1..Len(s) -> Nat]
      BY <1>1, <1>3
    <3>3. Total([i \in DOMAIN s |-> utxos[s[i]].amount]) \in Nat
      <4> DEFINE f == [i \in DOMAIN s |-> utxos[s[i]].amount]
      <4>1. Len(f) = Len(s) /\ \A i \in 1..Len(s) : f[i] \in Nat
        BY <1>1, <3>2
      <4> HIDE DEF f
      <4>2. Total(f) \in Nat
        BY <1>1, <4>1 DEF Total
      <4> QED BY <4>2 DEF f
    <3> QED BY <2>1, <3>1, <3>3 DEF InOf, ValueIn
  <2>2. CASE r.owner \notin O
    <3>1. [i \in DOMAIN s |-> g[s[i]]] = [i \in 1..Len(s) |-> 0]
      BY <1>1, <1>4, <2>2 DEF Weight
    <3>2. Total([i \in 1..Len(s) |-> 0]) = 0
      <4> DEFINE f == [i \in 1..Len(s) |-> 0]
      <4>1. Len(f) = Len(s) /\ \A i \in 1..Len(s) : f[i] = 0
        BY <1>1
      <4> HIDE DEF f
      <4>2. Total(f) = 0
        BY <1>1, <4>1 DEF Total
      <4> QED BY <4>2 DEF f
    <3> QED BY <2>2, <3>1, <3>2 DEF InOf
  <2> QED BY <2>1, <2>2
<1> HIDE DEF g, S, R, s
<1>9. SumOver(g, S) = Total([i \in DOMAIN s |-> g[s[i]]]) + SumOver(g, R)
  <2>1. \A i \in DOMAIN s : g[s[i]] \in Nat
    BY <1>1, <1>3
  <2>2. SumOver(g, R \cup {s[i] : i \in DOMAIN s}) = Total([i \in DOMAIN s |-> g[s[i]]]) + SumOver(g, R)
    BY <1>1, <1>5, <1>6, <1>7, <2>1, SumUpToTwo
  <2> QED BY <1>5, <2>2
<1>10. SumOver(g, R) \in Nat
  BY <1>7, SumType
<1> QED BY <1>8, <1>9, <1>10 DEF Holds, g, S, R

\* What _commit does to the holdings: the inputs' value goes, the outputs' comes.
LEMMA HoldsStep ==
    ASSUME TypeOK, NEW op \in OpId, NEW r \in Request, NEW value,
           Executable(op, r, value), Commit(op, r), NEW O
    PROVE  /\ Holds(utxos, O) \in Nat /\ InOf(utxos, r, O) \in Nat /\ OutOf(r, O) \in Nat
           /\ InOf(utxos, r, O) <= Holds(utxos, O)
           /\ Holds(utxos', O) = Holds(utxos, O) - InOf(utxos, r, O) + OutOf(r, O)
<1> DEFINE g == Weight(utxos, O)
           h == Weight(utxos', O)
           R == UnspentIn(utxos) \ Inputs(r)
           s == [i \in DOMAIN r.outputs |-> OutputId(op, i)]
<1>1. /\ utxos \in [UtxoId -> UtxoRecord] /\ utxos' \in [UtxoId -> UtxoRecord]
  BY CommitType DEF TypeOK
<1>2. /\ IsFiniteSet(R) /\ R \in SUBSET UtxoId /\ IsFiniteSet(UnspentIn(utxos'))
      /\ \A id \in UtxoId : g[id] \in Nat /\ h[id] \in Nat
      /\ Holds(utxos, O) \in Nat
  BY <1>1, WeightType, FS_Subset
<1>3. Inputs(r) \subseteq UtxoId /\ OutputIds(op, r) \subseteq UtxoId
  BY OutputIdType
<1>4. OutputIds(op, r) = {s[i] : i \in DOMAIN s}
  BY DEF OutputIds
<1>5. UnspentIn(utxos') = R \cup OutputIds(op, r) /\ R \cap OutputIds(op, r) = {}
  <2>1. \A id \in OutputIds(op, r) : utxos[id].status = 0
    BY DEF Executable, NewOperation
  <2> QED BY <1>3, <2>1, AppliedFacts DEF UnspentIn
<1>6. \A id \in R : h[id] = g[id]
  BY <1>2, <1>5, AppliedFacts DEF Weight, UnspentIn
<1>7. /\ r.outputs \in UpToTwo(Output) /\ Len(r.outputs) \in 0..2
      /\ DOMAIN r.outputs = 1..Len(r.outputs) /\ \A i \in DOMAIN r.outputs : r.outputs[i] \in Output
  <2>1. r.outputs \in UpToTwo(Output)
    BY DEF Request
  <2> QED BY <2>1, UpToTwoType
<1>8. \A i \in DOMAIN r.outputs : s[i] = 2 * op + (i - 1) /\ s[i] \in OutputIds(op, r)
  BY DEF OutputId, OutputIds
<1>9. op \in Nat
  BY BoundAssumption DEF OpId
<1>10. s \in UpToTwo(UtxoId) /\ DOMAIN s = DOMAIN r.outputs /\ Len(s) = Len(r.outputs)
  <2>1. s \in [1..Len(r.outputs) -> UtxoId]
    BY <1>3, <1>7, <1>8
  <2>2. \A n \in 0..2 : \A f \in [1..n -> UtxoId] : f \in UpToTwo(UtxoId) /\ Len(f) = n
    BY DEF UpToTwo
  <2> QED BY <1>7, <2>1, <2>2
<1>11. \A i, j \in DOMAIN s : i # j => s[i] # s[j]
  <2> HIDE DEF s
  <2> SUFFICES ASSUME NEW i \in DOMAIN s, NEW j \in DOMAIN s, i # j
               PROVE  s[i] # s[j]
    OBVIOUS
  <2>1. i \in Int /\ j \in Int /\ s[i] = 2 * op + (i - 1) /\ s[j] = 2 * op + (j - 1)
    BY <1>7, <1>8, <1>10
  <2> QED BY <1>9, <2>1
<1>12. \A i \in DOMAIN s :
          h[s[i]] = IF r.outputs[i].owner \in O THEN r.outputs[i].amount ELSE 0
  <2> SUFFICES ASSUME NEW i \in DOMAIN r.outputs
               PROVE  h[s[i]] = IF r.outputs[i].owner \in O THEN r.outputs[i].amount ELSE 0
    BY <1>10
  <2>1. s[i] - 2 * op + 1 = i
    <3> HIDE DEF s
    <3>1. i \in Int /\ s[i] = 2 * op + (i - 1)
      BY <1>7, <1>8
    <3> QED BY <1>9, <3>1
  <2>2. utxos'[s[i]].amount = r.outputs[i].amount /\ utxos'[s[i]].owner = r.outputs[i].owner
    BY <1>8, <2>1, AppliedFacts
  <2> QED BY <1>3, <1>8, <2>2 DEF Weight
<1>13. [i \in DOMAIN s |-> h[s[i]]]
          = [i \in DOMAIN r.outputs |-> IF r.outputs[i].owner \in O THEN r.outputs[i].amount ELSE 0]
  BY <1>10, <1>12
<1>14. SumOver(h, UnspentIn(utxos')) = OutOf(r, O) + SumOver(h, R)
  <2>1. \A i \in DOMAIN s : s[i] \notin R /\ h[s[i]] \in Nat
    BY <1>2, <1>3, <1>4, <1>5
  <2>2. \A x \in R : h[x] \in Nat
    BY <1>2
  <2> HIDE DEF s, h, R
  <2>3. SumOver(h, R \cup {s[i] : i \in DOMAIN s}) = Total([i \in DOMAIN s |-> h[s[i]]]) + SumOver(h, R)
    BY <1>2, <1>10, <1>11, <2>1, <2>2, SumUpToTwo
  <2> QED BY <1>4, <1>5, <1>13, <2>3 DEF OutOf
<1>15. SumOver(h, R) = SumOver(g, R) /\ SumOver(g, R) \in Nat
  <2>1. \A x \in R : g[x] \in Nat
    BY <1>2
  <2> HIDE DEF g, h, R
  <2> QED BY <1>2, <1>6, <2>1, SumAgrees, SumType
<1>16. OutOf(r, O) \in Nat
  <2> DEFINE f == [i \in DOMAIN r.outputs |-> IF r.outputs[i].owner \in O THEN r.outputs[i].amount ELSE 0]
  <2>1. \A i \in DOMAIN r.outputs : f[i] \in Nat
    <3>1. Claim \subseteq Nat
      BY AmountAssumption
    <3> QED BY <1>7, <3>1 DEF Output
  <2>2. Len(f) = Len(r.outputs)
    BY <1>7
  <2> HIDE DEF f
  <2>3. Total(f) \in Nat
    BY <1>7, <2>1, <2>2 DEF Total
  <2> QED BY <2>3 DEF OutOf, f
<1>17. /\ InOf(utxos, r, O) \in Nat
       /\ Holds(utxos, O) = InOf(utxos, r, O) + SumOver(g, R)
  BY InputsHeld
<1>18. Holds(utxos', O) = SumOver(h, UnspentIn(utxos'))
  BY DEF Holds
<1> HIDE DEF g, h, R, s
<1> QED BY <1>2, <1>14, <1>15, <1>16, <1>17, <1>18

\* The outputs' value, one output at a time.
LEMMA OutputsCount ==
    ASSUME NEW r \in Request, NEW O
    PROVE  LET counted(i) == IF r.outputs[i].owner \in O THEN r.outputs[i].amount ELSE 0 IN
           /\ Len(r.outputs) \in 0..2 /\ DOMAIN r.outputs = 1..Len(r.outputs)
           /\ \A i \in DOMAIN r.outputs : r.outputs[i].owner \in Owner /\ r.outputs[i].amount \in Nat
           /\ Len(r.outputs) = 0 => OutOf(r, O) = 0 /\ ValueOut(r) = 0
           /\ Len(r.outputs) = 1 => OutOf(r, O) = counted(1) /\ ValueOut(r) = r.outputs[1].amount
           /\ Len(r.outputs) = 2 => /\ OutOf(r, O) = counted(1) + counted(2)
                                    /\ ValueOut(r) = r.outputs[1].amount + r.outputs[2].amount
<1> DEFINE counted(i) == IF r.outputs[i].owner \in O THEN r.outputs[i].amount ELSE 0
           f == [i \in DOMAIN r.outputs |-> counted(i)]
           g == [i \in DOMAIN r.outputs |-> r.outputs[i].amount]
<1>1. /\ r.outputs \in UpToTwo(Output) /\ Len(r.outputs) \in 0..2
      /\ DOMAIN r.outputs = 1..Len(r.outputs) /\ \A i \in DOMAIN r.outputs : r.outputs[i] \in Output
  <2>1. r.outputs \in UpToTwo(Output)
    BY DEF Request
  <2> QED BY <2>1, UpToTwoType
<1>2. \A i \in DOMAIN r.outputs : r.outputs[i].owner \in Owner /\ r.outputs[i].amount \in Nat
  <2>1. Claim \subseteq Nat
    BY AmountAssumption
  <2> QED BY <1>1, <2>1 DEF Output
<1>3. Len(f) = Len(r.outputs) /\ Len(g) = Len(r.outputs)
  BY <1>1
<1>4. \A i \in DOMAIN r.outputs : f[i] = counted(i) /\ g[i] = r.outputs[i].amount
  OBVIOUS
<1>5. OutOf(r, O) = Total(f) /\ ValueOut(r) = Total(g)
  BY DEF OutOf, ValueOut
<1> HIDE DEF f, g, counted
<1>6. Len(r.outputs) = 0 => Total(f) = 0 /\ Total(g) = 0
  BY <1>3 DEF Total
<1>7. Len(r.outputs) = 1 => Total(f) = counted(1) /\ Total(g) = r.outputs[1].amount
  BY <1>1, <1>3, <1>4 DEF Total
<1>8. Len(r.outputs) = 2 => /\ Total(f) = counted(1) + counted(2)
                            /\ Total(g) = r.outputs[1].amount + r.outputs[2].amount
  BY <1>1, <1>3, <1>4 DEF Total
<1> QED BY <1>1, <1>2, <1>5, <1>6, <1>7, <1>8 DEF counted

\* The total moves with the public amounts.
LEMMA TotalStep ==
    ASSUME TypeOK, InRange(utxos), NEW op \in OpId, NEW r \in Request, NEW value,
           Executable(op, r, value), Commit(op, r)
    PROVE  Holds(utxos', Owner) = Holds(utxos, Owner) + r.d - r.w
<1>1. r.owner \in Owner /\ r.d \in Nat /\ r.w \in Nat
  BY AmountAssumption DEF Request, W
<1>2. InOf(utxos, r, Owner) = ValueIn(utxos, r)
  BY <1>1 DEF InOf
<1>3. OutOf(r, Owner) = ValueOut(r)
  BY OutputsCount
<1>4. ValueIn(utxos, r) + r.d = ValueOut(r) + r.w
  BY NoWrap
<1>5. /\ Holds(utxos, Owner) \in Nat /\ InOf(utxos, r, Owner) \in Nat /\ OutOf(r, Owner) \in Nat
      /\ Holds(utxos', Owner) = Holds(utxos, Owner) - InOf(utxos, r, Owner) + OutOf(r, Owner)
  BY HoldsStep
<1> DEFINE h == Holds(utxos, Owner)
           k == Holds(utxos', Owner)
           in == ValueIn(utxos, r)
           out == ValueOut(r)
<1>6. h \in Nat /\ in \in Nat /\ out \in Nat /\ k = h - in + out /\ in + r.d = out + r.w
  BY <1>2, <1>3, <1>4, <1>5
<1> HIDE DEF h, k, in, out
<1>7. k = h + r.d - r.w
  BY <1>1, <1>6
<1> QED BY <1>7 DEF h, k

\* From the UTXOs u to v, one owner gained an amount.
Credited(u, v) ==
    \E a \in Owner, amount \in 1..W :
        \A o \in Owner : Holds(v, {o}) = IF o = a THEN Holds(u, {o}) + amount ELSE Holds(u, {o})

\* A deposit adds d to its owner's holdings.
LEMMA DepositStep ==
    ASSUME TypeOK, InRange(utxos), NEW op \in OpId, NEW r \in Request, NEW value,
           r.kind = "deposit", Executable(op, r, value), Commit(op, r)
    PROVE  Credited(utxos, utxos')
<1>1. /\ Len(r.inputIds) = 0 /\ Len(r.outputs) = 1 /\ r.w = 0 /\ r.d \in 1..M
      /\ r.outputs[1].owner = r.owner
  BY DEF Executable, ValidShape, DepositShape, TransferShape, WithdrawShape, PublicAmounts
<1>2. r.owner \in Owner
  BY DEF Request
<1>3. ValueIn(utxos, r) = 0
  <2>1. r.inputIds = <<>>
    <3>1. r.inputIds \in UpToTwo(UtxoId)
      BY DEF Request
    <3> QED BY <1>1, <3>1, UpToTwoType
  <2> QED BY <2>1 DEF ValueIn, Total
<1>4. r.outputs[1].amount = r.d
  <2>1. ValueOut(r) = r.outputs[1].amount /\ r.outputs[1].amount \in Nat
    BY <1>1, OutputsCount
  <2>2. ValueIn(utxos, r) + r.d = ValueOut(r) + r.w
    BY NoWrap
  <2> QED BY <1>1, <1>3, <2>1, <2>2, AmountAssumption
<1>5. ASSUME NEW o \in Owner
      PROVE  Holds(utxos', {o}) = IF o = r.owner THEN Holds(utxos, {o}) + r.d ELSE Holds(utxos, {o})
  <2>1. OutOf(r, {o}) = IF o = r.owner THEN r.d ELSE 0
    BY <1>1, <1>4, OutputsCount
  <2>2. InOf(utxos, r, {o}) = 0
    BY <1>3 DEF InOf
  <2>3. /\ Holds(utxos, {o}) \in Nat
        /\ Holds(utxos', {o}) = Holds(utxos, {o}) - InOf(utxos, r, {o}) + OutOf(r, {o})
    BY HoldsStep
  <2> QED BY <1>1, <2>1, <2>2, <2>3, AmountAssumption
<1>6. r.d \in 1..W
  BY <1>1, AmountAssumption DEF W
<1> QED BY <1>2, <1>5, <1>6 DEF Credited

\* From u to v, one owner lost an amount the owner had.
Debited(u, v) ==
    \E a \in Owner, amount \in 1..W :
        /\ amount <= Holds(u, {a})
        /\ \A o \in Owner : Holds(v, {o}) = IF o = a THEN Holds(u, {o}) - amount ELSE Holds(u, {o})

\* From u to v, one owner paid another, or nothing moved between owners.
Paid(u, v) ==
    \/ \A o \in Owner : Holds(v, {o}) = Holds(u, {o})
    \/ \E a, b \in Owner, amount \in 1..W :
          /\ a # b
          /\ amount <= Holds(u, {a})
          /\ \A o \in Owner : Holds(v, {o}) = IF o = a THEN Holds(u, {o}) - amount
                                              ELSE IF o = b THEN Holds(u, {o}) + amount
                                              ELSE Holds(u, {o})

\* A withdrawal takes w from its owner: the change comes back.
LEMMA WithdrawStep ==
    ASSUME TypeOK, InRange(utxos), NEW op \in OpId, NEW r \in Request, NEW value,
           r.kind = "withdraw", Executable(op, r, value), Commit(op, r)
    PROVE  Debited(utxos, utxos')
<1> DEFINE in == ValueIn(utxos, r)
           out == ValueOut(r)
<1>1. /\ Len(r.outputs) \in 0..1 /\ r.d = 0 /\ r.w \in 1..W
      /\ Len(r.outputs) = 1 => r.outputs[1].owner = r.owner
  BY DEF Executable, ValidShape, DepositShape, TransferShape, WithdrawShape, PublicAmounts
<1>2. r.owner \in Owner
  BY DEF Request
<1>3. in + 0 = out + r.w
  BY <1>1, NoWrap
<1>4. \A o \in Owner : OutOf(r, {o}) = IF o = r.owner THEN out ELSE 0
  BY <1>1, OutputsCount
<1>5. \A o \in Owner : InOf(utxos, r, {o}) = IF o = r.owner THEN in ELSE 0
  BY DEF InOf
<1>6. \A o \in Owner :
          /\ Holds(utxos, {o}) \in Nat /\ InOf(utxos, r, {o}) \in Nat /\ OutOf(r, {o}) \in Nat
          /\ InOf(utxos, r, {o}) <= Holds(utxos, {o})
          /\ Holds(utxos', {o}) = Holds(utxos, {o}) - InOf(utxos, r, {o}) + OutOf(r, {o})
  BY HoldsStep
<1> HIDE DEF in, out
<1>7. in \in Nat /\ out \in Nat /\ r.w \in Nat /\ in <= Holds(utxos, {r.owner})
  <2>1. r.w \in Nat
    BY <1>1, AmountAssumption DEF W
  <2>2. InOf(utxos, r, {r.owner}) = in /\ OutOf(r, {r.owner}) = out
    BY <1>2, <1>4, <1>5
  <2>3. /\ InOf(utxos, r, {r.owner}) \in Nat /\ OutOf(r, {r.owner}) \in Nat
        /\ InOf(utxos, r, {r.owner}) <= Holds(utxos, {r.owner})
    BY <1>2, <1>6
  <2> QED BY <2>1, <2>2, <2>3
<1>8. r.w <= Holds(utxos, {r.owner})
  BY <1>2, <1>3, <1>6, <1>7
<1>9. ASSUME NEW o \in Owner
      PROVE  Holds(utxos', {o}) = IF o = r.owner THEN Holds(utxos, {o}) - r.w ELSE Holds(utxos, {o})
  <2>1. CASE o = r.owner
    <3>1. Holds(utxos, {o}) \in Nat /\ Holds(utxos', {o}) = Holds(utxos, {o}) - in + out
      BY <1>4, <1>5, <1>6, <2>1
    <3> QED BY <1>3, <1>7, <2>1, <3>1
  <2>2. CASE o # r.owner
    <3>1. Holds(utxos, {o}) \in Nat /\ Holds(utxos', {o}) = Holds(utxos, {o}) - 0 + 0
      BY <1>4, <1>5, <1>6, <2>2
    <3> QED BY <2>2, <3>1
  <2> QED BY <2>1, <2>2
<1> QED BY <1>1, <1>2, <1>8, <1>9 DEF Debited

\* A transfer pays its first output's owner; a second output is change.
LEMMA TransferStep ==
    ASSUME TypeOK, InRange(utxos), NEW op \in OpId, NEW r \in Request, NEW value,
           r.kind = "transfer", Executable(op, r, value), Commit(op, r)
    PROVE  Paid(utxos, utxos')
<1> DEFINE in == ValueIn(utxos, r)
           a == r.owner
           b == r.outputs[1].owner
           x == r.outputs[1].amount
           y == IF Len(r.outputs) = 2 THEN r.outputs[2].amount ELSE 0
<1>1. /\ Len(r.outputs) \in 1..2 /\ r.d = 0 /\ r.w = 0
      /\ Len(r.outputs) = 2 => r.outputs[2].owner = a
  BY DEF Executable, ValidShape, DepositShape, TransferShape, WithdrawShape
<1>2. a \in Owner /\ b \in Owner /\ x \in Nat /\ y \in Nat
  <2>1. a \in Owner
    BY DEF Request
  <2> QED BY <1>1, <2>1, OutputsCount
<1>3. x \in 1..W
  <2>1. x \in 1..M
    BY <1>1, OutputsCount, NoWrap
  <2> QED BY <2>1, AmountAssumption DEF W
<1>4. in = x + y
  <2>1. ValueOut(r) = x + y
    BY <1>1, <1>2, OutputsCount
  <2>2. in + 0 = ValueOut(r) + 0
    BY <1>1, NoWrap
  <2>3. InOf(utxos, r, {a}) = in /\ InOf(utxos, r, {a}) \in Nat
    BY HoldsStep DEF InOf
  <2> QED BY <1>2, <2>1, <2>2, <2>3
<1>5. \A o \in Owner :
          OutOf(r, {o}) = (IF o = b THEN x ELSE 0) + (IF o = a THEN y ELSE 0)
  <2> SUFFICES ASSUME NEW o \in Owner
               PROVE  OutOf(r, {o}) = (IF o = b THEN x ELSE 0) + (IF o = a THEN y ELSE 0)
    OBVIOUS
  <2> DEFINE own == OutOf(r, {o})
  <2>1. CASE Len(r.outputs) = 1
    <3>1. y = 0 /\ own = IF o = b THEN x ELSE 0
      BY <2>1, OutputsCount
    <3> HIDE DEF own, a, b, x, y
    <3> QED BY <1>2, <3>1 DEF own
  <2>2. CASE Len(r.outputs) = 2
    <3>1. /\ y = r.outputs[2].amount /\ r.outputs[2].owner = a
          /\ own = (IF o = b THEN x ELSE 0)
                     + (IF r.outputs[2].owner = o THEN r.outputs[2].amount ELSE 0)
      BY <1>1, <2>2, OutputsCount
    <3> HIDE DEF own, a, b, x, y
    <3> QED BY <1>2, <3>1 DEF own
  <2> QED BY <1>1, <2>1, <2>2
<1>6. \A o \in Owner : InOf(utxos, r, {o}) = IF o = a THEN in ELSE 0
  BY DEF InOf
<1>7. \A o \in Owner :
          /\ Holds(utxos, {o}) \in Nat
          /\ InOf(utxos, r, {o}) <= Holds(utxos, {o})
          /\ Holds(utxos', {o}) = Holds(utxos, {o}) - InOf(utxos, r, {o}) + OutOf(r, {o})
  BY HoldsStep
<1> HIDE DEF in, a, b, x, y
<1>8. in \in Nat
  BY <1>2, <1>4
<1>9. CASE a = b
  <2> SUFFICES ASSUME NEW o \in Owner PROVE Holds(utxos', {o}) = Holds(utxos, {o})
    BY DEF Paid
  <2>1. CASE o = a
    <3>1. Holds(utxos, {o}) \in Nat /\ Holds(utxos', {o}) = Holds(utxos, {o}) - in + (x + y)
      BY <1>5, <1>6, <1>7, <1>9, <2>1
    <3> QED BY <1>2, <1>4, <1>8, <3>1
  <2>2. CASE o # a
    <3>1. Holds(utxos, {o}) \in Nat /\ Holds(utxos', {o}) = Holds(utxos, {o}) - 0 + (0 + 0)
      BY <1>5, <1>6, <1>7, <1>9, <2>2
    <3> QED BY <3>1
  <2> QED BY <2>1, <2>2
<1>10. CASE a # b
  <2>1. x <= Holds(utxos, {a})
    <3>1. Holds(utxos, {a}) \in Nat /\ in <= Holds(utxos, {a})
      BY <1>2, <1>6, <1>7
    <3> QED BY <1>2, <1>4, <1>8, <3>1
  <2>2. ASSUME NEW o \in Owner
        PROVE  Holds(utxos', {o}) = IF o = a THEN Holds(utxos, {o}) - x
                                    ELSE IF o = b THEN Holds(utxos, {o}) + x
                                    ELSE Holds(utxos, {o})
    <3>1. CASE o = a
      <4>1. Holds(utxos, {o}) \in Nat /\ Holds(utxos', {o}) = Holds(utxos, {o}) - in + (0 + y)
        BY <1>5, <1>6, <1>7, <1>10, <3>1
      <4> QED BY <1>2, <1>4, <1>8, <3>1, <4>1
    <3>2. CASE o = b
      <4>1. Holds(utxos, {o}) \in Nat /\ Holds(utxos', {o}) = Holds(utxos, {o}) - 0 + (x + 0)
        BY <1>5, <1>6, <1>7, <1>10, <3>2
      <4> QED BY <1>2, <1>10, <3>2, <4>1
    <3>3. CASE o # a /\ o # b
      <4>1. Holds(utxos, {o}) \in Nat /\ Holds(utxos', {o}) = Holds(utxos, {o}) - 0 + (0 + 0)
        BY <1>5, <1>6, <1>7, <3>3
      <4> QED BY <3>3, <4>1
    <3> QED BY <3>1, <3>2, <3>3
  <2> QED BY <1>2, <1>3, <1>10, <2>1, <2>2 DEF Paid
<1> QED BY <1>9, <1>10

-----------------------------------------------------------------------------
(***************************************************************************)
(* The liability is what all owners hold, in the storage and in the one a   *)
(* revert restores; and between the two, during a CALL, one owner has been  *)
(* debited.  The second part is what makes the return of a CALL a           *)
(* withdrawal of the account ledger.                                        *)
(***************************************************************************)

InDebit(b, u) ==
    /\ b.accountedLiability = Holds(b.utxos, Owner)
    /\ Debited(b.utxos, u)

HoldInv ==
    /\ accountedLiability = Holds(utxos, Owner)
    /\ calls # <<>> => InDebit(calls[1].before, utxos)

\* _commit keeps the liability the sum of the holdings.
LEMMA CommitHolds ==
    ASSUME TypeOK, LedgerInv, HoldInv, NEW op \in OpId, NEW r \in Request, NEW value,
           Executable(op, r, value), Commit(op, r)
    PROVE  accountedLiability' = Holds(utxos', Owner)
<1>1. Holds(utxos', Owner) = Holds(utxos, Owner) + r.d - r.w
  BY TotalStep DEF LedgerInv, Ledger
<1> QED BY <1>1 DEF Commit, HoldInv

\* Every step keeps the holdings and the liability equal.
LEMMA HoldInductive ==
    TypeOK /\ LedgerInv /\ OrderInv /\ HoldInv /\ [Next]_vars => HoldInv'
<1> SUFFICES ASSUME TypeOK, LedgerInv, OrderInv, HoldInv, [Next]_vars PROVE HoldInv'
  OBVIOUS
<1>1. Enter => calls = <<>>
  BY DEF Enter, OrderInv
<1>2. ASSUME NEW op \in OpId, NEW r \in DepositRequest, NEW value \in 0..(W + 1),
             Deposit(op, r, value)
      PROVE  HoldInv'
  <2>1. accountedLiability' = Holds(utxos', Owner)
    BY <1>2, DepositRequestType, CommitHolds DEF Deposit
  <2> QED BY <1>1, <1>2, <2>1 DEF Deposit, HoldInv
<1>3. ASSUME NEW op \in OpId, NEW ins \in UpToTwo(UtxoId), NEW r \in TransferRequest(ins),
             Transfer(op, r)
      PROVE  HoldInv'
  <2>1. accountedLiability' = Holds(utxos', Owner)
    BY <1>3, SpendRequestType, CommitHolds DEF Transfer
  <2> QED BY <1>1, <1>3, <2>1 DEF Transfer, HoldInv
<1>4. ASSUME NEW op \in OpId, NEW ins \in UpToTwo(UtxoId), NEW r \in WithdrawRequest(ins),
             WithdrawCall(op, r)
      PROVE  HoldInv'
  <2> DEFINE f == [op |-> op, before |-> Snapshot]
  <2>1. accountedLiability' = Holds(utxos', Owner)
    BY <1>4, SpendRequestType, CommitHolds DEF WithdrawCall
  <2>2. calls'[1] = f
    BY <1>1, <1>4 DEF WithdrawCall
  <2>3. Debited(utxos, utxos')
    BY <1>4, SpendRequestType, WithdrawStep DEF WithdrawCall, LedgerInv, Ledger
  <2>4. InDebit(f.before, utxos')
    BY <2>3 DEF InDebit, Snapshot, HoldInv
  <2> HIDE DEF f
  <2>5. InDebit(calls'[1].before, utxos')
    BY <2>2, <2>4
  <2> QED BY <2>1, <2>5 DEF HoldInv
<1>5. CASE WithdrawReturn
  BY <1>5, OneCall DEF WithdrawReturn, HoldInv
<1>6. CASE WithdrawRevert
  <2>1. InDebit(Top.before, utxos) /\ calls' = <<>>
    BY <1>6, OneCall DEF WithdrawRevert, HoldInv
  <2> QED BY <1>6, <2>1 DEF WithdrawRevert, InDebit, HoldInv
<1>7. ASSUME UNCHANGED <<utxos, accountedLiability, calls>>
      PROVE  HoldInv'
  BY <1>7 DEF HoldInv
<1>8. ASSUME NEW amount \in 1..MaxBalance, Receive(amount)
      PROVE  HoldInv'
  BY <1>7, <1>8 DEF Receive
<1>9. CASE UNCHANGED vars
  BY <1>7, <1>9 DEF vars
<1> QED BY <1>2, <1>3, <1>4, <1>5, <1>6, <1>8, <1>9 DEF Next

\* Nobody holds anything at first.
LEMMA InitHolds ==
    ASSUME Init
    PROVE  \A O : Holds(utxos, O) = 0
<1> SUFFICES ASSUME NEW O PROVE Holds(utxos, O) = 0
  OBVIOUS
<1> DEFINE g == Weight(utxos, O)
<1>1. UnspentIn(utxos) = {}
  BY DEF Init, UnspentIn
<1>2. SumOver(g, {}) = 0
  <2> HIDE DEF g
  <2>1. IsFiniteSet({}) /\ \A x \in {} : g[x] \in Nat
    BY FS_EmptySet
  <2> QED BY <2>1, SumType
<1> QED BY <1>1, <1>2 DEF Holds

\* The invariants of this module together.
LEMMA PoolInvariant == Spec => [](TypeOK /\ LedgerInv /\ OrderInv /\ HoldInv)
<1>1. Init => HoldInv
  BY InitHolds DEF Init, HoldInv
<1> QED BY <1>1, InitType, InitLedger, InitOrder,
           TypeInductive, LedgerInductive, OrderInductive, HoldInductive, PTL DEF Spec

\* _commit's check accountedLiability < w never refuses a holder: the liability
\* is exactly the sum of the amounts that can still be spent.
THEOREM LiabilityIsSum == Spec => []Conservation
<1>1. TypeOK /\ HoldInv => Conservation
  BY TotalHeld DEF TypeOK, HoldInv, Conservation, Unspent, UnspentIn
<1> QED BY <1>1, PoolInvariant, PTL

-----------------------------------------------------------------------------
\* The refinement mapping, in terms of Holds.
LEMMA HoldingsAre == TypeOK => Settled \in [UtxoId -> UtxoRecord] /\
                               holdings = [o \in Owner |-> Holds(Settled, {o})]
<1> SUFFICES ASSUME TypeOK
             PROVE  /\ Settled \in [UtxoId -> UtxoRecord]
                    /\ holdings = [o \in Owner |-> Holds(Settled, {o})]
  OBVIOUS
<1>1. Settled \in [UtxoId -> UtxoRecord]
  <2> DEFINE Frame == [op : OpId, before : Storage]
  <2>1. calls \in Seq(Frame)
    BY DEF TypeOK
  <2>2. ASSUME NEW f \in Frame PROVE f.before.utxos \in [UtxoId -> UtxoRecord]
    BY DEF Storage
  <2> HIDE DEF Frame
  <2>3. calls # <<>> => calls[1] \in Frame
    BY <2>1
  <2> QED BY <2>2, <2>3 DEF TypeOK, Settled
<1> HIDE DEF Settled
<1>2. \A o \in Owner :
          MapThenSumSet(LAMBDA id : Settled[id].amount,
                        {id \in UtxoId : Settled[id].status = 1 /\ Settled[id].owner = o})
            = Holds(Settled, {o})
  BY <1>1, OwnHeld
<1> QED BY <1>1, <1>2 DEF holdings

\* A change of holdings as a step of the account ledger: a deposit.
LEMMA CreditedStep ==
    ASSUME NEW u, NEW v, Credited(u, v),
           holdings = [o \in Owner |-> Holds(u, {o})],
           holdings' = [o \in Owner |-> Holds(v, {o})]
    PROVE  Accounts!Next
<1>1. PICK a \in Owner, amount \in 1..W :
          \A o \in Owner : Holds(v, {o}) = IF o = a THEN Holds(u, {o}) + amount ELSE Holds(u, {o})
  BY DEF Credited
<1>2. holdings' = [holdings EXCEPT ![a] = @ + amount]
  BY <1>1
<1>3. Accounts!Deposit(a, amount)
  BY <1>2 DEF Accounts!Deposit
<1> QED BY <1>3 DEF Accounts!Next

\* A withdrawal.
LEMMA DebitedStep ==
    ASSUME NEW u, NEW v, Debited(u, v),
           holdings = [o \in Owner |-> Holds(u, {o})],
           holdings' = [o \in Owner |-> Holds(v, {o})]
    PROVE  Accounts!Next
<1>1. PICK a \in Owner, amount \in 1..W :
          /\ amount <= Holds(u, {a})
          /\ \A o \in Owner : Holds(v, {o}) = IF o = a THEN Holds(u, {o}) - amount
                                                       ELSE Holds(u, {o})
  BY DEF Debited
<1>2. amount <= holdings[a] /\ holdings' = [holdings EXCEPT ![a] = @ - amount]
  BY <1>1
<1>3. Accounts!Withdraw(a, amount)
  BY <1>2 DEF Accounts!Withdraw
<1> QED BY <1>3 DEF Accounts!Next

\* A payment, or nothing.
LEMMA PaidStep ==
    ASSUME NEW u, NEW v, Paid(u, v),
           holdings = [o \in Owner |-> Holds(u, {o})],
           holdings' = [o \in Owner |-> Holds(v, {o})]
    PROVE  Accounts!Next \/ holdings' = holdings
<1>1. CASE \A o \in Owner : Holds(v, {o}) = Holds(u, {o})
  BY <1>1
<1>2. CASE ~ \A o \in Owner : Holds(v, {o}) = Holds(u, {o})
  <2>1. PICK a \in Owner, b \in Owner, amount \in 1..W :
            /\ a # b
            /\ amount <= Holds(u, {a})
            /\ \A o \in Owner : Holds(v, {o}) = IF o = a THEN Holds(u, {o}) - amount
                                                ELSE IF o = b THEN Holds(u, {o}) + amount
                                                ELSE Holds(u, {o})
    BY <1>2 DEF Paid
  <2>2. /\ a # b /\ amount <= holdings[a]
        /\ holdings' = [holdings EXCEPT ![a] = @ - amount, ![b] = @ + amount]
    BY <2>1
  <2>3. Accounts!Pay(a, b, amount)
    BY <2>2 DEF Accounts!Pay
  <2> QED BY <2>3 DEF Accounts!Next
<1> QED BY <1>1, <1>2

\* The pool, with its UTXOs, commitments and CALLs, implements the account ledger.
THEOREM PoolImplementsAccounts == Spec => ImplementsAccounts
<1> DEFINE held == [o \in Owner |-> Holds(Settled, {o})]
           IInv == TypeOK /\ LedgerInv /\ OrderInv /\ HoldInv /\ holdings = held
<1>1. Spec => []IInv
  BY PoolInvariant, HoldingsAre, PTL
<1>2. Init /\ TypeOK => Accounts!Init
  <2> SUFFICES ASSUME Init, TypeOK PROVE Accounts!Init
    OBVIOUS
  <2>1. Settled = utxos
    BY DEF Init, Settled
  <2>2. held = [o \in Owner |-> 0]
    BY <2>1, InitHolds
  <2> QED BY <2>2, HoldingsAre DEF Accounts!Init
<1>3. IInv /\ IInv' /\ [Next]_vars => [Accounts!Next]_holdings
  <2> SUFFICES ASSUME IInv, IInv', [Next]_vars PROVE Accounts!Next \/ holdings' = holdings
    OBVIOUS
  <2>1. /\ holdings = [o \in Owner |-> Holds(Settled, {o})]
        /\ holdings' = [o \in Owner |-> Holds(Settled', {o})]
    OBVIOUS
  <2>2. Enter => calls = <<>> /\ Settled = utxos
    BY DEF Enter, OrderInv, Settled
  <2>3. ASSUME Settled' = Settled PROVE holdings' = holdings
    BY <2>1, <2>3
  <2>4. ASSUME NEW op \in OpId, NEW r \in DepositRequest, NEW value \in 0..(W + 1),
               Deposit(op, r, value)
        PROVE  Accounts!Next
    <3>1. Credited(utxos, utxos')
      BY <2>4, DepositRequestType, DepositStep DEF Deposit, DepositRequest, LedgerInv, Ledger
    <3>2. Settled = utxos /\ Settled' = utxos'
      <4>1. calls = <<>> /\ Settled = utxos /\ calls' = calls
        BY <2>2, <2>4 DEF Deposit
      <4> QED BY <4>1 DEF Settled
    <3>3. /\ holdings = [o \in Owner |-> Holds(utxos, {o})]
          /\ holdings' = [o \in Owner |-> Holds(utxos', {o})]
      BY <2>1, <3>2
    <3> QED BY <3>1, <3>3, CreditedStep
  <2>5. ASSUME NEW op \in OpId, NEW ins \in UpToTwo(UtxoId), NEW r \in TransferRequest(ins),
               Transfer(op, r)
        PROVE  Accounts!Next \/ holdings' = holdings
    <3>1. Paid(utxos, utxos')
      BY <2>5, SpendRequestType, TransferStep DEF Transfer, TransferRequest, LedgerInv, Ledger
    <3>2. Settled = utxos /\ Settled' = utxos'
      <4>1. calls = <<>> /\ Settled = utxos /\ calls' = calls
        BY <2>2, <2>5 DEF Transfer
      <4> QED BY <4>1 DEF Settled
    <3>3. /\ holdings = [o \in Owner |-> Holds(utxos, {o})]
          /\ holdings' = [o \in Owner |-> Holds(utxos', {o})]
      BY <2>1, <3>2
    <3> QED BY <3>1, <3>3, PaidStep
  <2>6. ASSUME NEW op \in OpId, NEW ins \in UpToTwo(UtxoId), NEW r \in WithdrawRequest(ins),
               WithdrawCall(op, r)
        PROVE  Settled' = Settled
    <3>1. calls = <<>> /\ Settled = utxos
      BY <2>6 DEF WithdrawCall, Enter, OrderInv, Settled
    <3> DEFINE f == [op |-> op, before |-> Snapshot]
    <3>2. calls' # <<>> /\ calls'[1] = f
      BY <2>6, <3>1 DEF WithdrawCall
    <3>3. f.before.utxos = utxos
      BY DEF Snapshot
    <3> HIDE DEF f
    <3> QED BY <3>1, <3>2, <3>3 DEF Settled
  <2>7. CASE WithdrawReturn
    <3>1. calls # <<>> /\ calls' = <<>> /\ utxos' = utxos
      BY <2>7, OneCall DEF WithdrawReturn
    <3>2. Debited(Settled, utxos) /\ Settled' = utxos
      BY <3>1 DEF HoldInv, InDebit, Settled
    <3>3. holdings' = [o \in Owner |-> Holds(utxos, {o})]
      BY <2>1, <3>2
    <3> QED BY <2>1, <3>2, <3>3, DebitedStep
  <2>8. CASE WithdrawRevert
    BY <2>8, OneCall DEF WithdrawRevert, Settled
  <2>9. ASSUME UNCHANGED <<utxos, calls>> PROVE Settled' = Settled
    BY <2>9 DEF Settled
  <2>10. ASSUME NEW amount \in 1..MaxBalance, Receive(amount) PROVE Settled' = Settled
    BY <2>9, <2>10 DEF Receive
  <2>11. CASE UNCHANGED vars
    BY <2>9, <2>11 DEF vars
  <2> QED BY <2>3, <2>4, <2>5, <2>6, <2>7, <2>8, <2>10, <2>11 DEF Next
<1> QED BY <1>1, <1>2, <1>3, InitType, PTL DEF Spec, ImplementsAccounts, Accounts!Spec

-----------------------------------------------------------------------------
(***************************************************************************)
(* The payment adapter.  PayRevert goes back to an earlier storage of the   *)
(* pool, so the invariant keeps what that storage had to fulfil; and a      *)
(* withdrawal to the adapter is always one of a payment, except inside the  *)
(* CALL and the pay() that will decide about it.                            *)
(***************************************************************************)

TypeAdapter ==
    /\ executedPayments \in SUBSET Receipt
    /\ paymentInProgress \in BOOLEAN /\ ethReceived \in BOOLEAN
    /\ expectedEth \in Nat /\ adapterEth \in Nat /\ forcedEth \in Nat /\ now \in Nat
    /\ tokens \in [Recipient -> Nat]
    /\ payment \in PayCall \cup {None}

\* What is executed whatever becomes of a CALL in progress.
Standing == IF calls = <<>> THEN executedOperations ELSE calls[1].before.executedOperations

\* The withdrawal the terms t name is executed in e as agreed.
Withdrawn(e, t) ==
    LET r == e[t.operationId]
    IN r # None /\ r.destination = Adapter /\ r.w = t.ethAmount /\ r.signer = t.signer

Names(P, op) == \E p \in P : p.terms.operationId = op

\* The payments P are for withdrawals in e, each for one of its own.
PaidFor(e, P) ==
    /\ \A p \in P : Withdrawn(e, p.terms)
    /\ \A p, q \in P : p.terms.operationId = q.terms.operationId => p = q

\* The withdrawals to the adapter in e, except X, are paid for.
Accounted(e, P, X) ==
    \A op \in OpId \ X : e[op] # None /\ e[op].destination = Adapter => Names(P, op)

\* What the payments S have delivered.
Outs(S) == SumOver([p \in S |-> p.amountOut], S)
To(P, a) == {p \in P : p.terms.recipient = a}

Delivered ==
    /\ IsFiniteSet(executedPayments)
    /\ \A a \in Recipient : tokens[a] = Outs(To(executedPayments, a))
    /\ \A p \in executedPayments : p.amountOut >= p.terms.minAmountOut

NotPaying ==
    /\ ~paymentInProgress
    /\ adapterEth = forcedEth
    /\ Accounted(Standing, executedPayments, {})

\* The storage b is one in which pay() may start.
Startable(b) ==
    /\ ~b.paymentInProgress /\ b.adapterEth = b.forcedEth
    /\ b.executedPayments = executedPayments /\ b.tokens = tokens
    /\ ~b.pool.operationInProgress
    /\ Replayed(b.pool.utxos, b.pool.executedOperations, b.pool.log)
    /\ PaidFor(b.pool.executedOperations, executedPayments)
    /\ Accounted(b.pool.executedOperations, executedPayments, {})

\* pay() has called the pool; the pool has called receive(); or that is done.
Withdrawing(t) ==
    /\ Withdrawn(executedOperations, t)
    /\ calls # <<>> => /\ calls[1].op = t.operationId
                       /\ expectedEth = t.ethAmount /\ ~ethReceived
                       /\ adapterEth = forcedEth
    /\ calls = <<>> => ethReceived /\ adapterEth = forcedEth + t.ethAmount

Swapping(t) == Withdrawn(Standing, t) /\ ethReceived /\ adapterEth = forcedEth

Paying(t) ==
    /\ paymentInProgress
    /\ Startable(payment.before)
    /\ payment.initialTokens = tokens[t.recipient]
    /\ Accounted(Standing, executedPayments, {t.operationId})
    /\ ~Names(executedPayments, t.operationId)
    /\ payment.phase = "withdrawing" => Withdrawing(t)
    /\ payment.phase = "swapping" => Swapping(t)

AdapterInv ==
    /\ PaidFor(Standing, executedPayments)
    /\ Delivered
    /\ payment = None => NotPaying
    /\ payment # None => Paying(payment.terms)

-----------------------------------------------------------------------------
\* The terms of a payment name an operation and a recipient.
LEMMA TermsType ==
    ASSUME NEW t \in Terms
    PROVE  /\ t.operationId \in OpId /\ t.recipient \in Recipient
           /\ t.ethAmount \in Nat
BY AmountAssumption DEF Terms, W

\* A payment on the stack is not None.
LEMMA PaymentType ==
    ASSUME TypeAdapter, payment # None
    PROVE  payment \in PayCall /\ payment.terms \in Terms /\ payment.before \in AdapterStorage
BY DEF TypeAdapter, PayCall

\* From e to f, operations were executed, none of them a withdrawal to the adapter.
Extends(e, f) ==
    \A op \in OpId : f[op] = e[op] \/ (e[op] = None /\ f[op] # None /\ f[op].destination # Adapter)

\* A withdrawal that is executed stays what it is.
LEMMA WithdrawnStays ==
    ASSUME NEW e, NEW f, Extends(e, f), NEW t \in Terms, Withdrawn(e, t)
    PROVE  Withdrawn(f, t)
BY TermsType DEF Extends, Withdrawn

\* Operations that do not concern the adapter leave its books right.
LEMMA BooksStay ==
    ASSUME NEW e, NEW f, Extends(e, f), NEW P \in SUBSET Receipt, NEW X
    PROVE  /\ PaidFor(e, P) => PaidFor(f, P)
           /\ Accounted(e, P, X) => Accounted(f, P, X)
<1>1. PaidFor(e, P) => PaidFor(f, P)
  BY WithdrawnStays DEF PaidFor, Receipt
<1>2. Accounted(e, P, X) => Accounted(f, P, X)
  BY DEF Extends, Accounted
<1> QED BY <1>1, <1>2

\* While a CALL is in progress, the storage is one operation ahead.
LEMMA StandingIs ==
    ASSUME TypeOK, OrderInv
    PROVE  /\ calls = <<>> => Standing = executedOperations
           /\ calls # <<>> => /\ Standing = Top.before.executedOperations
                              /\ Top.op \in OpId
                              /\ Standing[Top.op] = None /\ executedOperations[Top.op] # None
                              /\ \A op \in OpId \ {Top.op} : executedOperations[op] = Standing[op]
<1>1. calls = <<>> => Standing = executedOperations
  BY DEF Standing
<1>2. CASE calls # <<>>
  <2>1. Top = calls[1] /\ Top.op \in OpId
    BY <1>2, OneCall
  <2>2. Standing = Top.before.executedOperations
    BY <1>2, <2>1 DEF Standing
  <2>3. OneMore(Top.before.utxos, Top.before.executedOperations, utxos, executedOperations, Top.op)
    BY <1>2, <2>1 DEF OrderInv, InCall
  <2> QED BY <1>2, <2>1, <2>2, <2>3 DEF OneMore
<1> QED BY <1>1, <1>2

\* A new operation that is not for the adapter.
LEMMA CommitExtends ==
    ASSUME TypeOK, NEW op \in OpId, NEW r \in Request, NEW value,
           Executable(op, r, value), Commit(op, r), r.destination # Adapter
    PROVE  Extends(executedOperations, executedOperations')
<1>1. OneMore(utxos, executedOperations, utxos', executedOperations', op)
  BY CommitOneMore
<1>2. executedOperations'[op] = r
  BY DEF Commit, TypeOK
<1> QED BY <1>1, <1>2 DEF OneMore, Extends

\* What the pool does without the adapter does not concern the adapter.
LEMMA PoolStepExtends ==
    ASSUME TypeOK, OrderInv, TypeOK', OrderInv', [Next]_vars, ~PaysAdapter
    PROVE  Extends(Standing, Standing')
<1>1. Adapter # None
  BY AdapterAssumption, AddressAssumption
<1>2. ASSUME NEW op \in OpId, NEW r \in DepositRequest, NEW value \in 0..(W + 1),
             Deposit(op, r, value)
      PROVE  Extends(Standing, Standing')
  <2>1. r \in Request /\ r.destination # Adapter
    BY <1>1, DepositRequestType DEF DepositRequest
  <2>2. calls = <<>> /\ calls' = <<>>
    BY <1>2 DEF Deposit, Enter, OrderInv
  <2> QED BY <1>2, <2>1, <2>2, CommitExtends DEF Deposit, Standing
<1>3. ASSUME NEW op \in OpId, NEW ins \in UpToTwo(UtxoId), NEW r \in TransferRequest(ins),
             Transfer(op, r)
      PROVE  Extends(Standing, Standing')
  <2>1. r \in Request /\ r.destination # Adapter
    BY <1>1, SpendRequestType DEF TransferRequest
  <2>2. calls = <<>> /\ calls' = <<>>
    BY <1>3 DEF Transfer, Enter, OrderInv
  <2> QED BY <1>3, <2>1, <2>2, CommitExtends DEF Transfer, Standing
<1>4. ASSUME NEW op \in OpId, NEW ins \in UpToTwo(UtxoId), NEW r \in WithdrawRequest(ins),
             WithdrawCall(op, r)
      PROVE  Extends(Standing, Standing')
  <2>1. calls = <<>>
    BY <1>4 DEF WithdrawCall, Enter, OrderInv
  <2>2. calls' # <<>> /\ calls'[1].before.executedOperations = executedOperations
    BY <1>4, <2>1 DEF WithdrawCall, Snapshot
  <2> QED BY <2>1, <2>2 DEF Standing, Extends
<1>5. CASE WithdrawReturn
  <2>1. calls # <<>> /\ calls' = <<>> /\ executedOperations' = executedOperations
    BY <1>5, OneCall DEF WithdrawReturn
  <2>2. executedOperations[Top.op].destination # Adapter
    BY <2>1 DEF PaysAdapter
  <2>3. Standing' = executedOperations
    BY <2>1 DEF Standing
  <2> QED BY <2>1, <2>2, <2>3, StandingIs DEF Extends
<1>6. CASE WithdrawRevert
  <2>1. calls # <<>> /\ calls' = <<>> /\ executedOperations' = Standing
    BY <1>6, OneCall, StandingIs DEF WithdrawRevert
  <2> QED BY <2>1 DEF Standing, Extends
<1>7. ASSUME UNCHANGED <<executedOperations, calls>>
      PROVE  Extends(Standing, Standing')
  BY <1>7 DEF Standing, Extends
<1>8. ASSUME NEW amount \in 1..MaxBalance, Receive(amount)
      PROVE  Extends(Standing, Standing')
  BY <1>7, <1>8 DEF Receive
<1>9. CASE UNCHANGED vars
  BY <1>7, <1>9 DEF vars
<1> QED BY <1>2, <1>3, <1>4, <1>5, <1>6, <1>8, <1>9 DEF Next

-----------------------------------------------------------------------------
(* One lemma per action of the adapter.                                      *)

\* The invariant of the adapter and what it needs of the pool.
AllInv == TypeOK /\ OrderInv /\ TypeAdapter /\ AdapterInv

\* pay() calls the pool.
LEMMA PayStartKeeps ==
    ASSUME AllInv, NEW op \in OpId, NEW ins \in UpToTwo(UtxoId), NEW r \in WithdrawRequest(ins),
           NEW t \in Terms, PayStart(op, r, t)
    PROVE  AllInv'
<1> USE DEF AllInv
<1>1. TypeOK' /\ OrderInv'
  <2>1. op \notin {} /\ executedOperations[op] = None
    BY DEF PayStart, WithdrawCall, Executable, NewOperation
  <2>2. \A i \in DOMAIN ins : utxos[ins[i]].status # 0
    BY DEF PayStart, WithdrawCall, Executable, SpendableInputs, Inputs, WithdrawRequest
  <2>3. Next
    BY <2>1, <2>2 DEF Next, PayStart, Executed
  <2> QED BY <2>3, TypeInductive, OrderInductive
<1>2. r \in Request /\ calls = <<>> /\ payment = None /\ Standing = executedOperations
  BY SpendRequestType DEF PayStart, Standing
<1>3. /\ op = t.operationId /\ r.destination = Adapter /\ r.w = t.ethAmount
      /\ r.signer = t.signer /\ executedOperations[op] = None
  BY DEF PayStart, ValidWithdrawal, ValidTerms, PaymentSigned, WithdrawCall,
         Executable, Authorized, NewOperation
<1>4. executedOperations'[op] = r /\ r # None
  BY <1>2, NoneAssumption DEF PayStart, WithdrawCall, Commit, TypeOK
<1>5. calls' # <<>> /\ calls'[1].op = op /\ Standing' = executedOperations
  BY <1>2 DEF PayStart, WithdrawCall, Snapshot, Standing
<1>6. World \in AdapterStorage
  BY SnapshotType DEF World, AdapterStorage, TypeAdapter
<1>7. payment' \in PayCall /\ payment' # None
  <2>1. tokens[t.recipient] \in Nat
    BY TermsType DEF TypeAdapter
  <2> QED BY <1>6, <2>1, NoPaymentAssumption DEF PayStart, PayCall, TypeAdapter
<1>8. TypeAdapter'
  BY <1>7, TermsType DEF PayStart, TypeAdapter
<1>9. payment'.terms = t /\ payment'.phase = "withdrawing" /\ payment'.before = World
      /\ payment'.initialTokens = tokens[t.recipient]
  BY DEF PayStart
<1>10. ~Names(executedPayments, op)
  BY <1>2, <1>3 DEF AdapterInv, PaidFor, Withdrawn, Names
<1>11. Startable(payment.before)'
  <2>1. ~operationInProgress /\ Replayed(utxos, executedOperations, log)
    BY <1>2 DEF OrderInv
  <2>2. executedPayments' = executedPayments /\ tokens' = tokens
    BY DEF PayStart
  <2> QED BY <1>2, <1>9, <2>1, <2>2 DEF Startable, World, Snapshot, AdapterInv, NotPaying
<1>12. Withdrawing(t)'
  <2>1. Withdrawn(executedOperations, t)'
    BY <1>3, <1>4 DEF Withdrawn
  <2>2. expectedEth' = t.ethAmount /\ ~ethReceived' /\ adapterEth' = forcedEth'
    BY <1>2 DEF PayStart, AdapterInv, NotPaying
  <2> QED BY <1>3, <1>5, <2>1, <2>2 DEF Withdrawing
<1>13. Paying(t)'
  <2>1. Accounted(Standing, executedPayments, {t.operationId})'
    BY <1>2, <1>5 DEF PayStart, AdapterInv, NotPaying, Accounted
  <2>2. paymentInProgress' /\ executedPayments' = executedPayments /\ tokens' = tokens
    BY DEF PayStart
  <2> QED BY <1>3, <1>9, <1>10, <1>11, <1>12, <2>1, <2>2 DEF Paying
<1>14. PaidFor(Standing, executedPayments)' /\ Delivered'
  BY <1>2, <1>5 DEF PayStart, AdapterInv, Delivered
<1> QED BY <1>1, <1>7, <1>8, <1>9, <1>13, <1>14 DEF AdapterInv

\* The pool's CALL of receive() is that of the payment on the stack.
LEMMA AdapterReceiveKeeps ==
    ASSUME AllInv, AdapterReceive
    PROVE  AllInv'
<1> USE DEF AllInv
<1> DEFINE t == payment.terms
<1>1. TypeOK' /\ OrderInv'
  BY TypeInductive, OrderInductive DEF AdapterReceive, Next
<1>2. calls # <<>> /\ paymentInProgress /\ ~ethReceived
  BY DEF AdapterReceive, PaysAdapter, ReceiveAccepts
<1>3. payment # None /\ payment.phase = "withdrawing" /\ Withdrawing(t) /\ Paying(t)
      /\ t \in Terms
  <2>1. payment # None /\ Paying(t)
    BY <1>2 DEF AdapterInv, NotPaying
  <2>2. payment.phase # "swapping"
    BY <1>2, <2>1 DEF Paying, Swapping
  <2>3. payment.phase = "withdrawing"
    BY <2>1, <2>2, PaymentType DEF PayCall
  <2> QED BY <2>1, <2>3, PaymentType DEF Paying
<1>4. Top = calls[1] /\ Top.op = t.operationId /\ calls' = <<>>
  BY <1>2, <1>3, OneCall DEF Withdrawing, AdapterReceive, WithdrawReturn
<1>5. executedOperations' = executedOperations /\ Standing' = executedOperations
      /\ UNCHANGED <<executedPayments, tokens, forcedEth, payment, paymentInProgress>>
  BY <1>4 DEF AdapterReceive, WithdrawReturn, Standing
<1>6. \A op \in OpId \ {t.operationId} : Standing'[op] = Standing[op]
  BY <1>2, <1>4, <1>5, StandingIs
<1>7. ethReceived' /\ adapterEth' = forcedEth + t.ethAmount
  BY <1>2, <1>3, <1>4 DEF AdapterReceive, Withdrawing, Withdrawn
<1>8. TypeAdapter'
  BY <1>3, <1>5, <1>7, TermsType DEF TypeAdapter, AdapterReceive
<1>9. PaidFor(Standing, executedPayments)'
  <2>1. \A p \in executedPayments : /\ p.terms.operationId \in OpId \ {t.operationId}
    BY <1>3, TermsType DEF Paying, Names, TypeAdapter, Receipt
  <2> QED BY <1>5, <1>6, <2>1 DEF AdapterInv, PaidFor, Withdrawn
<1>10. Accounted(Standing, executedPayments, {t.operationId})'
  BY <1>3, <1>5, <1>6 DEF Paying, Accounted
<1>11. Withdrawing(t)'
  BY <1>3, <1>4, <1>5, <1>7 DEF Withdrawing, Withdrawn
<1>12. Paying(t)'
  BY <1>3, <1>5, <1>10, <1>11 DEF Paying, Startable
<1> QED BY <1>1, <1>3, <1>5, <1>8, <1>9, <1>12 DEF AdapterInv, Delivered

\* A withdrawal receive() refuses is undone; it was not one of pay().
LEMMA AdapterRefuseKeeps ==
    ASSUME AllInv, AdapterRefuse
    PROVE  AllInv'
<1> USE DEF AllInv
<1>1. TypeOK' /\ OrderInv'
  BY TypeInductive, OrderInductive DEF AdapterRefuse, Next
<1>2. calls # <<>> /\ calls' = <<>> /\ executedOperations' = Standing /\ Standing' = Standing
  BY OneCall, StandingIs DEF AdapterRefuse, PaysAdapter, WithdrawRevert, Standing
<1>3. payment # None => payment.phase # "withdrawing"
  <2> SUFFICES ASSUME payment # None, payment.phase = "withdrawing" PROVE FALSE
    OBVIOUS
  <2>1. Withdrawing(payment.terms) /\ paymentInProgress
    BY DEF AdapterInv, Paying
  <2>2. Top.op = payment.terms.operationId
    BY <1>2, <2>1, OneCall DEF Withdrawing
  <2> QED BY <1>2, <2>1, <2>2 DEF AdapterRefuse, ReceiveAccepts, Withdrawing, Withdrawn
<1>4. UNCHANGED adapterVars
  BY DEF AdapterRefuse
<1>5. TypeAdapter'
  BY <1>4 DEF TypeAdapter, adapterVars
<1>6. payment = None => NotPaying'
  BY <1>2, <1>4 DEF AdapterInv, NotPaying, adapterVars
<1>7. payment # None => Paying(payment.terms)'
  BY <1>2, <1>3, <1>4 DEF AdapterInv, Paying, Startable, Swapping, adapterVars
<1> QED BY <1>1, <1>2, <1>4, <1>5, <1>6, <1>7 DEF AdapterInv, Delivered, adapterVars

\* pay() hands all the ETH it received to the router.
LEMMA SwapCallKeeps ==
    ASSUME AllInv, SwapCall
    PROVE  AllInv'
<1> USE DEF AllInv
<1> DEFINE t == payment.terms
<1>1. TypeOK' /\ OrderInv' /\ Standing' = Standing /\ Standing = executedOperations
  <2>1. UNCHANGED vars
    BY DEF SwapCall
  <2>2. TypeOK' /\ OrderInv'
    BY <2>1, TypeInductive, OrderInductive
  <2> QED BY <2>1, <2>2 DEF vars, Standing, SwapCall
<1>2. /\ payment \in PayCall /\ payment # None /\ t \in Terms
      /\ payment' = [payment EXCEPT !.phase = "swapping"]
  BY PaymentType DEF SwapCall
<1>3. /\ payment' \in PayCall /\ payment' # None /\ payment'.terms = t
      /\ payment'.phase = "swapping" /\ payment'.before = payment.before
      /\ payment'.initialTokens = payment.initialTokens
  BY <1>2, NoPaymentAssumption DEF PayCall
<1>4. Paying(t) /\ Withdrawing(t) /\ calls = <<>>
  BY <1>2 DEF AdapterInv, Paying, SwapCall
<1>5. adapterEth' = forcedEth /\ ethReceived
  <2>1. adapterEth = forcedEth + t.ethAmount /\ adapterEth' = adapterEth - t.ethAmount
    BY <1>4 DEF Withdrawing, SwapCall
  <2>2. forcedEth \in Nat /\ t.ethAmount \in Nat
    BY <1>2, TermsType DEF TypeAdapter
  <2> QED BY <1>4, <2>1, <2>2 DEF Withdrawing
<1>6. UNCHANGED <<executedPayments, paymentInProgress, ethReceived, expectedEth, tokens, now, forcedEth>>
  BY DEF SwapCall
<1>7. TypeAdapter'
  BY <1>3, <1>5, <1>6 DEF TypeAdapter
<1>8. Swapping(t)'
  BY <1>1, <1>3, <1>4, <1>5, <1>6 DEF Withdrawing, Swapping
<1>9. Paying(t)'
  BY <1>1, <1>3, <1>4, <1>6, <1>8 DEF Paying, Startable
<1> QED BY <1>1, <1>3, <1>6, <1>7, <1>9 DEF AdapterInv, Delivered

\* A reverted pay() leaves the storage it started from.
LEMMA PayRevertKeeps ==
    ASSUME AllInv, PayRevert
    PROVE  AllInv'
<1> USE DEF AllInv
<1> DEFINE b == payment.before
<1>1. b \in AdapterStorage /\ Startable(b) /\ calls = <<>> /\ calls' = <<>>
  BY PaymentType DEF PayRevert, AdapterInv, Paying
<1>2. b.pool \in Storage
  BY <1>1 DEF AdapterStorage
<1>3. /\ utxos' = b.pool.utxos /\ executedOperations' = b.pool.executedOperations
      /\ accountedLiability' = b.pool.accountedLiability /\ balance' = b.pool.balance
      /\ operationInProgress' = b.pool.operationInProgress /\ log' = b.pool.log
  BY DEF PayRevert
<1>4. /\ executedPayments' = b.executedPayments /\ tokens' = b.tokens
      /\ paymentInProgress' = b.paymentInProgress /\ ethReceived' = b.ethReceived
      /\ expectedEth' = b.expectedEth /\ adapterEth' = b.adapterEth /\ forcedEth' = b.forcedEth
      /\ payment' = None /\ now' = now
  BY DEF PayRevert
<1>5. TypeOK'
  BY <1>1, <1>2, <1>3 DEF TypeOK, Storage
<1>6. OrderInv'
  BY <1>1, <1>3 DEF OrderInv, Startable
<1>7. TypeAdapter'
  BY <1>1, <1>4 DEF TypeAdapter, AdapterStorage
<1>8. Standing' = b.pool.executedOperations
  BY <1>1, <1>3 DEF Standing
<1>9. PaidFor(Standing, executedPayments)' /\ NotPaying'
  BY <1>1, <1>4, <1>8 DEF Startable, NotPaying
<1>10. Delivered'
  BY <1>1, <1>4 DEF Startable, AdapterInv, Delivered
<1> QED BY <1>4, <1>5, <1>6, <1>7, <1>9, <1>10 DEF AdapterInv

\* The pool used by others, before pay() or inside the router.
LEMMA PoolStepKeeps ==
    ASSUME AllInv, PoolStep
    PROVE  AllInv'
<1> USE DEF AllInv
<1>1. [Next]_vars /\ ~PaysAdapter /\ UNCHANGED adapterVars
  BY DEF PoolStep, OutsideControl
<1>2. TypeOK' /\ OrderInv'
  BY <1>1, TypeInductive, OrderInductive
<1>3. Extends(Standing, Standing')
  BY <1>1, <1>2, PoolStepExtends
<1>4. TypeAdapter'
  BY <1>1 DEF TypeAdapter, adapterVars
<1>5. executedPayments \in SUBSET Receipt
  BY DEF TypeAdapter
<1>6. PaidFor(Standing, executedPayments)'
  BY <1>1, <1>3, <1>5, BooksStay DEF AdapterInv, adapterVars
<1>7. payment = None => NotPaying'
  BY <1>1, <1>3, <1>5, BooksStay DEF AdapterInv, NotPaying, adapterVars
<1>8. ASSUME payment # None
      PROVE  Paying(payment.terms)'
  <2>1. payment.phase = "swapping" /\ payment.terms \in Terms /\ Paying(payment.terms)
    BY <1>8, PaymentType DEF PoolStep, OutsideControl, AdapterInv
  <2>2. Swapping(payment.terms)'
    BY <1>1, <1>3, <2>1, WithdrawnStays DEF Paying, Swapping, adapterVars
  <2>3. Accounted(Standing', executedPayments, {payment.terms.operationId})
    BY <1>3, <1>5, <2>1, BooksStay DEF Paying
  <2> QED BY <1>1, <2>1, <2>2, <2>3 DEF Paying, Startable, adapterVars
<1> QED BY <1>1, <1>2, <1>4, <1>6, <1>7, <1>8 DEF AdapterInv, Delivered, adapterVars

\* ETH that is forced into the adapter is counted as such.
LEMMA ForceEthKeeps ==
    ASSUME AllInv, ForceEth
    PROVE  AllInv'
<1> USE DEF AllInv
<1>1. UNCHANGED vars /\ adapterEth' = adapterEth + 1 /\ forcedEth' = forcedEth + 1
      /\ UNCHANGED <<executedPayments, paymentInProgress, ethReceived, expectedEth,
                     tokens, now, payment>>
  BY DEF ForceEth
<1>2. TypeOK' /\ OrderInv' /\ Standing' = Standing
  <2>1. TypeOK' /\ OrderInv'
    BY <1>1, TypeInductive, OrderInductive
  <2> QED BY <1>1, <2>1 DEF vars, Standing
<1>3. TypeAdapter'
  BY <1>1 DEF TypeAdapter
<1>4. payment = None => NotPaying'
  BY <1>1, <1>2 DEF AdapterInv, NotPaying
<1>5. ASSUME payment # None
      PROVE  Paying(payment.terms)'
  <2>1. payment.phase = "swapping" /\ Paying(payment.terms)
    BY <1>5 DEF ForceEth, OutsideControl, AdapterInv
  <2> QED BY <1>1, <1>2, <2>1 DEF Paying, Startable, Swapping
<1> QED BY <1>1, <1>2, <1>3, <1>4, <1>5 DEF AdapterInv, Delivered

\* A new block has a later timestamp.
LEMMA NextBlockKeeps ==
    ASSUME AllInv, NextBlock
    PROVE  AllInv'
<1> USE DEF AllInv
<1>1. UNCHANGED vars /\ payment = None /\ payment' = None /\ now' = now + 1
      /\ UNCHANGED <<executedPayments, paymentInProgress, ethReceived, expectedEth,
                     adapterEth, tokens, forcedEth>>
  BY DEF NextBlock
<1>2. TypeOK' /\ OrderInv' /\ Standing' = Standing
  <2>1. TypeOK' /\ OrderInv'
    BY <1>1, TypeInductive, OrderInductive
  <2> QED BY <1>1, <2>1 DEF vars, Standing
<1>3. TypeAdapter'
  BY <1>1 DEF TypeAdapter
<1> QED BY <1>1, <1>2, <1>3 DEF AdapterInv, NotPaying, Delivered

\* The sum of DeliveredAsAgreed.
LEMMA OutsSum ==
    ASSUME NEW S \in SUBSET Receipt, IsFiniteSet(S)
    PROVE  MapThenSumSet(LAMBDA p : p.amountOut, S) = Outs(S)
<1> DEFINE g == [p \in S |-> p.amountOut]
           Body(F, s) == IF s = {} THEN 0 ELSE Chosen(s).amountOut + F[s \ {Chosen(s)}]
           G == CHOOSE F : F = [s \in SUBSET S |-> Body(F, s)]
<1>1. MapThenSumSet(LAMBDA p : p.amountOut, S) = G[S]
  BY DEF MapThenSumSet, MapThenFoldSet, Chosen
<1>2. \A F : FoldedBy(F, g, S) <=> F = [s \in SUBSET S |-> Body(F, s)]
  <2> SUFFICES ASSUME NEW F
               PROVE  FoldedBy(F, g, S) <=> F = [s \in SUBSET S |-> Body(F, s)]
    OBVIOUS
  <2>1. \A s \in SUBSET S : s # {} => Chosen(s).amountOut = g[Chosen(s)]
    BY ChosenIn
  <2>2. [s \in SUBSET S |-> Body(F, s)]
          = [s \in SUBSET S |-> IF s = {} THEN 0 ELSE g[Chosen(s)] + F[s \ {Chosen(s)}]]
    <3> HIDE DEF g
    <3> QED BY <2>1
  <2> QED BY <2>2 DEF FoldedBy
<1>3. \A x \in S : g[x] \in Int
  BY AdapterAssumption DEF Receipt
<1> HIDE DEF g
<1>4. \E F : FoldedBy(F, g, S)
  BY <1>3, FoldsExist
<1> HIDE DEF Body
<1>5. G = [s \in SUBSET S |-> Body(G, s)]
  BY <1>2, <1>4
<1> HIDE DEF G
<1>6. FoldedBy(G, g, S)
  BY <1>2, <1>5
<1>7. SumOver(g, S) = G[S]
  BY <1>3, <1>6, SumValue
<1> QED BY <1>1, <1>7 DEF g, Outs

\* One more payment delivers what it reports.
LEMMA OutsWith ==
    ASSUME NEW S \in SUBSET Receipt, IsFiniteSet(S), NEW n \in Receipt, n \notin S
    PROVE  /\ IsFiniteSet(S \cup {n})
           /\ Outs(S) \in Nat
           /\ Outs(S \cup {n}) = n.amountOut + Outs(S)
<1> DEFINE g == [p \in S |-> p.amountOut]
           h == [p \in S \cup {n} |-> p.amountOut]
<1>1. \A p \in S \cup {n} : p.amountOut \in Nat
  BY AdapterAssumption DEF Receipt
<1>2. /\ \A p \in S \cup {n} : h[p] \in Nat
      /\ \A p \in S : g[p] \in Nat /\ h[p] = g[p]
      /\ h[n] = n.amountOut
  BY <1>1
<1>3. IsFiniteSet(S \cup {n})
  BY FS_AddElement
<1>4. Outs(S) = SumOver(g, S) /\ Outs(S \cup {n}) = SumOver(h, S \cup {n})
  BY DEF Outs
<1> HIDE DEF g, h
<1>5. SumOver(h, S \cup {n}) = h[n] + SumOver(h, S)
  BY <1>2, SumWith
<1>6. SumOver(h, S) = SumOver(g, S) /\ SumOver(g, S) \in Nat
  BY <1>2, SumAgrees, SumType
<1> QED BY <1>2, <1>3, <1>4, <1>5, <1>6

\* The router has returned and the checks have passed: the payment is recorded.
LEMMA SwapReturnKeeps ==
    ASSUME AllInv, NEW delivered \in 0..MaxOut, NEW reported \in 0..MaxOut,
           SwapReturn(delivered, reported)
    PROVE  AllInv'
<1> USE DEF AllInv
<1>1. PICK t : t = payment.terms
  OBVIOUS
<1> DEFINE P == executedPayments
           n == [terms |-> t, amountOut |-> reported, at |-> now]
<1>2. /\ payment # None /\ payment.phase = "swapping" /\ t \in Terms
      /\ Paying(t) /\ Swapping(t) /\ calls = <<>>
  BY <1>1, PaymentType DEF SwapReturn, AdapterInv, Paying
<1>3. TypeOK' /\ OrderInv' /\ Standing' = Standing
  <2>1. UNCHANGED vars
    BY DEF SwapReturn
  <2>2. TypeOK' /\ OrderInv'
    BY <2>1, TypeInductive, OrderInductive
  <2> QED BY <2>1, <2>2 DEF vars, Standing
<1>4. /\ executedPayments' = P \cup {n}
      /\ tokens' = [tokens EXCEPT ![t.recipient] = tokens[t.recipient] + delivered]
      /\ reported >= t.minAmountOut
      /\ (tokens[t.recipient] + delivered) - payment.initialTokens = reported
      /\ payment' = None /\ paymentInProgress' = FALSE /\ ethReceived' = FALSE /\ expectedEth' = 0
      /\ UNCHANGED <<adapterEth, now, forcedEth>>
  <2>1. /\ reported >= t.minAmountOut
        /\ (tokens[t.recipient] + delivered) - payment.initialTokens = reported
    BY <1>1 DEF SwapReturn, SwapChecked
  <2>2. executedPayments' = P \cup {n}
    BY <1>1 DEF SwapReturn
  <2>3. tokens' = [tokens EXCEPT ![t.recipient] = tokens[t.recipient] + delivered]
    BY <1>1 DEF SwapReturn
  <2>4. /\ payment' = None /\ paymentInProgress' = FALSE /\ ethReceived' = FALSE /\ expectedEth' = 0
        /\ UNCHANGED <<adapterEth, now, forcedEth>>
    BY DEF SwapReturn
  <2> HIDE DEF n
  <2> QED BY <2>1, <2>2, <2>3, <2>4
<1>5. t.recipient \in Recipient /\ t.operationId \in OpId
      /\ reported \in Nat /\ delivered \in Nat
      /\ tokens \in [Recipient -> Nat] /\ P \in SUBSET Receipt
  BY <1>2, TermsType, AdapterAssumption DEF TypeAdapter
<1>6. n \in Receipt /\ n \notin P /\ n.terms = t /\ n.amountOut = reported
  <2>1. n \in Receipt /\ n.terms = t
    BY <1>2 DEF Receipt, TypeAdapter
  <2>2. n \notin P
    BY <1>2 DEF Paying, Names
  <2> QED BY <2>1, <2>2
<1> HIDE DEF n
<1>7. tokens'[t.recipient] = tokens[t.recipient] + reported
      /\ \A a \in Recipient \ {t.recipient} : tokens'[a] = tokens[a]
  <2>1. payment.initialTokens = tokens[t.recipient]
    BY <1>2 DEF Paying
  <2>2. tokens[t.recipient] \in Nat
    BY <1>5
  <2> QED BY <1>4, <1>5, <2>1, <2>2
<1>8. TypeAdapter'
  <2>1. tokens[t.recipient] + delivered \in Nat
    BY <1>5
  <2>2. tokens' \in [Recipient -> Nat]
    BY <1>4, <1>5, <2>1
  <2> QED BY <1>4, <1>5, <1>6, <2>2 DEF TypeAdapter
<1>9. PaidFor(Standing, executedPayments)'
  <2>1. Withdrawn(Standing, t) /\ PaidFor(Standing, P)
    BY <1>2 DEF Swapping, AdapterInv
  <2>2. \A p \in P : p.terms.operationId # t.operationId
    BY <1>2 DEF Paying, Names
  <2> QED BY <1>3, <1>4, <1>6, <2>1, <2>2 DEF PaidFor
<1>10. NotPaying'
  <2>1. Accounted(Standing, P, {t.operationId})
    BY <1>2 DEF Paying
  <2>2. Accounted(Standing, P \cup {n}, {})
    BY <1>6, <2>1 DEF Accounted, Names
  <2>3. adapterEth' = forcedEth'
    BY <1>2, <1>4 DEF Swapping
  <2> QED BY <1>3, <1>4, <2>2, <2>3 DEF NotPaying
<1>11. Delivered'
  <2>1. IsFiniteSet(P) /\ IsFiniteSet(P \cup {n})
    BY FS_AddElement DEF AdapterInv, Delivered
  <2>2. \A p \in P \cup {n} : p.amountOut >= p.terms.minAmountOut
    BY <1>4, <1>6 DEF AdapterInv, Delivered
  <2>3. ASSUME NEW a \in Recipient
        PROVE  tokens'[a] = Outs(To(P \cup {n}, a))
    <3>1. tokens[a] = Outs(To(P, a))
      BY DEF AdapterInv, Delivered
    <3>2. CASE a = t.recipient
      <4>1. To(P \cup {n}, a) = To(P, a) \cup {n} /\ n \notin To(P, a)
        BY <1>6, <3>2 DEF To
      <4>2. To(P, a) \in SUBSET Receipt /\ IsFiniteSet(To(P, a))
        BY <1>5, <2>1, FS_Subset DEF To
      <4>3. Outs(To(P \cup {n}, a)) = n.amountOut + Outs(To(P, a)) /\ Outs(To(P, a)) \in Nat
        BY <1>6, <4>1, <4>2, OutsWith
      <4> QED BY <1>5, <1>6, <1>7, <3>1, <3>2, <4>3
    <3>3. CASE a # t.recipient
      <4>1. To(P \cup {n}, a) = To(P, a)
        BY <1>6, <3>3 DEF To
      <4> QED BY <1>7, <3>1, <3>3, <4>1
    <3> QED BY <3>2, <3>3
  <2> QED BY <1>4, <2>1, <2>2, <2>3 DEF Delivered
<1> QED BY <1>3, <1>4, <1>8, <1>9, <1>10, <1>11 DEF AdapterInv

-----------------------------------------------------------------------------
\* Every step of the adapter and of the world around it keeps the invariant.
LEMMA AdapterInductive == AllInv /\ [NextAdapter]_allVars => AllInv'
<1> SUFFICES ASSUME AllInv, [NextAdapter]_allVars PROVE AllInv'
  OBVIOUS
<1>1. ASSUME NEW op \in OpId, NEW id \in UtxoId, NEW r \in WithdrawRequest(<<id>>),
             NEW t \in Terms, PayStart(op, r, t)
      PROVE  AllInv'
  <2>1. <<id>> \in UpToTwo(UtxoId)
    BY DEF UpToTwo
  <2> QED BY <1>1, <2>1, PayStartKeeps
<1>2. ASSUME NEW delivered \in 0..MaxOut, NEW reported \in 0..MaxOut,
             SwapReturn(delivered, reported)
      PROVE  AllInv'
  BY <1>2, SwapReturnKeeps
<1>3. CASE UNCHANGED allVars
  <2>1. UNCHANGED vars /\ UNCHANGED adapterVars
    BY <1>3 DEF allVars
  <2>2. TypeOK' /\ OrderInv' /\ Standing' = Standing
    <3>1. TypeOK' /\ OrderInv'
      BY <2>1, TypeInductive, OrderInductive DEF AllInv
    <3> QED BY <2>1, <3>1 DEF vars, Standing
  <2>3. TypeAdapter'
    BY <2>1 DEF AllInv, TypeAdapter, adapterVars
  <2>4. payment # None => Paying(payment.terms)'
    BY <2>1, <2>2 DEF AllInv, AdapterInv, Paying, Startable, Swapping, Withdrawing,
                      vars, adapterVars
  <2> QED BY <2>1, <2>2, <2>3, <2>4 DEF AllInv, AdapterInv, NotPaying, Delivered, adapterVars
<1> QED BY <1>1, <1>2, <1>3, AdapterReceiveKeeps, AdapterRefuseKeeps, SwapCallKeeps,
           PayRevertKeeps, PoolStepKeeps, ForceEthKeeps, NextBlockKeeps DEF NextAdapter

\* An adapter that was just deployed has no payments.
LEMMA InitAdapterInv == InitAdapter => AllInv
<1> SUFFICES ASSUME InitAdapter PROVE AllInv
  OBVIOUS
<1>1. TypeOK /\ OrderInv
  BY InitType, InitOrder DEF InitAdapter
<1>2. TypeAdapter /\ payment = None /\ executedPayments = {} /\ ~paymentInProgress
      /\ adapterEth = forcedEth /\ tokens = [a \in Recipient |-> 0]
  BY DEF InitAdapter, TypeAdapter
<1>3. \A op \in OpId : Standing[op] = None
  BY DEF InitAdapter, Init, Standing
<1>4. Delivered
  <2>1. \A a : To(executedPayments, a) = {}
    BY <1>2 DEF To
  <2>2. Outs({}) = 0 /\ IsFiniteSet({})
    <3>1. PICK g : g = [p \in {} |-> p.amountOut]
      OBVIOUS
    <3>2. SumOver(g, {}) = 0
      BY FS_EmptySet, SumType
    <3> QED BY <3>1, <3>2, FS_EmptySet DEF Outs
  <2> QED BY <1>2, <2>1, <2>2 DEF Delivered
<1>5. PaidFor(Standing, executedPayments) /\ NotPaying
  BY <1>2, <1>3 DEF PaidFor, NotPaying, Accounted
<1> QED BY <1>1, <1>2, <1>4, <1>5 DEF AllInv, AdapterInv

\* The pool's types and order of events hold although pay() may undo what the
\* pool has done, and the books of the adapter are right at every point of pay().
LEMMA AdapterInvariant == SpecAdapter => []AllInv
BY InitAdapterInv, AdapterInductive, PTL DEF SpecAdapter

\* reconcilePayment (packages/uniswap) and classify (the service) may conclude a
\* payment from a withdrawal to the adapter and the other way round.
THEOREM WithdrawalIsPayment == SpecAdapter => []WithdrawnIffPaid
<1>1. AllInv => WithdrawnIffPaid
  <2> SUFFICES ASSUME AllInv, payment = None, calls = <<>>
               PROVE  WithdrawnIffPaid
    BY DEF WithdrawnIffPaid
  <2>1. /\ PaidFor(executedOperations, executedPayments)
        /\ Accounted(executedOperations, executedPayments, {}) /\ adapterEth = forcedEth
    BY DEF AllInv, AdapterInv, NotPaying, Standing
  <2>2. \A p \in executedPayments : p.terms.operationId \in OpId
    BY TermsType DEF AllInv, TypeAdapter, Receipt
  <2>3. ASSUME NEW op \in Executed, executedOperations[op].destination = Adapter
        PROVE  Cardinality({p \in executedPayments : p.terms.operationId = op}) = 1
    <3>1. PICK p \in executedPayments : p.terms.operationId = op
      BY <2>1, <2>3 DEF Accounted, Names, Executed
    <3>2. {q \in executedPayments : q.terms.operationId = op} = {p}
      BY <2>1, <3>1 DEF PaidFor
    <3> QED BY <3>2, FS_Singleton
  <2>4. ASSUME NEW p \in executedPayments
        PROVE  /\ p.terms.operationId \in Executed
               /\ LET r == executedOperations[p.terms.operationId]
                  IN r.destination = Adapter /\ r.w = p.terms.ethAmount /\ r.signer = p.terms.signer
    BY <2>1, <2>2 DEF PaidFor, Withdrawn, Executed
  <2> QED BY <2>1, <2>3, <2>4 DEF WithdrawnIffPaid
<1> QED BY <1>1, AdapterInvariant, PTL

\* _swapAndCheck: the recipients hold what the recorded payments say, whatever the
\* router reports and delivers.
THEOREM PaymentsDelivered == SpecAdapter => []DeliveredAsAgreed
<1>1. AllInv => DeliveredAsAgreed
  <2> SUFFICES ASSUME AllInv PROVE DeliveredAsAgreed
    OBVIOUS
  <2>1. Delivered /\ executedPayments \in SUBSET Receipt
    BY DEF AllInv, AdapterInv, TypeAdapter
  <2>2. ASSUME NEW a \in Recipient
        PROVE  tokens[a] = MapThenSumSet(LAMBDA p : p.amountOut,
                                         {p \in executedPayments : p.terms.recipient = a})
    <3>1. PICK S : S = {p \in executedPayments : p.terms.recipient = a}
      OBVIOUS
    <3>2. S \in SUBSET Receipt /\ IsFiniteSet(S) /\ S = To(executedPayments, a)
      BY <2>1, <3>1, FS_Subset DEF Delivered, To
    <3>3. tokens[a] = MapThenSumSet(LAMBDA p : p.amountOut, S)
      BY <2>1, <3>2, OutsSum DEF Delivered
    <3> QED BY <3>1, <3>3
  <2> QED BY <2>1, <2>2 DEF Delivered, DeliveredAsAgreed
<1> QED BY <1>1, AdapterInvariant, PTL
=============================================================================
