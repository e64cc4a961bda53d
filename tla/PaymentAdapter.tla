--------------------------- MODULE PaymentAdapter ---------------------------
(***************************************************************************)
(* contracts/src/integration/uniswap/UniswapPaymentAdapter.sol on top of    *)
(* Pool: pay() withdraws ETH from the pool to the adapter, swaps it through *)
(* Router02 and checks what the recipient got.  One transaction, with       *)
(* control given away twice: to the pool, which calls the adapter's         *)
(* receive(), and to the router, which may run any code before it returns.  *)
(***************************************************************************)
EXTENDS Pool

CONSTANTS
    Adapter,       \* the adapter's address, a destination of withdrawals
    Recipient,     \* addresses that may be named as recipient of the tokens
    SystemAddress, \* the recipients _validatePayment refuses
    MaxOut,        \* bound: tokens one swap delivers
    MaxTime,       \* bound: block.timestamp
    MaxForced      \* bound: ETH forced into the adapter, which no code can refuse

ASSUME AdapterAssumption ==
    /\ Adapter \in Payee \ {PoolAddress}
    /\ SystemAddress \subseteq Recipient
    /\ MaxOut \in Nat /\ MaxTime \in Nat /\ MaxForced \in Nat

VARIABLES
    executedPayments,  \* the payments that succeeded, with what they delivered
    paymentInProgress, \* the reentrancy flag of pay()
    ethReceived,       \* receive() has accepted the pool's ETH
    expectedEth,       \* the only amount receive() accepts
    adapterEth,        \* address(adapter).balance
    tokens,            \* Recipient -> dUSD balance
    now,               \* block.timestamp
    forcedEth,         \* ETH forced into the adapter (selfdestruct, coinbase)
    payment            \* the pay() call on the stack, or None

adapterVars == <<executedPayments, paymentInProgress, ethReceived, expectedEth,
                 adapterEth, tokens, now, forcedEth, payment>>
allVars == <<vars, adapterVars>>

\* PaymentTerms with the account its signature recovers to.  paymentId is the
\* digest of the terms; operationId ties them to one withdrawal.
Terms == [operationId : OpId, owner : Owner, signer : Owner, ethAmount : 0..(W + 1),
          minAmountOut : 0..MaxOut, recipient : Recipient, deadline : 0..MaxTime]

\* executedPayments, the storage a revert of pay() goes back to, and the call itself.
Receipt == [terms : Terms, amountOut : 0..MaxOut, at : Nat]
AdapterStorage ==
    [pool : Storage, executedPayments : SUBSET Receipt, paymentInProgress : BOOLEAN,
     ethReceived : BOOLEAN, expectedEth : Nat, adapterEth : Nat,
     tokens : [Recipient -> Nat], forcedEth : Nat]
PayCall == [terms : Terms, phase : {"withdrawing", "swapping"}, initialEth : Nat,
            initialTokens : Nat, before : AdapterStorage]

ASSUME NoPaymentAssumption == None \notin PayCall

InitAdapter ==
    /\ Init
    /\ executedPayments = {}
    /\ paymentInProgress = FALSE
    /\ ethReceived = FALSE
    /\ expectedEth = 0
    /\ adapterEth = 0
    /\ tokens = [a \in Recipient |-> 0]
    /\ now = 1
    /\ forcedEth = 0
    /\ payment = None

-----------------------------------------------------------------------------
\* _validatePayment: the withdrawal is a partial one, to the adapter, and the
\* terms name it.
ValidWithdrawal(op, r, t) ==
    /\ r.kind = "withdraw" /\ r.d = 0 /\ r.w # 0
    /\ Len(r.inputIds) = 1 /\ Len(r.outputs) = 1
    /\ r.owner = t.owner /\ r.outputs[1].owner = t.owner
    /\ r.destination = Adapter
    /\ t.ethAmount = r.w
    /\ t.operationId = op

\* _validatePayment: PaymentExpired; the deadline's own second still counts.
NotExpired(t) == t.deadline # 0 /\ now <= t.deadline

\* _validatePayment: InvalidPaymentSignature.
PaymentSigned(t) == t.signer = t.owner

ValidTerms(t) ==
    /\ t.recipient \notin SystemAddress
    /\ t.minAmountOut # 0
    /\ NotExpired(t)
    /\ \A p \in executedPayments : p.terms # t
    /\ PaymentSigned(t)

World == [pool |-> Snapshot, executedPayments |-> executedPayments,
          paymentInProgress |-> paymentInProgress, ethReceived |-> ethReceived,
          expectedEth |-> expectedEth, adapterEth |-> adapterEth,
          tokens |-> tokens, forcedEth |-> forcedEth]

\* pay() up to the pool's call of receive().
PayStart(op, r, t) ==
    /\ ~paymentInProgress
    /\ payment = None /\ calls = <<>>
    /\ ValidWithdrawal(op, r, t)
    /\ ValidTerms(t)
    /\ WithdrawCall(op, r)
    /\ paymentInProgress' = TRUE
    /\ expectedEth' = t.ethAmount
    /\ ethReceived' = FALSE
    /\ payment' = [terms |-> t, phase |-> "withdrawing", initialEth |-> adapterEth,
                   initialTokens |-> tokens[t.recipient], before |-> World]
    /\ UNCHANGED <<executedPayments, adapterEth, tokens, now, forcedEth>>

\* A variant: receive() accepts any ETH.
ReceiveAcceptsAny(value) == value \in Nat

\* receive(): the only ETH it accepts.
ReceiveAccepts(value) == paymentInProgress /\ ~ethReceived /\ value = expectedEth

PaysAdapter == calls # <<>> /\ executedOperations[Top.op].destination = Adapter

AdapterReceive ==
    /\ PaysAdapter
    /\ ReceiveAccepts(executedOperations[Top.op].w)
    /\ ethReceived' = TRUE
    /\ adapterEth' = adapterEth + executedOperations[Top.op].w
    /\ WithdrawReturn
    /\ UNCHANGED <<executedPayments, paymentInProgress, expectedEth, tokens, now, forcedEth, payment>>

\* A withdrawal to the adapter that receive() refuses, and with it the withdrawal.
AdapterRefuse ==
    /\ PaysAdapter
    /\ ~ReceiveAccepts(executedOperations[Top.op].w)
    /\ WithdrawRevert
    /\ UNCHANGED adapterVars

\* pay() after withdraw: the accounting check, then the call of Router02 with the ETH.
SwapCall ==
    /\ payment # None /\ payment.phase = "withdrawing" /\ calls = <<>>
    /\ ethReceived
    /\ adapterEth = payment.initialEth + payment.terms.ethAmount
    /\ adapterEth' = adapterEth - payment.terms.ethAmount
    /\ payment' = [payment EXCEPT !.phase = "swapping"]
    /\ UNCHANGED <<vars, executedPayments, paymentInProgress, ethReceived, expectedEth,
                   tokens, now, forcedEth>>

\* A variant: the router's report is believed.
SwapBelieved(t, reported, after) ==
    /\ reported # 0 /\ reported >= t.minAmountOut
    /\ adapterEth = payment.initialEth

\* _swapAndCheck: what the router returned against what was agreed and delivered.
SwapChecked(t, reported, after) ==
    /\ reported # 0 /\ reported >= t.minAmountOut
    /\ adapterEth = payment.initialEth
    /\ after >= payment.initialTokens
    /\ after - payment.initialTokens = reported

\* The router has delivered tokens and reports an amount; pay() runs to its end.
SwapReturn(delivered, reported) ==
    /\ payment # None /\ payment.phase = "swapping" /\ calls = <<>>
    /\ LET t == payment.terms
           after == tokens[t.recipient] + delivered
       IN /\ SwapChecked(t, reported, after)
          /\ tokens' = [tokens EXCEPT ![t.recipient] = after]
          /\ executedPayments' = executedPayments \cup {[terms |-> t, amountOut |-> reported, at |-> now]}
    /\ expectedEth' = 0
    /\ ethReceived' = FALSE
    /\ paymentInProgress' = FALSE
    /\ payment' = None
    /\ UNCHANGED <<vars, adapterEth, now, forcedEth>>

\* A failed check, a failing router or a lack of gas: everything pay() did is undone.
PayRevert ==
    /\ payment # None /\ calls = <<>>
    /\ LET b == payment.before
       IN /\ utxos' = b.pool.utxos
          /\ executedOperations' = b.pool.executedOperations
          /\ accountedLiability' = b.pool.accountedLiability
          /\ balance' = b.pool.balance
          /\ operationInProgress' = b.pool.operationInProgress
          /\ log' = b.pool.log
          /\ executedPayments' = b.executedPayments
          /\ paymentInProgress' = b.paymentInProgress
          /\ ethReceived' = b.ethReceived
          /\ expectedEth' = b.expectedEth
          /\ adapterEth' = b.adapterEth
          /\ tokens' = b.tokens
          /\ forcedEth' = b.forcedEth
    /\ payment' = None
    /\ UNCHANGED <<calls, now>>

-----------------------------------------------------------------------------
(* The rest of the world: the pool used directly, ETH forced into the        *)
(* adapter, time.  Inside pay() it has control only while the router runs.   *)

OutsideControl == (payment # None => payment.phase = "swapping") /\ ~PaysAdapter

PoolStep == OutsideControl /\ Next /\ UNCHANGED adapterVars

ForceEth ==
    /\ OutsideControl
    /\ forcedEth < MaxForced
    /\ forcedEth' = forcedEth + 1
    /\ adapterEth' = adapterEth + 1
    /\ UNCHANGED <<vars, executedPayments, paymentInProgress, ethReceived, expectedEth,
                   tokens, now, payment>>

NextBlock ==
    /\ payment = None /\ calls = <<>> /\ now < MaxTime
    /\ now' = now + 1
    /\ UNCHANGED <<vars, executedPayments, paymentInProgress, ethReceived, expectedEth,
                   adapterEth, tokens, forcedEth, payment>>

NextAdapter ==
    \/ \E op \in OpId \ Executed, id \in UtxoId :
          /\ utxos[id].status # 0
          /\ \E r \in WithdrawRequest(<<id>>) :
                /\ Executable(op, r, 0)
                /\ \E t \in Terms : PayStart(op, r, t)
    \/ AdapterReceive \/ AdapterRefuse \/ SwapCall \/ PayRevert
    \/ \E delivered, reported \in 0..MaxOut : SwapReturn(delivered, reported)
    \/ PoolStep \/ ForceEth \/ NextBlock

SpecAdapter == InitAdapter /\ [][NextAdapter]_allVars

-----------------------------------------------------------------------------
\* A withdrawal to the adapter is executed if and only if one payment that
\* names it is: reconcilePayment (packages/uniswap) and classify (the service)
\* conclude the one from the other.  All its ETH went through the router: the
\* adapter holds only what it could not refuse.
WithdrawnIffPaid ==
    payment = None /\ calls = <<>> =>
        /\ \A op \in Executed : executedOperations[op].destination = Adapter =>
              Cardinality({p \in executedPayments : p.terms.operationId = op}) = 1
        /\ \A p \in executedPayments :
              /\ p.terms.operationId \in Executed
              /\ LET r == executedOperations[p.terms.operationId]
                 IN r.destination = Adapter /\ r.w = p.terms.ethAmount /\ r.signer = p.terms.signer
        /\ adapterEth = forcedEth

\* A recipient holds exactly what the payments to it report, each at least the
\* agreed minimum, however the router behaves.
DeliveredAsAgreed ==
    payment = None =>
        /\ \A a \in Recipient :
              tokens[a] = MapThenSumSet(LAMBDA p : p.amountOut,
                                        {p \in executedPayments : p.terms.recipient = a})
        /\ \A p \in executedPayments : p.amountOut >= p.terms.minAmountOut
=============================================================================
