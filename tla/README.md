# Verification of Dim: confidential ETH UTXOs and Uniswap payments

This directory holds TLA+ models of the program in `src/`, the TLC
configurations that check them, and TLAPS proofs about the core. Paths below are
relative to `src/`.

## 1. The system

| Part | State it keeps | Operations | Interacts with |
| --- | --- | --- | --- |
| Pool (`contracts/src/Pool.sol`) | UTXOs (owner, commitment, status), executed operation ids, accounted liability, its ETH, the reentrancy flag | `deposit`, `transfer`, `withdraw`, `receive` | calls the amount verifier, and the destination of a withdrawal in the middle of `_commit` |
| Amount verifier (`contracts/src/verifier`) | none | balance proof, range proof | called by the pool |
| Payment adapter (`contracts/src/integration/uniswap/UniswapPaymentAdapter.sol`) | executed payments, reentrancy flag, the amount `receive()` expects | `pay`, `receive` | calls `Pool.withdraw`, is paid by it, calls Router02 |
| Reservation service (`apps/uniswap-service/src`) | operation records with revision, state version and status; active reservations; environment state; an external recovery gate | PUT, GET, release, reconcile, begin/complete restore | reads the chain at the finalized and the latest block; used by several browsers of one owner |
| Authentication (`auth.ts`) | challenges, sessions | create, verify, read session | browsers |
| Reward distribution (`apps/uniswap-service/src/rewards`) | requests in a queue, reservations of funds, drafts, inputs, signed attempts, cancellations, consolidations, stop flags, one alarm | admit, alarm (dispatch, reconcile, broadcast), received, end, cancel, stop, resume | the pool through an RPC node, operators, browsers |
| Payment client (`packages/uniswap`) | a local cache of the record, the service's record | authorize, recover, resume, change terms, reconcile | wallet, service, chain |
| Core client (`packages/core`, `packages/ethereum`) | the synchronised UTXO set, attempts of an operation | synchronize, track, preflight, submit, replace fee | RPC node |
| CLI (`packages/cli`) | encrypted state file, journals | owner and submitter commands | all of the above |
| Web application (`apps/uniswap-web`) | a mock at this commit | | |

What is hard in it: the pool and the adapter hand control to foreign code in the
middle of a transaction; the service's handlers read, await the chain and write
later, while other browsers, reconciliation and a restore run; acknowledgements
get lost and requests are repeated; the latest block can be undone, the finalized
one almost never, yet the code handles that too; the reward queue has to survive
restarts between signing and sending, and to wake up again. `PROJECT.json` lists
these hazards at their lines.

What makes each part correct:

- Pool: no ETH is created, every UTXO is spent once and by its owner, the pool can
  always pay what it owes, and its events can be replayed in order.
- Adapter: a withdrawal to the adapter happens exactly together with its payment,
  the recipient gets at least the minimum.
- Reservations: two operations on one input are never both signed and executable;
  records and reservations agree; nothing acknowledged is lost.
- Rewards: each request is paid at most once and in order, what is promised is
  backed by funds, a cancelled request is never paid, work left over is scheduled.
- Client and core: a lost answer never leads to a second authorization; the UTXO
  set is that of one block; a replaced transaction keeps its operation.

## 2. Modules

| Module | Models | Kind |
| --- | --- | --- |
| `Pool` | `contracts/src/Pool.sol`, `PoolBinding.sol`, `PoolTypes.sol` | component |
| `AccountLedger` | what the pool promises: one account per owner | abstract specification |
| `AmountProofs` | `packages/crypto/src/{range,balance}` against `contracts/src/verifier` | two implementations of one algorithm |
| `PaymentAdapter` | `UniswapPaymentAdapter.sol`, extending `Pool` | composition |
| `HistorySync` | `packages/core/src/{sync,tracking}.ts` over `packages/ethereum/src/{history,rpc}.ts` | component with its node |
| `Submission` | `packages/cli/src/{submitter,journal}.ts` over `packages/ethereum/src/{submission,observation}.ts` | component with the network |
| `OwnerStore` | `packages/cli/src/{state,atomic-file,payment-state,owner,payment-owner,connection-main}.ts` | component with its processes |
| `PaymentClient` | `packages/uniswap/src/{process,recovery}.ts` with the ports of `packages/cli/src` | component with service, chain and other tabs |
| `AuthChallenge` | `apps/uniswap-service/src/auth.ts` | component |
| `ReservationStore` | `store.ts`, `reconcile.ts`, `recovery.ts`, the routes of `durable-object.ts` | component with its clients and the chain |
| `RewardQueue` | `rewards/{routes,store,queue,production,operator,availability}.ts`, the operator's routes of `durable-object.ts` | component with its alarm, its operators and the chain |
| `RewardConsolidation` | `rewards/consolidation.ts`, its callers in `production.ts`, `queue.ts` and `operator.ts`, and `packages/core/src/selection.ts` | component with the chain |
| `PoolProofs`, `ReservationProofs`, `ClientProofs`, `RewardProofs`, `ConsolidationProofs` | theorems about the component of that name; `PoolProofs` also about `PaymentAdapter`, `ClientProofs` about `AuthChallenge` | proofs |
| `WalletProofs` | theorems about `Submission`, `OwnerStore` and `HistorySync` | proofs |
| `AmountCompleteness` | the theorem about `AmountProofs` | proofs |
| `SumProofs` | what one element does to a sum over a finite set | lemmas, used by `PoolProofs`, `RewardProofs`, `ConsolidationProofs` and `AmountCompleteness` |
| `MC*` | values of the constants for TLC; `MCPool`, `MCConnection`, `MCWallet` and `MCRewardFunds` each put two or three modules into one run | instances |

The four modules that put several into one run have a variable `part`, chosen at the
start, and a behaviour runs only that part. The parts share no state: what one of them
relies on in the other is an assumption of its own (`Pool` uses the statement that
`AmountProofs` establishes, `HistorySync` and `PaymentClient` have a chain of their own).
Where components do meet in one state, they are composed: `PaymentAdapter` runs on `Pool`.

### Pool

A transaction is one step, except `withdraw`, whose CALL of the destination is a
point where anything may happen: `WithdrawCall` runs up to it, `WithdrawReturn` and
`WithdrawRevert` are the two ways it ends, and in between every other action is
possible (the guard `Enter` has to refuse it). `calls` is the stack of such calls;
each frame keeps the storage that a revert restores.

A commitment is the amount it hides, in `0..Q-1`. A balance proof is the equation
modulo `Q`; a range proof is membership in `1..M`. This assumes that the proofs are
sound and that nobody finds a second opening of a commitment. `OutputId` and
operation ids are injective names for hashes. A signature is the account it
recovers to. Requests range over all calldata of the small instance, invalid ones
included; only operation ids already used and inputs that never existed, which the
code refuses at once, are not enumerated.

### PaymentAdapter

`PayStart` runs `pay()` up to the pool's payment, `AdapterReceive` or
`AdapterRefuse` is `receive()`, `SwapCall` hands the ETH to the router, and
`SwapReturn` is the rest of `pay()`. `PayRevert` undoes the transaction. While the
router has control it may run every pool operation, ETH may be forced into the
adapter, and it may report an amount other than the one it delivers.

### AmountProofs

The client's prover and the contract's verifier are written separately: the prover folds
its vectors round by round, the verifier multiplies by a weight for each index. A point of
the curve is the vector of its coefficients over the independent generators, which is what
is left of a point when nobody knows a relation between the generators; the group has a
small prime order and the ranges 4 bits instead of 64. The transcript is the sequence of what
each end has hashed; a challenge is any nonzero scalar of `Answer`, and the verifier's is
the prover's only if it hashes the same. `ProvedIffTrue` compares the verdict with the
truth, from any amount, openings and public amounts, the wrong ones included. What
is shown is that honest proofs of true statements pass and that the client refuses
everything else; for every prime order and every width it is proved in `AmountCompleteness`.
`Weight` is computed as `calculateInnerWeights` does, from one inverse of the product of the
challenges and their squares. `Product`, `Power` and `With` (a record with fields added, as the
prover's objects grow) are written out as functions, so that they can be proved about. That
nobody can make a proof of a false statement is a cryptographic assumption, on which `Pool`
relies.

### HistorySync

`synchronize` and `prepareSubmission` one RPC answer at a time (`HeaderRead`, `ReadPage`,
`AskExecuted`, ...); between two answers the node may move to another fork (`Fork`) and back.
A block is the history up to it, so two blocks are equal exactly when their hashes are. Calls
pinned to a block hash read the state in that block (`PinnedState`).

### Submission

The account's processes share one journal. `Quote` takes a nonce from the node, `Persist`
writes the row before `SendTx` sends it, and `Record`, or a lost answer (`Break`), ends it.
`Inspect`, `Observe` and `GiveVerdict` are `inspect` with its four reads, after each of which
blocks may come (`MineTx`, `MineForeign`), become final or be undone (`Unmine`).
`submit`, `retry` and `replace` start it.

### OwnerStore

Each command reads the store without the lock (`Look`, `Load`, `Reload`), works, and then
writes under the lock what it makes of the state it reads again there (the actions of
`Update`). `file` is what a reader finds, `durable` what a loss of power leaves. A process may
die at any step and leave the lock (`Crash`), which an operator removes; a backup may be
restored. `reported` and `restored` only record what the properties speak about.

### PaymentClient

One Pay and several calls of the client for it. Every write to the service goes through
`recoverAck`: `Write` puts a request on its way, `Serve` lets it arrive and answers it, early,
late or never (`WriteTimesOut`), and `Reread` decides from a read whether it was ours
(`OwnWrite`). `Authorize`, `WriteStarted`, `Sign`, `WriteAttempt`, `JournalAttempt`, `Send`,
`RecordSend` and `FinishExport` are the steps of an authorization; `RecoverRead` collects the
evidence that `ResumeOriginal`, `RetryAttempt` and `ChangeTerms` judge later. Transactions
of the exported Pay by another submitter and the successor's input are part of the chain. The
client compares the deadline with the finalized block (`DeadlineLive`, the clock of
`payment-owner.ts:277` where finality is `finalized`), a gas estimate with the latest one.

### AuthChallenge

`VerifyStart` is what `verifyChallenge` does before it awaits the signature's check,
`VerifyEnd` what it does after. A restored database has forgotten the challenges used since.

### ReservationStore

Each handler is split where it awaits: `PutNew`/`PutChanged` (up to the read of the
input) and `PutCommit` (the transaction), `ReleaseRead` and `ReleaseCommit`,
`ReconcileRead` and `ReconcileCommit`. The gate is the one the handler resolved when
it started. A record's encrypted bundle is the set of facts its writers put into it:
a client writes what it read and one new fact, so a lost update is visible.
`Acknowledge` may be lost; a client asks its wallet for signatures only after an
acknowledged row says they were started, and an operation in `signed` may execute
at any time. The chain has a finalized and a latest block; `Reorganize` undoes what
is not final, `FinalizedReorganize` undoes everything and is bounded by `MaxForks`.

### RewardQueue

The rows of one request in the tables `reward_requests`, `reward_drafts`,
`reward_attempts` and `reward_reservations` are one record of `rows`; `queue` is the order
of `seq`. Two handlers can be in progress at a time, the alarm and an operator's
cancellation, each with a program counter in `handler`; between two of their awaits
everything else may happen. The alarm goes `AlarmStart`, `AlarmVerify`, and then, with
the first unfinished request, either through dispatch (`DispatchFunds`, `DispatchClaim`,
`DispatchBuild`, `DispatchSave`, `DispatchMark`, `DispatchSign`, `DispatchStore`, `Submit`,
`SaveAttempt`, `Broadcast`: the record is saved before each thing that cannot be undone),
through reconciliation (`EvidenceRead`, `EvidenceJudge`) or through the signed
cancellation (`CancelEnter` to `CancelEnd`), which an operator may also run.
An admission is `AdmitStart`, `AdmitFunds`, `AdmitCommit`, `AdmitSchedule`: it compares
the version of the ledger it started from with the one it commits to, and sets the alarm
after the commit. A request id has one admission in progress at a time; one
that is repeated after the commit is answered from the record and changes nothing.

A coin is one of the distributor's deposits (`Base`, worth `Face`) or is named by the
operation that makes it: a payment makes its change, a cancellation an output worth the input
it consumes. `DispatchSave` reserves all inputs of a draft, one or two, and records the first
of them, which a cancellation consumes. When the cancellation is final, `CancelEnd` marks that
input as consumed and gives the others back (`SettledInput`), and a later request may take
them. `InputsExclusive` has an exception for what follows from that: A is signed over x and y
and cancelled through x, y is given back and B signs with it, and then a reorganisation of
finalized history undoes the cancellation. `Invalidate` makes A and B `unknown`, and two
unsettled signed operations hold y. `docs/integration/uniswap/design.md:209` and `:215` describe
each of these steps (inputs that a cancellation did not use are given back; when it is lost, the
request and later ones become unknown and distribution stops) and do not say that inputs stay
apart then. The pool executes at most one of the two, and the alarm sends neither again.
Without a final cancellation that came undone, no coin is shared; that is the property.

Abstractions: a reward is of at most two units (`RewardAmount`), so that two coins always make
it up if there are funds; merging coins first is `RewardConsolidation`'s, and amounts are far
below the pool's limit `M`. `Selections` prefers one coin to two and the least sum that
suffices, as `selectInputs` does, and leaves open which of several equal ones comes first. The
chain is its finalized part (`executed`) and the operations some node has seen (`sent`); what was
sent may become final at any later time, or never. The verification of final results at
the start of an alarm, `resume` and `received` are single steps: each of them reads the
chain and then writes under a condition that compares everything it read. The
recovery gate (`ensureWritable`) is that of `ReservationStore` and left out here. `Disturb` counts every restart,
failure of the node, lost transaction, refused quote and operator stop towards
`MaxDisturbances`; stops that the code itself raises are not counted, nor is a new deposit
of the distributor, which `MaxCoins` bounds.
The other bounds are `Posts` (who makes which request), `InitialFunds` (how many coins are
there at the start, at least), `Stops` (the reasons an operator may stop for) and
`MaxPosts` (admissions in progress at a time).

### RewardConsolidation

One accepted request with a real amount, whose coins have real amounts: `selectInputs`
(`SelectInputs`, `BestPair`) takes at most two coins, so a request may be covered and not
payable, and dispatch merges the two largest coins by a payment to itself. The handler goes
`StartJob`, `VerifyRounds`, `ReadFunds` and then either `FoundInputs` (where `RewardQueue` goes
on), `ShortOfFunds`, or a round: `ClaimRound`, `BuildRound` (the funds are read once more),
`SaveRound`, `SignRound`, `KeepSignature`, `PrepareRound`, `SaveRaw`, `ObserveRound`,
`SendRound`. A round that was interrupted goes on from its saved phase (`ResumeRound`); one
interrupted before it was saved is left to the operator. Between any two of these the
operator may end the request (`EndRequest`), stop or resume distribution, the object may be
stopped, coins may arrive, and a round may become final or, `MaxEras` times, be undone.

## 3. Runs

| Run | Question | Bounds | Distinct states |
| --- | --- | --- | --- |
| `pool` | Does the pool keep its promises, is it one account per owner? Does a wallet that reads its history see one history? Do the contracts accept what the client proves? | two owners, three operations, `M = 2`, `Q = 9`, claims 0, 1, 2, 3 and 8 (which is -1), donations up to 3; a deposit and two operations that want its output in chains of three blocks with two changes of fork; ranges of 4 bits in a group of order 19, two draws of the prover, two answers per challenge | 0.48 million |
| `connection` | Do payments keep theirs with a hostile router? Does a Pay survive lost answers, a second tab and a change of terms? Is a signature one session? | one owner, three operations, two blocks, one forced wei; two processes with three calls of the client, four block times, the exported Pay sent by another submitter; two accounts, two challenges, two requests | 3.6 million |
| `wallet` | Do the submitter's journal and the owner's store survive concurrent commands, lost answers, crashes and a restore? | two processes, two operations, two attempts, one block, one fee level more; two processes with four commands on two inputs, one crash or restore | 3.7 million |
| `wallet_discard` | Is only a Pay discarded that never reached the service? **Violated**, see section 6 | three commands | |
| `reservations` | Can two browsers both sign for one input? Is anything lost? Also after a restore | two browsers, two records, two payments (deadlines 1 and 2) on one input, three block times, two revisions, one operator stop | 3.8 million |
| `reservations_conflict` | Do records and reservations agree, and does a closed record stay closed? | one browser, one operation of another wallet, one finalized reorganisation | 4.8 million |
| `reservations_stop` | Does a stop for `finalized-reorg` mean that there was one? **Violated**, see section 6 | as before without reorganisation, four block times | |
| `rewards` | Are ended requests never paid, promises covered, and does the alarm never forget the queue? Does merging coins end, and is it quiet when the request ended? | two requests of two units by any two owners, deposits of 1 and 3, one disturbance; one request of 1 to 6 over up to five coins of 1, 2, 2, 1 and 5, two troubles, one undone round | 2.5 million |
| `rewards_reorg` | Do order, exclusive inputs and reservations survive a reorganisation of finalized history? | a request of two units of each of two owners, admitted one after the other, two deposits out of 1, 1 and 3, one reorganisation, one disturbance (`CalmWithChange`) | 2.9 million |
| `rewards_live` | Is the queue always worked off again? | a request of one unit of each of two owners, admitted one after the other, one deposit of 3 at any time, the second request paid from the change of the first or from a cancellation's output, one disturbance, under `FairSpec` | 0.48 million |
| `rewards_lost` | The same if the object may stop between an admission and its alarm. **Violated**, see section 6 | as before | |
| `rewards_gas` | Does a stop for want of gas end? **Violated**, see section 6 | as before, gas may run out | |

Why the bounds suffice to make the cases happen:

- Pool: three operations are a deposit, a spend of its output and a spend of that one's, or a
  deposit and two competing spends; `Q = 9 > 4M` is the relation the code's constants have (a
  sum of two inputs and of two outputs stays below the order), and claims of 0, `M + 1` and
  `Q - 1` are on both sides of the range.
- History: two changes of fork are the least in which the first fork returns, after a page of
  another was read; three blocks hold the deposit, its spend and a rival.
- Proofs: 0, 1, 16 and 17 are at both ends of the range of 4 bits, 11 mixes its digits; two
  rounds of folding are the least in which the order of the rounds matters.
- Wallet: two attempts are a first one and its retry or replacement; four commands by two
  processes let each of them work on what the other changed meanwhile.
- Pay: three calls are an authorization, one that is interrupted and one that recovers; a
  block time on each side of the deadline and one in it.
- Reservations: two payments with different deadlines on one input give a release followed by
  a successor; two revisions let a stale write meet a newer one. The run has one constraint,
  `StopsEarly`: a stop of the operator comes before anything was reconciled and the gate opens
  before block 2. It only thins out behaviours after a stop; `ReservationProofs` shows the same
  properties without it.
- Rewards: two requests and two coins are enough for a request that overtakes another, for a
  coin claimed twice and for a promise the funds do not cover. With two coins of 1, a request
  of two units takes both, a cancellation consumes one of them and gives the other back, and
  the second request takes that one and the cancellation's output; with a coin of 3 and one of 1,
  the second request takes the first one's change. The first of these instances, where inputs
  are released, runs with a disturbance (a restart between mark and store among them) and a
  reorganisation; the second with the reorganisation alone, and with an operator who cancels only
  after it, because everything together is more states than a run of a few minutes holds: this
  is `rewards_reorg`'s constraint `CalmWithChange`. `RewardProofs` shows the three properties for any number of requests, coins,
  disturbances and reorganisations. Four coins need up to two rounds, the second on the output of the first;
  the coin of 5, deposited between the handler's two reads, makes a round of two outputs, and
  the third round that `MaxRounds` allows is never reached before something final is lost.

Symmetry is used for owners, browsers, tabs, processes, records, requests, logins and coins
that no constant tells apart (a request together with its owner where `Posts` ties them);
the liveness runs use none. Two things run with symmetry and are not invariants: the action
properties, which TLC checks on single steps, and `ImplementsAccounts`, whose refinement
mapping treats the owners alike.

`NothingLost` is stated for a database that was never restored: a restore to an earlier point
in time loses what was acknowledged since, which is what it is for, and the records then come
back from the browsers.

Only `Pool` keeps a type invariant that a run checks (`TypeOK`; a swap of two writes breaks
it). In the other modules type correctness is part of the invariant that is proved.

Fairness is assumed only in `FairSpec` of `RewardQueue`; all other properties are
invariants, action properties and a refinement of a specification without fairness.

- `WF(AdmitSchedule)`: a request in progress goes on.
- `WF(AlarmStep)`: the runtime delivers a set alarm and delivers it again when the object
  stopped while it was handled.
- `WF(Cancellation("operator"))`: a call in progress goes on.
- `WF(Resume)` while there is a stop: an operator who is told of a stop looks into it.
  `Resume` is what the code makes of it, and it refuses without funds or gas.
- `SF(Resolve)`: a request whose signature was asked for and not kept is, by design,
  touched by nobody but an operator, who ends it or cancels it. Strong fairness,
  because the operator's other calls disable it for a while, again and again.
- `WF(Finalize)`: of the transactions a node has, some one that can become final does.

With `AdmissionCrash` a restart between the commit of an admission and its alarm is
possible; the liveness run excludes it and `rewards_lost` shows what it does.

Deadlock checking is off because each bounded system may come to its end (all ids used,
time over, everything distributed).

## 4. Proofs

| Theorem | Property | Module of the proof |
| --- | --- | --- |
| `TypeCorrect`, `PoolSolvent`, `OperationsBalance`, `SpentOnce`, `SpentByOwner`, `HiddenAmountsInRange` | `TypeOK`, `Solvency`, `ExactBalance`, `NoDoubleSpend`, `OwnerAuthorizes`, `AmountsInRange` | `PoolProofs` |
| `EventsReplay`, `LiabilityIsSum`, `PoolImplementsAccounts` | `LogReplays`, `Conservation`, `ImplementsAccounts` | `PoolProofs` (with `SumProofs`) |
| `WithdrawalIsPayment`, `PaymentsDelivered` | `WithdrawnIffPaid`, `DeliveredAsAgreed` | `PoolProofs` (with `SumProofs`) |
| `OneLiveOperation`, `TablesAgree`, `ClosedForGood`, `FactsKept` | `OneLiveAuthorization`, `ReservationsAgree`, `ClosedStaysClosed`, `NothingLost` | `ReservationProofs` |
| `OneOperationPerNonce`, `ToldOnlyFinal`, `RetriesKnowAll` | `NonceOneOperation`, `ExecutedIsFinal`, `RetryKnowsAll` | `WalletProofs` |
| `OwnerInvariant`, `InputsStayApart`, `ReportedStaysKept`, `RestoredSees`, `ProgressGrows` | `IOwner`, `InputsApart`, `ReportedIsKept`, `RestoredSeesTheChain`, `ProgressOnlyGrows` | `WalletProofs` |
| `HistoryInvariant`, `SyncIsTrue`, `PreflightIsTrue` | `IHistory`, `SyncTrue`, `PreflightTrue` | `WalletProofs` |
| `SignedOnce` | `OneSessionPerSignature` | `ClientProofs` |
| `ProvedExactlyWhatIsTrue` | `ProvedIffTrue` | `AmountCompleteness` (with `SumProofs`) |
| `EndedForGood`, `FewRoundsEnough` | `EndedIsQuiet`, `FewRounds` | `ConsolidationProofs` (with `SumProofs`) |
| `ClientInvariant`, `ClientSignsAfterStarted`, `ClientRevisionCarriesSignatures`, `ClientOneHolder`, `ClientSentIsRecorded`, `ClientOneUnresolved`, `ClientSuccessorOnlyWhenDead` | `IClient`, `SignedAfterStarted`, `RevisionCarriesSignatures`, `OneHolder`, `SentIsRecorded`, `OneUnresolved`, `SuccessorOnlyWhenDead` | `ClientProofs` |
| `RewardInvariant`, `RewardInputsExclusive`, `RewardReservationsMatch`, `RewardEndedNeverPaid`, `RewardInOrder`, `RewardWorkScheduled`, `RewardBacked` | `IReward`, `InputsExclusive`, `ReservationsMatch`, `EndedNeverPaid`, `InOrder`, `WorkScheduled`, `Backed` | `RewardProofs` (with `SumProofs`) |

`AmountsInRange` is checked by no run of its own: it is what `ExactBalance` rests on.

All hold for every value of the constants that satisfies the assumption named in the module
(`AmountAssumption`, `BoundAssumption`, `AddressAssumption` and `NoneAssumption` of `Pool`;
`AdapterAssumption`, `NoPaymentAssumption` of `PaymentAdapter`; `OwnerAssumption`,
`NoRecordAssumption` of `OwnerStore`; `HistoryAssumption`, `StoreAssumption`,
`SubmissionAssumption`, `AuthAssumption`, `ConsolidationAssumption`, `ClientAssumption`, `NoRowAssumption`,
`RewardAssumption`, `FiniteAssumption`, `ProofAssumption` of `AmountProofs`): types, values of
"none" that are nothing else, for `Pool` that `Q > 4M`, for the proofs about amounts that the order
is a prime above every amount in range, the width a power of two and no challenge 0, and for
`Backed` that there are finitely many request ids and coins, so that they can be counted. Each rests on an inductive invariant, shown to hold at the start, to be kept
by every action and to imply the property.

**Pool** (`LedgerInv`). A revert brings back an earlier storage, so whatever is to hold
after it must have held in that storage; the conjuncts are stated for the current storage and
for the one kept in every call frame. `Ledger`: liability does not exceed the balance.
`InRange`: recorded amounts lie in `1..M`, which makes the balance equation exact: both
sides are at most `2M + 2M`, below `Q`, so equality modulo `Q` is equality (lemma
`SmallMultiple`). `Honoured`: an executed operation's inputs are spent UTXOs of its signer, its
balance is exact, and every spent UTXO has an operation; two operations with a common input
are excluded because an input must be unspent when it is consumed. `DistinctInputs`: an
operation names an input once.

Two more invariants are about the CALL. `OrderInv`: outside a CALL the log lists what was
executed, each operation after those that created its inputs (`Replayed`); inside one, this holds
of the storage a revert restores, and the current storage is one operation ahead of it
(`OneMore`). At most one CALL is in progress, because of the guard `enter`; without it the
order of two logged operations could differ from that of their effects. `HoldInv`: the liability
is what all owners hold (`Holds`, a sum over the unspent UTXOs that counts those of given
owners), and inside a CALL one owner has been debited (`Debited`). `LiabilityIsSum` is the case
of all owners. For the account ledger, `DepositStep`, `TransferStep` and `WithdrawStep` say what
`_commit` does to each owner's holdings (`Credited`, `Paid`, `Debited`), and the refinement
mapping stays at the storage before the CALL, so that the return of the CALL is the
withdrawal and its revert a stutter. A transfer whose outputs all return to the sender, and a
transfer's change, cancel out in the same way.

The sums are those of `MapThenSumSet`, a recursion over sets that chooses one element after
the other. `SumProofs` shows what one element more or less does to them. The induction theorems
of the library take the property as an operator, which the provers cannot instantiate; a
smallest set on which two recursions differ is refuted instead (`FoldsAgree`,
`FoldsExist`), so nothing is assumed.

**Payment adapter** (`AdapterInv`). The actions of the pool happen inside `pay()` and `PayRevert`
undoes any number of them at once, which no step of `Pool` does: that the pool's types and the order
of its events (`TypeOK`, `OrderInv`) hold is therefore proved again, for the steps of
the adapter, from what is known of the storage a revert goes back to (`Startable`). The books are
kept for `Standing`, the operations that are executed whatever becomes of the CALL in progress:
each payment names a withdrawal of its own there (`PaidFor`), and each withdrawal to the
adapter has a payment, except the one of the `pay()` on the stack (`Accounted`). What the pool does
without the adapter adds no withdrawal to it (`Extends`), although it may call other
destinations inside the router; a direct withdrawal to the adapter is refused, because outside
`pay()` the flag is not set, and inside the router `ethReceived` already is (`Swapping`). The ETH of
the adapter is what was forced into it, and in between also what the pool has paid
(`Withdrawing`). `Delivered` sums up the payments to each recipient.

**Reservations** (`IStore`). The handlers write what they judged from an earlier read, so the
invariant says what of a read stays true. `Held`: a reservation belongs to an open record of
its input, and a request in progress is about a record that exists. `Sound`: as long as
finalized history stands, a record whose operation may still execute holds its input,
and what a release or a reconciliation has read of the chain (this operation can no longer
execute) remains true, because finalized time and finalized operations only grow. `Recorded`:
whatever was signed is in the records, except while a restored old database is empty, and then
no handler can write. `Fresh`: what a browser saw of a record is a state it had, so a
write that passes the check of the revision contains every fact up to it. `OneLiveAuthorization`
follows because two live operations on one input would have to hold the same reservation.

**Submission** (`ISubmission`). `Journaled`: rows with one nonce have one operation, and every
transaction is the one its row announced. `Holds`: between two steps a process has its row in
the journal, with the operation and nonce it is about to send, and has seen executed only what
is in the finalized chain, which is never undone.

**Owner's store** (`IOwner`). A command saves what it made of an earlier read, so the invariant
says what of that read still holds. `Progress`: the entry of a Pay is as it was read as long as the
revision is, because every save of an entry raises it; with the comparison in `Current` this is
`ProgressOnlyGrows`. The first save of an entry compares nothing: that it overwrites nothing rests
on the operation's id, drawn by this command alone.
`Alone` says so: until its first save the operation is nowhere in the store, and a command of
another process that names it has got no further than asking for it (`Asking`). `SavedOf`: while the
lock is held, what the command is about to report is in the file. A loss of power brings `durable`
back, so whatever is to hold of the file is stated for both (`Good`); for what was reported this
is why the report comes after the directory is synchronized. A restored store is not `Usable`, and
no choice is made from it, before a synchronization that was begun after the restore: `SeesSpent`
follows the coins from there through `look` and `saveSync`, and `Creatable` compares them again.

**History** (`IHistory`). A synchronization reads its pages one by one while the node moves
between forks, and looks at its own block before and after. `Standing` says what the pages
are worth in between: the block is canonical and every operation of its history up to the
page reached is in the logs (`Covered`), or the block was replaced and is in `dead`, or a
replaced block has returned. A block of the chain is never in `dead`, so finding the block
canonical after the last page means that it was so throughout, and the listing is the block's
whole history (`ListingWhole`). What is then compared with the pinned state makes the coins
found a part of that block's coins in every case, also if a fork returned (`ListingFits`). The
order of the replayed logs, and the header of each log, are not needed for this. A preflight asks
everything of the block it names (`Asked`), and its verdict follows from that alone.

**Sign-in** (`IAuth`). Both the database and the point in time it may be restored to are
consistent (a session has a challenge of its own that was signed by its owner and answered
within its term), a waiting request's challenge can change only by being used, and an
identifier in a database was drawn, so that a later draw is fresh.

**Amounts** (`ProofInv`). The prover and the verifier compute the same thing in two ways, and
the invariant says, stage by stage, that the prover's memory is one from which the verifier will
compute the same. Scalars are compared modulo the order (`Same`); that it is a prime gives
inverses (`Inverses`: the least positive multiple of a scalar divides the order) and
`NoZeroDivisors`. Before the polynomial step the transcript holds the commitments and
challenges made so far (`AtPolynomial`), after it the two equations of the verifier hold for what was
computed (`AtInner`: `PolynomialComputed`, `InnerComputed`, which rest on the digits of an
amount adding up to it and on the powers of two adding up to `MaxAmount - 1`). After `r` rounds of folding
(`AtFold`, `Folded`) the folded vectors commit to the point that the verifier makes of the
published ones, and every generator is in one known element of the folded generators (`Place`),
scaled by the product of its challenges and their inverses, chosen by the first `r` digits of its
index (`ScaleOfG`, `ScaleOfH`). A round keeps that (`FoldReaches`). When one element
is left, the scale of each generator is the weight the contract computes in its own order of the
rounds, from one inverse of a product, and the equation that the prover kept is the one
the contract checks (`VerifyReaches`). What the client refuses was false: an amount outside
the range, or a surplus that is not 0 modulo the order (`BalanceReaches`; `BalanceHolds` is the
other case). Sums and products over sequences of any length are compared element by element
(`UpTo` finds a least counterexample), so no induction theorem is needed.

**Consolidation** (`IFunds`). Only the latest round is in progress; a signature is kept only in
a phase that says so; the handler's program counter knows the phase of its round; a request
that has ended has rounds that are either not yet saved or finalized. Which coins a round
merges does not matter, so the drafts stay opaque.

`FewRoundsEnough` is about what they leave (`IRounds`). If selection finds no input although the
total suffices, there are three coins at least, and none is as large as `Limit` (`ThreeCoins`);
of two coins or more, a draft merges two (`DraftMerges`) into one, or into one of `Limit` and the
rest. So the unspent coins are those deposited less the final rounds (`Counted`), except after a
round of two outputs: that one leaves a coin with which any request can be paid (`Abundant`), and
no further round is begun. The handler reads the funds for the decision and again for the draft,
while coins may arrive and a round may become final; `Read` says what each read still means, and
`Known` that a round's outputs are new.

**Payment client** (`IClient`). Several runs of the client share one record at the service, and
none of them can be told apart by what they send, except by the nonce of each write. `RowSound`:
the record has the shape its revision says (`Shaped`), whoever wrote it. `RequestsSound`: a write
on its way holds what its run had, so that a late arrival changes nothing a later run relies on.
`TabsSound`: a run that may go on has a saved row that it wrote itself or read (`Placed`, `Kept`),
it never counts an attempt it has not written (`Counted`), and two runs do not hold one written
revision (`Apart`). `ChainSound`: finalized blocks only grow, so a failure or a spent input that
a run has read stays true until it acts on it. The properties follow: `SignedAfterStarted` and
`ProgressSigned` from the shape and the run's row; `AttemptsRecorded` gives `SentIsRecorded`;
and `DeadSuccessor`, that the first authorization is dead in every continuation of the chain,
gives `SuccessorOnlyWhenDead`.

**Rewards** (`IReward`). Two handlers and any number of admissions write what they judged several
awaits before, so the invariant says what each has read and what of that still holds
(`HandlerSound`, one conjunct for each group of values of `pc`). `ChainSound`: what is final was
sent, and no two final operations have an input in common. `QueueSound`:
the queue holds each accepted request once. `Held`: a request that may have a signature owns the
rows of all its inputs, but for those a final cancellation gave back (`Kept`); a row names one
holder, so an input that two such requests share was given back by the cancellation of one of
them. While finalized history stands that request is ended (`Confirmed` of `IBacked`), so
there was a reorganisation: this is `InputsExclusive` with its exception (`SharedInput`). `Consistent`: a reservation is released exactly while its request is settled; a
cancellation exists only after a signature was asked for; an operation is sent only after it is
recorded; and a request that ended was never sent, or its cancellation is final, which with
`ChainSound` is `EndedNeverPaid`. `RewardInOrder` needs that whatever the dispatching alarm has
passed over is settled and stays so (`Behind`), because only a finalized reorganisation
unsettles a request, and that stops distribution in the same transaction. `RewardWorkScheduled`
has the hypothesis `~AdmissionCrash`: with it false the run `rewards_lost` violates the property.
Its invariant (`Awake`) adds that an alarm that came past verification will set the alarm again.

`RewardBacked` adds up amounts (`IBacked`). An admission makes a promise according to a total it read
before its transaction and is turned back only if the ledger's version has changed since; in the
meantime coins are paid out, funded, changed and returned by cancellations. `Book` says, as long as
finalized history stands: a recorded result is that of the chain (`Confirmed`), and so is what
a handler has found and not yet written (`FoundSound`), so that a promise once given back is not
taken again; and the total an admission has read is, together with the promises not yet paid,
at most what the coins there are are worth and all recorded promises (`Covered`), if the version
is still the one the admission started from; and a draft accounts for all its inputs are worth,
a cancellation for all of its input (`Balanced`). So a payment that becomes final turns its
inputs into change worth the reward less (`FinalizeFacts`), fulfils a promise of that amount, and
keeps the account (`AccountMoves`). The version is a sum over the requests (`SumOver`) whose summands only grow, so an equal
sum means that no request changed. Of an admission with an old version nothing is claimed: it
will be turned back.

Every part of `IClient`, `IOwner`, `IHistory`, `IReward`, `IBacked` and `IRounds` was first checked by TLC, as an
invariant on the instance of a run (`IReward` and `IBacked` on that of `rewards_reorg`, without
the disturbance and the constraint).

Only model-checked: `Settled` and `GasStopEnds`, liveness under fairness, which is out of the
prover's reach. Every invariant, action property and refinement that a passing run checks is
a theorem.

## 5. Plan

Left to do, in this order:

1. Liveness of `RewardConsolidation` under the fairness of `RewardQueue`: a request whose funds
   are covered is paid, ended or waits for an operator.
2. `InputSelection` (`packages/core/src/selection.ts` with explicit and uncertain inputs,
   `packages/uniswap/src/selection.ts`) against a reference definition.
3. The full withdrawal and the freshness of quotes in `PaymentClient`; the reward commands of
   the CLI.

## 6. Findings

`reservations_stop`: `reconcileOperation` (`apps/uniswap-service/src/reconcile.ts:43-60`)
stops the environment with reason `finalized-reorg` whenever a closed record is classified
differently from before. A released payment's input may be spent by its successor; once
that is final, the released record classifies as `consumed`, and reconciling it again stops
the service, although finalized history did not change. At this commit
`reconcileOperation` is called only from tests, so the case needs a caller that
reconciles closed records.

`rewards_lost`: `POST /v1/rewards` commits the request (`rewards/store.ts:110`) and then
awaits the setting of the alarm (`rewards/routes.ts:93`). If the object stops in between,
the request is accepted and nothing will wake up to distribute it; repeating the request is
answered from the record (`rewards/routes.ts:44`) and sets no alarm either. It waits for
another request or an operator.

`rewards_gas`: the balance can be confirmed only against a saved attempt or a signed draft
(`durable-object.ts:100-132`). If the first distribution ever ran out of gas before its
attempt was saved, and an operator cancelled it, there is neither, and the stop
`gas-short` can never be lifted.

`wallet_discard`: `pay prepare --replace-id` asks the service once whether the Pay is reserved
(`packages/cli/src/payment-owner.ts:220`) and then deletes the Pay's entry from what it reads at
that time (`221-228`), without comparing it with what it read before (`212-218`). Another
process of the owner may reserve and sign the Pay in between. The comment at
`payment-owner.ts:209` says that only a draft is released that never reached the service, and
so does `docs/guides/development.md:388`.

Observations that no run states as a finding, first of the rewards. The cancellation's preflight reads the
latest block; finding the coin contested there, it stops distribution with
`operator-stopped` until an operator resumes, also if that transaction later disappears.
And a request that a reorganisation made `unknown` has inputs in status `unknown`, which
`broadcastRewardAttempt` does not accept, so its attempt is never sent again: either it
becomes final once more by itself, or an operator cancels it.

Consolidation: after a finalized reorganisation that undid a round, its row stays
`finalized` with the old block hash (`rewards/queue.ts:72-91`, `143-165`), so every later alarm
refutes it again and distribution stops again after every resumption, also when the
round is final in another block by then; such a reorganisation between verification and the
reading of funds lets another round be claimed while the first one's transaction is alive.
A request with a signed round can neither be ended (`rewards/operator.ts:31-35`) nor
cancelled (`operator.ts:81` needs the distribution's draft). A round interrupted while it is
built waits for an operator, as `docs/integration/uniswap/design.md:219` says. And when gas is
short for the first round ever, there is neither an attempt nor a request in progress to
compare with, so the stop of `rewards_gas` stays without any cancellation.

The wallet and the Pay, where code and documents differ in a way that only refuses or waits:

- A Pay is not resumed while an attempt by another submitter is pending
  (`packages/cli/src/payment-owner.ts:359`), which
  `docs/integration/uniswap/specification.md:256` does not ask for.
- An expired Pay with an unresolved attempt cannot change its terms
  (`packages/uniswap/src/recovery.ts:44-49`, `payment-owner.ts:344-355`);
  `docs/guides/uniswap-cli.md:134` and `specification.md:262` ask only for expiry, no success
  and an unspent input.
- A retry goes ahead after a failure that is in a block but not final
  (`packages/cli/src/submitter.ts:124-126`); around `docs/specification.md:393` only a final
  result counts.
- Of two synchronisations at the same time the slower one may write an older complete view
  over a newer one (`packages/cli/src/owner.ts:112-117`); the condition that
  `docs/design.md:740` asks to be checked again under the lock is context and keys only.
- The local phase of a Pay stays `proved` when its signatures are taken, so `abandon`
  (`owner.ts:181-188`) accepts it; `docs/guides/development.md:291` says that what is
  signed cannot be abandoned.

## 7. Not modelled

- The curve's arithmetic and precompiles, hashes, key derivation and the encryption of
  openings: replaced by the statements they establish, see `AmountProofs` and `Pool`.
- Encodings of requests, records and hashes (injective names); HTTP parsing and routing;
  generated ABI; the shapes that `packages/uniswap/src/api.ts` validates.
- `scripts/*.mjs`: deployment, evidence and benchmark scripts that an operator runs once and
  that do input and output only. `experiments/`: bundles and probes that nothing in the
  program uses, more than a third of all lines.
- The demo token, a plain ERC-20; the web application, a mock of its interface at this
  commit; the test doubles.
- Argument parsing and rendering of the CLI, and its reward commands, which call the
  service of `RewardQueue` and store what it answers.
- Gas, except as the possibility of a revert or a refusal.

Most of the lines that no module maps are in these.

## Running

    tlc -workers 2 -config MCPool.cfg MCPool
    tlc -workers 2 -config MCConnection.cfg MCConnection
    tlc -workers 2 -config MCWallet.cfg MCWallet
    tlc -workers 2 -config MCReservationStore.cfg MCReservationStore
    tlc -workers 2 -config MCRewardFunds.cfg MCRewardFunds
    tlapm PoolProofs.tla

and so on: `PROJECT.json` pairs every configuration with its module; the proofs are in
`PoolProofs`, `ReservationProofs`, `WalletProofs`, `ClientProofs`, `RewardProofs`,
`ConsolidationProofs` and `AmountCompleteness`, their lemmas about sums in `SumProofs`.
