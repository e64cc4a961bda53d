------------------------------ MODULE Submission ------------------------------
(***************************************************************************)
(* packages/cli/src/submitter.ts and journal.ts over                        *)
(* packages/ethereum/src/submission.ts and observation.ts: a submitter's    *)
(* processes send public operations from one account, with one journal,     *)
(* inspect what became of them, retry and raise fees.                       *)
(*                                                                          *)
(* A block that matters holds one transaction; the account's nonce is the   *)
(* number of its transactions on the chain.  All operations spend the same  *)
(* input.  Gas, chain and balance checks that only refuse are left out.     *)
(***************************************************************************)
EXTENDS Integers, Sequences, FiniteSets, FiniteSetsExt

CONSTANTS
    Process,
    Operation,    \* operations the submitter was given
    MaxRows,      \* bound: attempts
    MaxMined,     \* bound: blocks
    MaxFee,       \* bound: fee levels, a replacement is one level higher
    NoAttempt

ASSUME SubmissionAssumption == {MaxRows, MaxMined, MaxFee} \subseteq Nat /\ NoAttempt \notin Nat

VARIABLES
    rows,       \* the journal, in order: [op, nonce, fee, state, hash]
    network,    \* transactions that reached the network: [op, nonce, fee, row]
    mined,      \* the canonical chain: [op, row, ok]
    finalized,  \* its finalized length
    process,    \* Process -> the call it runs
    told        \* operations that inspect has called executed

varsSubmission == <<rows, network, mined, finalized, process, told>>

Resting == [pc |-> "idle", call |-> "none", op |-> NoAttempt, base |-> NoAttempt,
            intent |-> NoAttempt, row |-> NoAttempt, seen |-> <<>>, preflight |-> "none",
            outer |-> <<>>, executed |-> FALSE]

InitSubmission ==
    /\ rows = <<>> /\ network = {} /\ mined = <<>> /\ finalized = 0 /\ told = {}
    /\ process = [p \in Process |-> Resting]

-----------------------------------------------------------------------------
(* The chain.  Row 0 is the same operation from another submitter, or, with  *)
(* op NoAttempt, somebody else's operation on the input.                     *)

Nonce == Cardinality({n \in DOMAIN mined : mined[n].row # 0})
SpentIn(chain) == \E n \in DOMAIN chain : chain[n].ok
ExecutedIn(chain, op) == \E n \in DOMAIN chain : chain[n].ok /\ chain[n].op = op
FinalChain == SubSeq(mined, 1, finalized)

MineTx ==
    /\ Len(mined) < MaxMined
    /\ \E t \in network, ok \in BOOLEAN :
          /\ t.nonce = Nonce /\ (ok => ~SpentIn(mined))
          /\ mined' = Append(mined, [op |-> t.op, row |-> t.row, ok |-> ok])
    /\ UNCHANGED <<rows, network, finalized, process, told>>

MineForeign ==
    /\ Len(mined) < MaxMined /\ ~SpentIn(mined)
    /\ \E op \in Operation \cup {NoAttempt} :
          mined' = Append(mined, [op |-> op, row |-> 0, ok |-> TRUE])
    /\ UNCHANGED <<rows, network, finalized, process, told>>

FinalizeMined ==
    /\ finalized < Len(mined) /\ finalized' = Len(mined)
    /\ UNCHANGED <<rows, network, mined, process, told>>

Unmine ==
    /\ finalized < Len(mined) /\ mined' = FinalChain
    /\ UNCHANGED <<rows, network, finalized, process, told>>

-----------------------------------------------------------------------------
(* submitPublicOperation and replaceSubmissionFee.                           *)

Preflight(op) == IF ExecutedIn(mined, op) THEN "executed"
                 ELSE IF SpentIn(mined) THEN "conflict" ELSE "ready"

\* "pending" counts what this node still knows of the account's transactions.
PendingNonces ==
    {n \in Nonce..(Nonce + MaxRows) : \A k \in Nonce..(n - 1) : \E t \in network : t.nonce = k}

\* `submit`: ready, then the quote.
Submit(p) ==
    /\ process[p].pc = "idle" /\ Len(rows) < MaxRows
    /\ \E op \in Operation :
          /\ Preflight(op) = "ready"
          /\ process' = [process EXCEPT ![p] = [Resting EXCEPT !.pc = "quote", !.call = "submit", !.op = op]]
    /\ UNCHANGED <<rows, network, mined, finalized, told>>

\* A replacement keeps the nonce and the calldata and raises the fee.
Quote(p) ==
    /\ process[p].pc = "quote"
    /\ \E intent \in
          IF process[p].call = "replace"
          THEN {[op |-> process[p].op, nonce |-> rows[process[p].base].nonce,
                 fee |-> rows[process[p].base].fee + 1]}
          ELSE [op : {process[p].op}, nonce : PendingNonces, fee : {1}] :
          process' = [process EXCEPT ![p].pc = "persist", ![p].intent = intent]
    /\ UNCHANGED <<rows, network, mined, finalized, told>>

\* A variant: a nonce may be journaled for any operation.
NonceFreeForAll(intent) == TRUE

\* appendPrepared: a nonce belongs to the first operation journaled with it.
NonceFree(intent) == \A a \in DOMAIN rows : rows[a].nonce = intent.nonce => rows[a].op = intent.op

Prepared(intent) == [op |-> intent.op, nonce |-> intent.nonce, fee |-> intent.fee,
                     state |-> "prepared", hash |-> FALSE]

\* appendPrepared, under the writer lock.
Persist(p) ==
    /\ process[p].pc = "persist" /\ Len(rows) < MaxRows
    /\ NonceFree(process[p].intent)
    /\ rows' = Append(rows, Prepared(process[p].intent))
    /\ process' = [process EXCEPT ![p].pc = "send", ![p].row = Len(rows')]
    /\ UNCHANGED <<network, mined, finalized, told>>

\* The transaction may arrive without its answer, or not at all.
SendTx(p) ==
    /\ process[p].pc = "send"
    /\ \/ /\ network' = network \cup {[op |-> process[p].intent.op, nonce |-> process[p].intent.nonce,
                                     fee |-> process[p].intent.fee, row |-> process[p].row]}
          /\ \E pc \in {"sent", "unsure"} : process' = [process EXCEPT ![p].pc = pc]
       \/ process' = [process EXCEPT ![p].pc = "unsure"] /\ UNCHANGED network
    /\ UNCHANGED <<rows, mined, finalized, told>>

\* recordSendResult.
Record(p) ==
    /\ process[p].pc \in {"sent", "unsure"}
    /\ LET heard == process[p].pc = "sent"
       IN rows' = [rows EXCEPT ![process[p].row].state = IF heard THEN "pending" ELSE "unknown",
                               ![process[p].row].hash = heard]
    /\ process' = [process EXCEPT ![p] = Resting]
    /\ UNCHANGED <<network, mined, finalized, told>>

\* A refusal, a storage error or a crash: what is written stays written.
\* (The operator removes the writer lock a crash leaves behind.)
Break(p) ==
    /\ process[p].pc # "idle"
    /\ process' = [process EXCEPT ![p] = Resting]
    /\ UNCHANGED <<rows, network, mined, finalized, told>>

-----------------------------------------------------------------------------
(* inspect, and what retry and replaceFee do with it.                        *)

RowsOf(op) == {a \in DOMAIN rows : rows[a].op = op}
Hashed(attempts) == {a \in DOMAIN attempts : attempts[a].hash}

\* The journal is listed and preflight run; the attempts are observed after.
\* (`operation` alone is a retry that ends at the verdict.)
Inspect(p) ==
    /\ process[p].pc = "idle"
    /\ \E op \in Operation, call \in {"retry", "replace"} :
          /\ RowsOf(op) # {}
          /\ LET last == Max(RowsOf(op))
             IN /\ call = "replace" => rows[last].state = "pending" /\ rows[last].fee < MaxFee
                /\ process' = [process EXCEPT ![p] =
                      [Resting EXCEPT !.pc = "observe", !.call = call, !.op = op, !.base = last,
                          !.preflight = Preflight(op),
                          !.seen = [a \in RowsOf(op) |-> rows[a]]]]
    /\ UNCHANGED <<rows, network, mined, finalized, told>>

\* A variant: the operation is looked up at the latest block.
ExecutedAtTip(op) == ExecutedIn(mined, op)

ExecutedFinally(op) == ExecutedIn(FinalChain, op)

\* observeAttempt: the receipt in a canonical block, then the operation at the
\* finalized checkpoint, apart from one another.  A receipt whose block is
\* gone, and a failed read, are unconfirmed.
Observe(p) ==
    /\ process[p].pc = "observe"
    /\ \E a \in Hashed(process[p].seen) \ DOMAIN process[p].outer :
          LET at == {n \in DOMAIN mined : mined[n].row = a}
              receipt == IF at = {} THEN "pending"
                         ELSE IF \E n \in at : mined[n].ok THEN "success" ELSE "failed"
          IN \E result \in {receipt, "unconfirmed"} :
                process' = [process EXCEPT ![p].outer = [b \in DOMAIN @ \cup {a} |->
                               IF b = a THEN result ELSE @[b]],
                            ![p].executed = @ \/ ExecutedFinally(process[p].op)]
    /\ UNCHANGED <<rows, network, mined, finalized, told>>

\* A variant: attempts whose answer was lost do not count.
UnknownIfObserved(c) ==
    \/ c.preflight = "executed"
    \/ \E a \in DOMAIN c.outer : c.outer[a] = "unconfirmed"

Unknown(c) ==
    \/ c.preflight = "executed"
    \/ \E a \in DOMAIN c.seen : ~c.seen[a].hash \/ c.seen[a].state = "unknown"
    \/ \E a \in DOMAIN c.outer : c.outer[a] = "unconfirmed"

Status(c) ==
    IF c.executed \/ ExecutedFinally(c.op) THEN "executed"
    ELSE IF c.preflight = "conflict" THEN "competing"
    ELSE IF Unknown(c) THEN "unknown"
    ELSE IF \E a \in DOMAIN c.outer : c.outer[a] = "pending" THEN "pending"
    ELSE IF DOMAIN c.outer # {} /\ \A a \in DOMAIN c.outer : c.outer[a] = "failed"
         THEN "failed" ELSE "unknown"

\* retry goes on from "failed", if the newest attempt now has a hash, and
\* replaceFee from "pending"; both through preflight again.
Goes(c) ==
    /\ \/ c.call = "retry" /\ Status(c) = "failed" /\ rows[Max(RowsOf(c.op))].hash
       \/ c.call = "replace" /\ Status(c) = "pending"
    /\ Preflight(c.op) = "ready"

GiveVerdict(p) ==
    /\ process[p].pc = "observe" /\ DOMAIN process[p].outer = Hashed(process[p].seen)
    /\ LET c == process[p]
       IN /\ told' = IF Status(c) = "executed" THEN told \cup {c.op} ELSE told
          /\ process' = [process EXCEPT ![p] =
                IF Goes(c) THEN [Resting EXCEPT !.pc = "quote", !.call = c.call, !.op = c.op,
                                                !.base = c.base]
                ELSE Resting]
    /\ UNCHANGED <<rows, network, mined, finalized>>

-----------------------------------------------------------------------------
ProcessStep(p) ==
    \/ Submit(p) \/ Quote(p) \/ Persist(p) \/ SendTx(p) \/ Record(p) \/ Break(p)
    \/ Inspect(p) \/ Observe(p) \/ GiveVerdict(p)

NextSubmission ==
    \/ MineTx \/ MineForeign \/ FinalizeMined \/ Unmine
    \/ \E p \in Process : ProcessStep(p)

SpecSubmission == InitSubmission /\ [][NextSubmission]_varsSubmission
-----------------------------------------------------------------------------
\* A transaction can only be displaced by one of its own operation, although
\* the node may forget a pending transaction and quote its nonce again.
NonceOneOperation == \A t, u \in network : t.nonce = u.nonce => t.op = u.op

\* "executed" is told only of an operation that has executed for good, however
\* the reads of receipts, checkpoint and history were interleaved with blocks.
ExecutedIsFinal == \A op \in told : ExecutedIn(FinalChain, op)

Retries(p) ==
    process[p].pc = "observe" /\ process'[p].pc = "quote" /\ process[p].call = "retry"

\* An attempt is repeated only when no transaction of the operation that was
\* journaled when the retry began can still be unknown or on its way: each was
\* seen failed in a block, and no lost answer hides one.
RetryKnowsAll ==
    [][\A p \in Process : Retries(p) =>
          \A t \in network : t.row \in DOMAIN process[p].seen =>
             t.row \in DOMAIN process[p].outer /\ process[p].outer[t.row] = "failed"]_varsSubmission
==============================================================================
