------------------------- MODULE RewardConsolidation -------------------------
(***************************************************************************)
(* apps/uniswap-service/src/rewards/consolidation.ts: an operation of the   *)
(* pool takes at most two inputs, so a reward may be covered by the         *)
(* distributor's coins and still not be payable.  dispatch (production.ts)  *)
(* then merges the two largest coins by a payment to itself, in rounds,     *)
(* until selectInputs (packages/core/src/selection.ts) finds inputs.        *)
(*                                                                          *)
(* One accepted request and the coins it may have to merge; when its inputs *)
(* are found, RewardQueue goes on.  The alarm's handler is split            *)
(* where it awaits; draft-saved and signature-started are written without   *)
(* an await between them, so the former is never seen.  A coin is a number, *)
(* its place in the order of ids.                                           *)
(***************************************************************************)
EXTENDS Integers, Sequences, FiniteSets, FiniteSetsExt

CONSTANTS
    Piece,       \* the coins the distributor may deposit: 1..n
    Value,       \* their amounts
    Limit,       \* the largest amount of a coin: M of the pool
    Needs,       \* the amounts a request may have
    EarlierAttempt, \* whether a distribution was ever sent before
    MaxRounds,   \* bound: consolidations of the request
    MaxTroubles, \* bound: restarts, failures, lost messages, stops, new funds
    MaxEras,     \* bound: reorganisations of finalized history
    Never

ASSUME ConsolidationAssumption ==
    /\ MaxRounds \in Nat /\ MaxTroubles \in Nat /\ MaxEras \in Nat
    /\ EarlierAttempt \in BOOLEAN
    /\ Limit \in Nat /\ Needs \subseteq 1..Limit
    /\ IsFiniteSet(Piece) /\ Piece = 1..Cardinality(Piece)
    /\ \A c \in Piece : Value[c] \in 1..Limit
    /\ Never \notin Nat

VARIABLES
    request,    \* status of the request, "selected" when its inputs were found
    need,       \* its amount
    rounds,     \* reward_consolidations: the rows of the request by round
    halts,      \* reward_stop_flags and reward_transient_stop
    wake,       \* whether the object's alarm is set
    job,        \* the alarm's handler in progress
    supply,     \* the coins of Piece in the pool
    relayed,    \* rounds whose transaction some node has received
    settled,    \* round -> the history (its era) its operation is final in, or Never
    era,        \* reorganisations of finalized history so far
    troubles    \* counts towards MaxTroubles

poolState == <<supply, relayed, settled, era>>
varsFunds == <<request, need, rounds, halts, wake, job, poolState, troubles>>

AtRest == [pc |-> "rest"]

InitFunds ==
    /\ request = "accepted"
    /\ need \in Needs
    /\ rounds = <<>>
    /\ halts = {}
    /\ wake = TRUE
    /\ job = AtRest
    /\ supply \in SUBSET Piece
    /\ relayed = {}
    /\ settled = [k \in 1..MaxRounds |-> Never]
    /\ era = 0
    /\ troubles = 0

Trouble == troubles < MaxTroubles /\ troubles' = troubles + 1

-----------------------------------------------------------------------------
(* The pool's history, reduced to the distributor's coins.                   *)

\* The first and the second output of a round are coins of their own.
Output(k, i) == Cardinality(Piece) + 2 * (k - 1) + i
OutputsOf(k) == {Output(k, i) : i \in DOMAIN rounds[k].outputs}

Amount(c) ==
    IF c \in Piece THEN Value[c]
    ELSE LET n == c - Cardinality(Piece) - 1 IN rounds[(n \div 2) + 1].outputs[(n % 2) + 1]

Total(coins) == MapThenSumSet(Amount, coins)

IsFinal(k) == settled[k] # Never
Taken == UNION {rounds[k].inputs : k \in {j \in DOMAIN rounds : IsFinal(j)}}
Unspent == (supply \cup UNION {OutputsOf(k) : k \in {j \in DOMAIN rounds : IsFinal(j)}}) \ Taken

DepositPiece(c) ==
    /\ c \notin supply
    /\ Trouble
    /\ supply' = supply \cup {c}
    /\ UNCHANGED <<request, need, rounds, halts, wake, job, relayed, settled, era>>

SettleRound(k) ==
    /\ k \in relayed /\ ~IsFinal(k)
    /\ rounds[k].inputs \subseteq Unspent
    /\ settled' = [settled EXCEPT ![k] = era]
    /\ UNCHANGED <<request, need, rounds, halts, wake, job, supply, relayed, era, troubles>>

\* Blocks that were final are lost, and with a round those that spend its outputs.
UndoRounds(lost) ==
    /\ era < MaxEras
    /\ lost # {} /\ \A k \in lost : IsFinal(k)
    /\ \A j, k \in DOMAIN rounds :
          k \in lost /\ IsFinal(j) /\ rounds[j].inputs \cap OutputsOf(k) # {} => j \in lost
    /\ settled' = [k \in DOMAIN settled |-> IF k \in lost THEN Never ELSE settled[k]]
    /\ era' = era + 1
    /\ UNCHANGED <<request, need, rounds, halts, wake, job, supply, relayed, troubles>>

-----------------------------------------------------------------------------
(* selection.ts and buildConsolidationDraft.                                 *)

Change(coins) == Total(coins) - need
Feasible(coins) == 0 <= Change(coins) /\ Change(coins) <= Limit

\* The loops of bestPair: the first pair, in the order of ids, with the least change.
BestPair(coins) ==
    LET pairs == {p \in coins \X coins : p[1] < p[2] /\ Feasible({p[1], p[2]})}
        Excess(p) == Change({p[1], p[2]})
        Before(p, q) == \/ Excess(p) < Excess(q)
                        \/ Excess(p) = Excess(q) /\ (p[1] < q[1] \/ (p[1] = q[1] /\ p[2] <= q[2]))
        best == CHOOSE p \in pairs : \A q \in pairs : Before(p, q)
    IN IF pairs = {} THEN {} ELSE {best[1], best[2]}

\* A variant: two inputs are never tried.
SelectSingle(coins) ==
    LET singles == {c \in coins : Feasible({c})}
    IN {c \in singles : \A d \in singles : Amount(c) <= Amount(d)}

\* selectInputs: a single coin, the smallest that suffices, before a pair.
SelectInputs(coins) ==
    LET singles == {c \in coins : Feasible({c})}
        Before(c, d) == Amount(c) < Amount(d) \/ (Amount(c) = Amount(d) /\ c <= d)
    IN IF singles # {} THEN {CHOOSE c \in singles : \A d \in singles : Before(c, d)}
       ELSE BestPair(coins)

\* The largest coins first, then in the order of ids.
TwoLargest(coins) ==
    LET Before(d, c) == Amount(d) > Amount(c) \/ (Amount(d) = Amount(c) /\ d < c)
    IN {c \in coins : Cardinality({d \in coins : Before(d, c)}) < 2}

\* A variant: the first output repeats the larger input.
DraftUnmerged(coins) ==
    LET pair == TwoLargest(coins)
        largest == CHOOSE c \in pair : \A d \in pair : Amount(d) <= Amount(c)
    IN [inputs |-> pair, outputs |-> <<Amount(largest), Total(pair) - Amount(largest)>>]

\* One coin of the sum, or the largest possible and the rest.
Draft(coins) ==
    LET pair == TwoLargest(coins)
        sum == Total(pair)
    IN [inputs |-> pair, outputs |-> IF sum > Limit THEN <<Limit, sum - Limit>> ELSE <<sum>>]

-----------------------------------------------------------------------------
(* How the handler goes on and ends.                                         *)

Running == halts = {}
Working(pc) == job.pc = pc
GoOn(next) == job' = next /\ UNCHANGED <<halts, wake>>

\* The handler returned: scheduleAlarm in 30 seconds.
Finish == job' = AtRest /\ wake' = TRUE /\ UNCHANGED halts

\* classifyRewardFailure: only for want of the node is the alarm set again.
Raise(reason) ==
    /\ job' = AtRest
    /\ halts' = halts \cup {reason}
    /\ wake' = (wake \/ reason = "rpc-unavailable")

KeepRecords == UNCHANGED <<request, need, rounds, poolState>>
KeepAll == KeepRecords /\ UNCHANGED troubles

\* The node fails at a step that reads the chain.
NodeFails == Trouble /\ Raise("rpc-unavailable") /\ KeepRecords

\* ensureRewardActive throws: distribution was stopped meanwhile.
Stopped == ~Running /\ Raise("operator-stopped") /\ KeepAll

This == Len(rounds)
Row(k) == rounds[k]
Write(k, row) == rounds' = [rounds EXCEPT ![k] = row]
KeepOther == UNCHANGED <<request, need, poolState, troubles>>

-----------------------------------------------------------------------------
(* runRewardAlarm.                                                           *)

StartJob ==
    /\ wake /\ Working("rest")
    /\ request \in {"accepted", "unknown"}
    /\ wake' = FALSE
    /\ job' = IF Running \/ ("rpc-unavailable" \in halts
                             /\ halts \cap {"operator-stopped", "restore-stopped"} = {})
              THEN [pc |-> "verify"] ELSE AtRest
    /\ UNCHANGED halts /\ KeepAll

RefutedRounds == {k \in DOMAIN rounds : Row(k).phase = "finalized" /\ settled[k] # Row(k).checkpoint}

VerifyRounds ==
    /\ Working("verify")
    /\ \/ NodeFails
       \/ /\ RefutedRounds # {}
          /\ request' = "unknown"
          /\ halts' = (halts \ {"rpc-unavailable"}) \cup {"restore-stopped"}
          /\ job' = AtRest
          /\ UNCHANGED <<need, rounds, wake, poolState, troubles>>
       \/ /\ RefutedRounds = {}
          /\ halts' = halts \ {"rpc-unavailable"}
          /\ IF halts' # {} THEN job' = AtRest /\ UNCHANGED wake
             ELSE IF request = "accepted" THEN job' = [pc |-> "funds"] /\ UNCHANGED wake
             ELSE job' = AtRest /\ wake' = TRUE
          /\ KeepAll

-----------------------------------------------------------------------------
(* dispatch and advanceRewardConsolidation.                                  *)

ReadFunds ==
    /\ Working("funds")
    /\ \/ NodeFails
       \/ GoOn([pc |-> "decide", funds |-> Unspent]) /\ KeepAll

\* A variant: a round that is not final does not hold up the next one.
OpenUnlessSaved == rounds # <<>> /\ Row(This).phase \notin {"finalized", "raw-saved"}

Open == rounds # <<>> /\ Row(This).phase # "finalized"

\* An open round goes on from the phase it has saved; one that was interrupted
\* before its draft was saved is left to the operator.
ResumeRound ==
    /\ Working("decide") /\ Open
    /\ \/ Row(This).phase = "claimed" /\ Raise("operator-stopped")
       \/ Row(This).phase = "signature-started" /\ GoOn([pc |-> "sign"])
       \/ Row(This).phase = "raw-saved" /\ GoOn([pc |-> "observe"])
    /\ KeepAll

\* The inputs of the distribution are found: claimRewardWork.
FoundInputs ==
    /\ Working("decide") /\ ~Open
    /\ SelectInputs(job.funds) # {}
    /\ \/ Stopped
       \/ Running /\ request # "accepted" /\ Finish /\ KeepAll
       \/ /\ Running /\ request = "accepted"
          /\ request' = "selected"
          /\ GoOn(AtRest)
          /\ UNCHANGED <<need, rounds, poolState, troubles>>

\* INSUFFICIENT
ShortOfFunds ==
    /\ Working("decide") /\ ~Open
    /\ Total(job.funds) < need
    /\ Raise("funds-short") /\ KeepAll

\* UNCONSTRUCTABLE: the first transaction of a round.
ClaimRound ==
    /\ Working("decide") /\ ~Open
    /\ SelectInputs(job.funds) = {} /\ Total(job.funds) >= need
    /\ \/ Stopped
       \/ Running /\ request # "accepted" /\ Raise("operator-stopped") /\ KeepAll
       \/ /\ Running /\ request = "accepted"
          /\ Len(rounds) < MaxRounds
          /\ rounds' = Append(rounds, [phase |-> "claimed", inputs |-> {}, outputs |-> <<>>,
                                       signed |-> FALSE, checkpoint |-> Never])
          /\ GoOn([pc |-> "build"])
          /\ KeepOther

\* The funds are read again for the draft; rounds only merge, and two coins are left
\* whatever became final meanwhile.
BuildRound ==
    /\ Working("build")
    /\ \/ NodeFails
       \/ GoOn([pc |-> "save", draft |-> Draft(Unspent)]) /\ KeepAll

\* A variant: the request may have been ended meanwhile.
StillAskedAlways == request \in {"accepted", "ended"}

StillAsked == request = "accepted"

SaveRound ==
    /\ Working("save")
    /\ \/ Stopped
       \/ Running /\ ~StillAsked /\ Raise("operator-stopped") /\ KeepAll
       \/ /\ Running /\ StillAsked
          /\ Write(This, [Row(This) EXCEPT !.phase = "signature-started",
                                           !.inputs = job.draft.inputs, !.outputs = job.draft.outputs])
          /\ GoOn([pc |-> "sign"])
          /\ KeepOther

\* A signature whose answer was lost is asked for again, of the same draft.
SignRound ==
    /\ Working("sign")
    /\ \/ Row(This).signed /\ GoOn([pc |-> "prepare"]) /\ KeepAll
       \/ ~Row(This).signed /\ Stopped
       \/ ~Row(This).signed /\ Running /\ GoOn([pc |-> "keep"]) /\ KeepAll

KeepSignature ==
    /\ Working("keep")
    /\ Write(This, [Row(This) EXCEPT !.signed = TRUE])
    /\ GoOn([pc |-> "prepare"])
    /\ KeepOther

\* prepareSignedRaw looks at the latest block, which may hold more than is final:
\* a round that a reorganisation made pending again, or the coin it makes.
RoundContested(k) == \E j \in relayed \ {k} : Row(j).inputs \cap Row(k).inputs # {}
RoundMissing(k) == ~(Row(k).inputs \subseteq Unspent \cup Taken)

PrepareRound ==
    /\ Working("prepare")
    /\ \/ Stopped
       \/ Running /\ NodeFails
       \/ Running /\ Trouble /\ Raise("gas-short") /\ KeepRecords
       \/ Running /\ RoundContested(This) /\ Raise("operator-stopped") /\ KeepAll
       \/ Running /\ RoundMissing(This) /\ Raise("rpc-unavailable") /\ KeepAll
       \/ Running /\ Row(This).inputs \cap Taken = {} /\ GoOn([pc |-> "raw"]) /\ KeepAll

SaveRaw ==
    /\ Working("raw")
    /\ \/ Stopped
       \/ /\ Running
          /\ Write(This, [Row(This) EXCEPT !.phase = "raw-saved"])
          /\ GoOn([pc |-> "observe"])
          /\ KeepOther

ObserveRound ==
    /\ Working("observe")
    /\ \/ NodeFails
       \/ /\ IsFinal(This)
          /\ Write(This, [Row(This) EXCEPT !.phase = "finalized", !.checkpoint = settled[This]])
          /\ Finish
          /\ KeepOther
       \/ ~IsFinal(This) /\ GoOn([pc |-> "send"]) /\ KeepAll

\* The transaction arrives, or is lost without an error.
SendRound ==
    /\ Working("send")
    /\ \/ Stopped
       \/ /\ Running
          /\ \/ relayed' = relayed \cup {This} /\ UNCHANGED troubles
             \/ Trouble /\ UNCHANGED relayed
          /\ Finish
          /\ UNCHANGED <<request, need, rounds, supply, settled, era>>

-----------------------------------------------------------------------------
(* The operator, and restarts of the object.                                 *)

\* A variant: the round in progress does not matter.
MayEndAlways == request \in {"accepted", "unknown"}

\* endUndistributedReward: not while an operation of the request may be signed.
MayEnd ==
    /\ request \in {"accepted", "unknown"}
    /\ rounds # <<>> => Row(This).phase \notin {"signature-started", "raw-saved"}

EndRequest ==
    /\ MayEnd
    /\ request' = "ended"
    /\ wake' = TRUE
    /\ UNCHANGED <<need, rounds, halts, job, poolState, troubles>>

HaltDistribution ==
    /\ "operator-stopped" \notin halts
    /\ Trouble
    /\ halts' = halts \cup {"operator-stopped"}
    /\ KeepRecords /\ UNCHANGED <<wake, job>>

\* resumeRewardForDeployment: one reason at a time, the gravest first; the balance
\* is compared with the last attempt, and this request has none.
ResumeDistribution ==
    /\ halts # {}
    /\ LET order == <<"restore-stopped", "operator-stopped", "rpc-unavailable",
                      "funds-short", "gas-short">>
           first == SelectSeq(order, LAMBDA h : h \in halts)[1]
       IN /\ first = "funds-short" => Total(Unspent) >= need
          /\ first = "gas-short" => EarlierAttempt
          /\ halts' = halts \ {first}
    /\ wake' = TRUE
    /\ UNCHANGED job /\ KeepAll

RestartObject ==
    /\ ~Working("rest")
    /\ Trouble
    /\ job' = AtRest
    /\ wake' = TRUE
    /\ UNCHANGED halts /\ KeepRecords

-----------------------------------------------------------------------------
RoundStep ==
    \/ ReadFunds \/ ResumeRound \/ FoundInputs \/ ShortOfFunds \/ ClaimRound \/ BuildRound
    \/ SaveRound \/ SignRound \/ KeepSignature \/ PrepareRound \/ SaveRaw \/ ObserveRound \/ SendRound

NextFunds ==
    \/ StartJob \/ VerifyRounds \/ RoundStep
    \/ EndRequest \/ HaltDistribution \/ ResumeDistribution \/ RestartObject
    \/ \E c \in Piece : DepositPiece(c)
    \/ \E k \in relayed : SettleRound(k)
    \/ \E lost \in SUBSET (1..MaxRounds) : UndoRounds(lost)

SpecFunds == InitFunds /\ [][NextFunds]_varsFunds
-----------------------------------------------------------------------------
\* Consolidation comes to an end: every round leaves one coin less, so three
\* coins take one round and n coins at most n - 2, however often the handler was
\* interrupted and whatever was deposited between its two reads of the funds.  A
\* reorganisation between verification and reading can add a round.
FewRounds == era = 0 /\ rounds # <<>> => Len(rounds) <= Cardinality(supply) - 2

\* Nothing signed for a request that ended can move a coin any more, although the
\* operator may end it while the alarm builds a round: every round that was signed
\* is in the history already (endUndistributedReward against SaveRound's check).
EndedIsQuiet ==
    era = 0 /\ request = "ended" => \A k \in DOMAIN rounds : Row(k).signed => IsFinal(k)
=============================================================================
