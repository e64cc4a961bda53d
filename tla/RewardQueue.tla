----------------------------- MODULE RewardQueue -----------------------------
(***************************************************************************)
(* apps/uniswap-service/src/rewards: demo rewards are accepted against the  *)
(* distributor's finalized funds, and one alarm of the Durable Object pays  *)
(* them one at a time, in the order of acceptance: build, save, sign, save, *)
(* send.  An operator may stop, resume, end and cancel meanwhile.           *)
(*                                                                          *)
(* A handler is split where it awaits.  Two handlers can be in progress,    *)
(* the alarm and an operator's cancellation; admissions run beside them.    *)
(*                                                                          *)
(* A distribution consumes one coin or two and leaves change; a cancellation *)
(* turns its input into a new coin.  A reward is of at most two units, so    *)
(* two coins always make it up: merging them first is RewardConsolidation.  *)
(* The chain is its finalized part: a transaction that reached a node may   *)
(* become final at any later time, or never.                                *)
(***************************************************************************)
EXTENDS Integers, Sequences, FiniteSets, FiniteSetsExt, SequencesExt

CONSTANTS
    Request,         \* request ids
    RewardAmount,    \* what each of them asks for
    Owner,           \* the owners who ask for rewards
    Posts,           \* which owner may make which request, pairs
    Base,            \* the coins the distributor may deposit
    Face,            \* their amounts
    InitialFunds,    \* how many of them it has at least at the start
    AdmissionCrash,  \* whether the object may stop between an admission and its alarm
    GasMayRunOut,    \* whether the balance may be too small for a transaction
    Stops,           \* the reasons for which an operator may stop distribution
    MaxCoins,        \* bound: coins deposited
    MaxPosts,        \* bound: admissions in progress at a time
    MaxDisturbances, \* bound: restarts, failures, lost messages, stops, new funds
    MaxForks,        \* bound: reorganisations of finalized history
    None

Pay(r) == <<"pay", r>>
Cancel(r) == <<"cancel", r>>
Op == {"pay", "cancel"} \X Request

\* An operation stands for the coin it makes: a payment's change, a cancellation's output.
Coin == Base \cup Op

ASSUME RewardAssumption ==
    /\ Op \cap Base = {} /\ None \notin Request \cup Coin \cup Nat
    /\ None # [pc |-> "schedule"]
    /\ None \notin Owner /\ Posts \subseteq Request \X Owner
    /\ RewardAmount \in [Request -> 1..2]
    /\ Face \in [Base -> Nat \ {0}]
    /\ InitialFunds \in Nat /\ MaxCoins \in Nat
    /\ AdmissionCrash \in BOOLEAN /\ GasMayRunOut \in BOOLEAN
    /\ Stops \subseteq {"operator-stopped", "quota-stopped", "restore-stopped"}
    /\ MaxPosts \in Nat /\ MaxDisturbances \in Nat /\ MaxForks \in Nat

\* Promises and coins can be counted.
ASSUME FiniteAssumption == IsFiniteSet(Request) /\ IsFiniteSet(Base)

VARIABLES
    rows,         \* Request -> its rows of reward_requests, _drafts, _attempts, _reservations
    queue,        \* the requests in the order of seq
    inputs,       \* reward_inputs: Coin -> its holder and status, "none" without a row
    cancels,      \* reward_cancellations: Request -> phase, input, its amount, checkpoint
    stops,        \* reward_stop_flags and reward_transient_stop
    alarm,        \* whether the object's alarm is set
    admitting,    \* Request -> the POST in progress, or None
    handler,      \* the alarm's and the operator's handler in progress
    deposited,    \* the coins of Base that are in the pool
    sent,         \* operations some node has received
    executed,     \* operation -> the block (its fork) it is final in, or None
    fork,         \* reorganisations of finalized history so far
    disturbances  \* counts towards MaxDisturbances

db == <<rows, queue, inputs, cancels>>
chain == <<deposited, sent, executed, fork>>
vars == <<db, stops, alarm, admitting, handler, chain, disturbances>>

Thread == {"alarm", "operator"}
Idle == [pc |-> "idle"]

Unfinished == {"accepted", "processing", "pending", "unknown"}

Init ==
    /\ rows = [r \in Request |-> [status |-> "none", owner |-> None, version |-> 0, phase |-> "none",
                                  coins |-> {}, first |-> None, change |-> 0,
                                  signed |-> FALSE, attempt |-> FALSE,
                                  released |-> FALSE, checkpoint |-> None]]
    /\ queue = <<>>
    /\ inputs = [c \in Coin |-> [holder |-> None, status |-> "none"]]
    /\ cancels = [r \in Request |-> [phase |-> "none", input |-> None, amount |-> 0, checkpoint |-> None]]
    /\ stops = {}
    /\ alarm = FALSE
    /\ admitting = [r \in Request |-> None]
    /\ handler = [t \in Thread |-> Idle]
    /\ deposited \in {S \in SUBSET Base : Cardinality(S) \in InitialFunds..MaxCoins}
    /\ sent = {}
    /\ executed = [op \in Op |-> None]
    /\ fork = 0
    /\ disturbances = 0

Disturb == disturbances < MaxDisturbances /\ disturbances' = disturbances + 1

-----------------------------------------------------------------------------
(* The chain: module Pool, reduced to the distributor's coins.               *)

InputsOf(op) == IF op[1] = "pay" THEN rows[op[2]].coins ELSE {cancels[op[2]].input}

Worth(c) ==
    IF c \in Base THEN Face[c]
    ELSE IF c[1] = "pay" THEN rows[c[2]].change ELSE cancels[c[2]].amount
WorthOf(coins) == MapThenSumSet(Worth, coins)

Made(c) == IF c \in Base THEN c \in deposited ELSE executed[c] # None /\ Worth(c) > 0
Spent(c) == \E op \in Op : executed[op] # None /\ c \in InputsOf(op)
Available == {c \in Coin : Made(c) /\ ~Spent(c)}

\* The distributor's owner brings new funds into the pool, at any time.
Fund(c) ==
    /\ c \notin deposited
    /\ Cardinality(deposited) < MaxCoins
    /\ deposited' = deposited \cup {c}
    /\ UNCHANGED <<db, stops, alarm, admitting, handler, sent, executed, fork, disturbances>>

Finalize(op) ==
    /\ op \in sent
    /\ executed[op] = None
    /\ InputsOf(op) \subseteq Available
    /\ executed' = [executed EXCEPT ![op] = fork]
    /\ UNCHANGED <<db, stops, alarm, admitting, handler, deposited, sent, fork, disturbances>>

\* Blocks that were final are lost, and with an operation those that spend its coin.
Reorganize(lost) ==
    /\ fork < MaxForks
    /\ lost # {} /\ \A op \in lost : executed[op] # None
    /\ \A op \in Op \ lost : executed[op] # None => InputsOf(op) \cap lost = {}
    /\ executed' = [op \in Op |-> IF op \in lost THEN None ELSE executed[op]]
    /\ fork' = fork + 1
    /\ UNCHANGED <<db, stops, alarm, admitting, handler, deposited, sent, disturbances>>

-----------------------------------------------------------------------------
(* availability.ts.  reward_availability.reason is a function of the flags.  *)

Priority == <<"restore-stopped", "quota-stopped", "operator-stopped",
              "rpc-unavailable", "funds-short", "gas-short">>

ReasonOf(flags) ==
    IF flags = {} THEN "healthy"
    ELSE Priority[CHOOSE i \in DOMAIN Priority :
                     Priority[i] \in flags /\ \A j \in 1..(i - 1) : Priority[j] \notin flags]

Reason == ReasonOf(stops)
Active == Reason = "healthy"

-----------------------------------------------------------------------------
(* POST /v1/rewards: the version of the ledger, the funds, the transaction.  *)

LedgerVersion == MapThenSumSet(LAMBDA r : rows[r].version, Request)
ActiveReservations == {r \in Request : rows[r].status # "none" /\ ~rows[r].released}
AmountOf(requests) == MapThenSumSet(LAMBDA r : RewardAmount[r], requests)

OwnerBusy(o) == \E q \in Request : rows[q].owner = o /\ rows[q].status \in Unfinished \cup {"finalized"}

\* verifyFinalizedCancellation: the request was not paid and the cancellation is where it was.
CancellationValid(r) == executed[Pay(r)] = None /\ executed[Cancel(r)] = cancels[r].checkpoint
Cancelled == {r \in Request : rows[r].status = "ended" /\ cancels[r].phase # "none"}

AdmitStart(r, o) ==
    /\ <<r, o>> \in Posts
    /\ admitting[r] = None
    /\ Cardinality({q \in Request : admitting[q] # None}) < MaxPosts
    /\ rows[r].status = "none" /\ ~OwnerBusy(o)
    /\ Active
    /\ admitting' = [admitting EXCEPT ![r] = [pc |-> "funds", owner |-> o, version |-> LedgerVersion]]
    /\ UNCHANGED <<db, stops, alarm, handler, chain, disturbances>>

Admitting(r, pc) == admitting[r] # None /\ admitting[r].pc = pc

AdmitFunds(r) ==
    /\ Admitting(r, "funds")
    /\ \/ /\ Disturb
          /\ admitting' = [admitting EXCEPT ![r] = None]
          /\ UNCHANGED stops
       \/ /\ \A q \in Cancelled : CancellationValid(q)
          /\ admitting' = [admitting EXCEPT ![r] = [pc |-> "commit", owner |-> @.owner, version |-> @.version,
                                                      total |-> WorthOf(Available)]]
          /\ UNCHANGED <<stops, disturbances>>
       \/ /\ \E q \in Cancelled : cancels[q].checkpoint # None /\ ~CancellationValid(q)
          /\ admitting' = [admitting EXCEPT ![r] = None]
          /\ stops' = stops \cup {"restore-stopped"}
          /\ UNCHANGED disturbances
    /\ UNCHANGED <<db, alarm, handler, chain>>

\* A variant: the ledger may have changed since the funds were read.
SameLedgerAnyVersion(version) == version \in Nat

SameLedger(version) == LedgerVersion = version

\* admitReward
AdmitCommit(r) ==
    /\ Admitting(r, "commit")
    /\ LET a == admitting[r] IN
       IF /\ ~OwnerBusy(a.owner)
          /\ SameLedger(a.version)
          /\ Active
          /\ a.total >= AmountOf(ActiveReservations) + RewardAmount[r]
       THEN /\ rows' = [rows EXCEPT ![r].status = "accepted", ![r].owner = a.owner, ![r].version = 1]
            /\ queue' = Append(queue, r)
            /\ admitting' = [admitting EXCEPT ![r] = [pc |-> "schedule"]]
       ELSE /\ admitting' = [admitting EXCEPT ![r] = None]
            /\ UNCHANGED <<rows, queue>>
    /\ UNCHANGED <<inputs, cancels, stops, alarm, handler, chain, disturbances>>

\* scheduleAlarm
AdmitSchedule(r) ==
    /\ Admitting(r, "schedule")
    /\ alarm' = TRUE
    /\ admitting' = [admitting EXCEPT ![r] = None]
    /\ UNCHANGED <<db, stops, handler, chain, disturbances>>

\* POST /v1/rewards/{id}/received.  The transaction compares everything that was
\* read before the history was, so the handler is one step.
Receive(r) ==
    /\ rows[r].status = "finalized"
    /\ Reason \in {"healthy", "funds-short", "gas-short"}
    /\ executed[Pay(r)] = rows[r].checkpoint
    /\ rows' = [rows EXCEPT ![r].status = "received", ![r].version = @ + 1]
    /\ UNCHANGED <<queue, inputs, cancels, stops, alarm, admitting, handler, chain, disturbances>>

-----------------------------------------------------------------------------
(* How handlers end.                                                         *)

At(t, pc) == handler[t].pc = pc
Continue(t, h) == handler' = [handler EXCEPT ![t] = h]

\* The handler returned: scheduleAlarm in 30 seconds.
Done(t) ==
    /\ Continue(t, Idle)
    /\ alarm' = TRUE
    /\ UNCHANGED stops

\* A variant: the alarm is not set after a failure of the node.
FailUnscheduled(t, reason) ==
    /\ Continue(t, Idle)
    /\ stops' = IF t = "alarm" THEN stops \cup {reason} ELSE stops
    /\ UNCHANGED alarm

\* The handler threw: the alarm classifies the failure, an operator just sees it.
Fail(t, reason) ==
    /\ Continue(t, Idle)
    /\ stops' = IF t = "alarm" THEN stops \cup {reason} ELSE stops
    /\ alarm' = (alarm \/ (t = "alarm" /\ reason = "rpc-unavailable"))

\* A failure of the node or of the secrets, at the steps that read the chain.
Unavailable(t) ==
    /\ Disturb
    /\ \E reason \in {"rpc-unavailable", "operator-stopped"} : Fail(t, reason)
    /\ UNCHANGED <<db, admitting, chain>>

\* The quote of a transaction costs more than the balance.
OutOfGas(t) ==
    /\ GasMayRunOut
    /\ Disturb
    /\ Fail(t, "gas-short")
    /\ UNCHANGED <<db, admitting, chain>>

\* A step of a handler that writes no record.
NoWrite == UNCHANGED <<db, admitting, chain, disturbances>>

-----------------------------------------------------------------------------
(* runRewardAlarm: verify what is final, then take the first unfinished.     *)

AlarmStart ==
    /\ alarm /\ At("alarm", "idle")
    /\ alarm' = FALSE
    /\ IF Reason \in {"healthy", "rpc-unavailable"} /\ \E r \in Request : rows[r].status \notin {"none", "ended"}
       THEN Continue("alarm", [pc |-> "verify"])
       ELSE UNCHANGED handler
    /\ UNCHANGED <<db, stops, admitting, chain, disturbances>>

\* The first request of S in the order of acceptance.
First(S, r) ==
    /\ r \in S
    /\ \E j \in DOMAIN queue : queue[j] = r /\ \A i \in 1..(j - 1) : queue[i] \notin S

\* Final results that the finalized history no longer confirms.
RefutedCancellations == {r \in Cancelled : ~CancellationValid(r)}
RefutedPayments ==
    {r \in Request : rows[r].status \in {"finalized", "received"} /\ executed[Pay(r)] # rows[r].checkpoint}

\* The one that is found: the cancellations are verified before the payments.
Refuted(r) ==
    First(IF RefutedCancellations # {} THEN RefutedCancellations ELSE RefutedPayments, r)

Later(r) == {q \in ToSet(queue) : \E i, j \in DOMAIN queue : i <= j /\ queue[i] = r /\ queue[j] = q}

\* A variant: the reservations stay released.
InvalidateReleased(r) ==
    LET reopened == {q \in Later(r) : rows[q].status \in {"finalized", "received", "processing", "pending", "unknown"}}
                    \cup ({r} \cap Cancelled)
    IN /\ rows' = [q \in Request |-> IF q \in reopened
                                     THEN [rows[q] EXCEPT !.status = "unknown", !.version = @ + 1]
                                     ELSE rows[q]]
       /\ inputs' = [c \in Coin |-> IF inputs[c].holder \in reopened
                                    THEN [inputs[c] EXCEPT !.status = "unknown"] ELSE inputs[c]]
       /\ UNCHANGED <<queue, cancels>>

\* invalidateAfterReorg: the request and what was paid after it are unknown again.
Invalidate(r) ==
    LET reopened == {q \in Later(r) : rows[q].status \in {"finalized", "received", "processing", "pending", "unknown"}}
                    \cup ({r} \cap Cancelled)
    IN /\ rows' = [q \in Request |->
             IF q \in reopened
             THEN [rows[q] EXCEPT !.status = "unknown", !.version = @ + 1, !.released = FALSE]
             ELSE rows[q]]
       /\ inputs' = [c \in Coin |-> IF inputs[c].holder \in reopened
                                    THEN [inputs[c] EXCEPT !.status = "unknown"] ELSE inputs[c]]
       /\ UNCHANGED <<queue, cancels>>

\* A variant: a request that was sent does not hold up the queue.
UnsettledSkippingSent == {r \in Request : rows[r].status \in Unfinished \ {"pending", "unknown"}}

Unsettled == {r \in Request : rows[r].status \in Unfinished}

\* dispatch and reconcile start here.
Take(r) ==
    [pc |-> CASE rows[r].status = "accepted" -> "funds"
              [] rows[r].status # "accepted" /\ cancels[r].phase # "none" -> "cancel"
              [] OTHER -> "evidence",
     r |-> r]

AlarmVerify ==
    /\ At("alarm", "verify")
    /\ \/ Unavailable("alarm")
       \/ /\ \E r \in Request : Refuted(r) /\ Invalidate(r)
          /\ stops' = (stops \ {"rpc-unavailable"}) \cup {"restore-stopped"}
          /\ Continue("alarm", Idle)
          /\ UNCHANGED <<alarm, admitting, chain, disturbances>>
       \/ /\ RefutedCancellations = {} /\ RefutedPayments = {}
          /\ stops' = stops \ {"rpc-unavailable"}
          /\ IF ReasonOf(stops') = "healthy" /\ Unsettled # {}
             THEN \E r \in Request : First(Unsettled, r) /\ Continue("alarm", Take(r))
             ELSE Continue("alarm", Idle)
          /\ UNCHANGED <<db, alarm, admitting, chain, disturbances>>

-----------------------------------------------------------------------------
(* dispatch: build, save, sign, save, send.                                  *)

\* selectInputs: one coin before two, and of each the least that suffices; which of
\* several that are worth the same comes first is left open.
Selections(r) ==
    LET Sufficient(sets) == {coins \in sets : WorthOf(coins) >= RewardAmount[r]}
        singles == Sufficient({{c} : c \in Available})
        choices == IF singles # {} THEN singles ELSE Sufficient({{c, d} : c, d \in Available})
    IN {coins \in choices : \A other \in choices : WorthOf(coins) <= WorthOf(other)}

DispatchFunds ==
    /\ At("alarm", "funds")
    /\ LET r == handler["alarm"].r IN
       \/ Unavailable("alarm")
       \/ Selections(r) = {} /\ Fail("alarm", "funds-short") /\ NoWrite
       \/ /\ \E coins \in Selections(r) : Continue("alarm", [pc |-> "claim", r |-> r, coins |-> coins])
          /\ UNCHANGED <<alarm, stops>> /\ NoWrite

\* claimRewardWork
DispatchClaim ==
    /\ At("alarm", "claim")
    /\ LET h == handler["alarm"] IN
       \/ ~Active /\ Fail("alarm", "operator-stopped") /\ NoWrite
       \/ /\ Active
          /\ rows[h.r].status # "accepted" \/ rows[h.r].phase # "none"
          /\ Done("alarm") /\ NoWrite
       \/ /\ Active
          /\ rows[h.r].status = "accepted" /\ rows[h.r].phase = "none"
          /\ rows' = [rows EXCEPT ![h.r].status = "processing", ![h.r].phase = "claimed", ![h.r].version = @ + 1]
          /\ Continue("alarm", [h EXCEPT !.pc = "build"])
          /\ UNCHANGED <<queue, inputs, cancels, alarm, stops, admitting, chain, disturbances>>

\* buildOperation
DispatchBuild ==
    /\ At("alarm", "build")
    /\ \/ ~Active /\ Fail("alarm", "operator-stopped")
       \/ Active /\ Continue("alarm", [handler["alarm"] EXCEPT !.pc = "save"]) /\ UNCHANGED <<alarm, stops>>
    /\ NoWrite

\* A variant: an input that is not reserved counts as free.
FreeUnlessReserved(c) == inputs[c].status # "reserved"

Free(c) == inputs[c].status \in {"none", "released"}

\* saveDraftIfCurrent; the order of the inputs is that of their ids.
DispatchSave ==
    /\ At("alarm", "save")
    /\ LET h == handler["alarm"]
           current == /\ rows[h.r].phase = "claimed" /\ rows[h.r].status = "processing"
                      /\ \A c \in h.coins : Free(c)
       IN \/ ~current /\ Fail("alarm", "operator-stopped") /\ NoWrite
          \/ /\ current
             /\ \E c \in h.coins :
                   rows' = [rows EXCEPT ![h.r].phase = "draft-saved", ![h.r].version = @ + 1,
                                        ![h.r].coins = h.coins, ![h.r].first = c,
                                        ![h.r].change = WorthOf(h.coins) - RewardAmount[h.r]]
             /\ inputs' = [c \in Coin |-> IF c \in h.coins
                                          THEN [holder |-> h.r, status |-> "reserved"] ELSE inputs[c]]
             /\ Continue("alarm", [pc |-> "mark", r |-> h.r])
             /\ UNCHANGED <<queue, cancels, alarm, stops, admitting, chain, disturbances>>

\* markSignatureStarted, and the check before the signer is called.
DispatchMark ==
    /\ At("alarm", "mark")
    /\ LET h == handler["alarm"]
           current == rows[h.r].phase = "draft-saved" /\ rows[h.r].status = "processing"
       IN \/ ~current /\ Fail("alarm", "operator-stopped") /\ NoWrite
          \/ /\ current
             /\ rows' = [rows EXCEPT ![h.r].phase = "signature-started", ![h.r].version = @ + 1]
             /\ \/ ~Active /\ Fail("alarm", "operator-stopped")
                \/ Active /\ Continue("alarm", [h EXCEPT !.pc = "sign"]) /\ UNCHANGED <<alarm, stops>>
             /\ UNCHANGED <<queue, inputs, cancels, admitting, chain, disturbances>>

\* authorizeOperation
DispatchSign ==
    /\ At("alarm", "sign")
    /\ \/ ~Active /\ Fail("alarm", "operator-stopped")
       \/ Active /\ Continue("alarm", [handler["alarm"] EXCEPT !.pc = "store"]) /\ UNCHANGED <<alarm, stops>>
    /\ NoWrite

\* saveAuthorizedDraftIfCurrent
DispatchStore ==
    /\ At("alarm", "store")
    /\ LET h == handler["alarm"]
           current == rows[h.r].phase = "signature-started" /\ rows[h.r].status = "processing"
       IN \/ ~current /\ Fail("alarm", "operator-stopped") /\ NoWrite
          \/ /\ current
             /\ rows' = [rows EXCEPT ![h.r].signed = TRUE, ![h.r].version = @ + 1]
             /\ Continue("alarm", [h EXCEPT !.pc = "submit"])
             /\ UNCHANGED <<queue, inputs, cancels, alarm, stops, admitting, chain, disturbances>>

\* preflightSubmission at the latest block, which may hold more than is final.
Contested(coins) == \E op \in sent : InputsOf(op) \cap coins # {}
Missing(coins) == \E c \in coins : ~Made(c)

\* prepareSignedRaw in submitSaved
Submit ==
    /\ At("alarm", "submit")
    /\ LET h == handler["alarm"]
           coins == rows[h.r].coins
       IN \/ Unavailable("alarm")
          \/ OutOfGas("alarm")
          \/ Contested(coins) /\ Fail("alarm", "operator-stopped") /\ NoWrite
          \/ Missing(coins) /\ Fail("alarm", "rpc-unavailable") /\ NoWrite
          \/ /\ \A c \in coins : ~Spent(c)
             /\ Continue("alarm", [h EXCEPT !.pc = "attempt"])
             /\ UNCHANGED <<alarm, stops>> /\ NoWrite

\* saveRewardAttempt
SaveAttempt ==
    /\ At("alarm", "attempt")
    /\ LET h == handler["alarm"]
           current == Active /\ rows[h.r].status = "processing" /\ rows[h.r].phase = "signature-started"
       IN \/ ~current /\ Fail("alarm", "operator-stopped") /\ NoWrite
          \/ /\ current
             /\ rows' = [rows EXCEPT ![h.r].attempt = TRUE, ![h.r].status = "pending", ![h.r].version = @ + 1]
             /\ Continue("alarm", [h EXCEPT !.pc = "broadcast"])
             /\ UNCHANGED <<queue, inputs, cancels, alarm, stops, admitting, chain, disturbances>>

\* A transaction given to the node arrives, or is lost without an error.
Send(op) ==
    \/ sent' = sent \cup {op} /\ UNCHANGED disturbances
    \/ Disturb /\ UNCHANGED sent

\* broadcastRewardAttempt
Broadcast ==
    /\ At("alarm", "broadcast")
    /\ LET r == handler["alarm"].r
           held == {c \in Coin : inputs[c].holder = r}
           allowed == /\ rows[r].status \in {"pending", "unknown"}
                      /\ rows[r].phase = "signature-started"
                      /\ held # {} /\ \A c \in held : inputs[c].status = "reserved"
                      /\ Active
       IN \/ ~allowed /\ Fail("alarm", "operator-stopped") /\ NoWrite
          \/ /\ allowed
             /\ Send(Pay(r))
             /\ Done("alarm")
             /\ UNCHANGED <<db, admitting, deposited, executed, fork>>

-----------------------------------------------------------------------------
(* reconcile: what became of the operation, read and then recorded.          *)

EvidenceRead ==
    /\ At("alarm", "evidence")
    /\ LET r == handler["alarm"].r IN
       \/ rows[r].coins = {} /\ Done("alarm") /\ NoWrite
       \/ rows[r].coins # {} /\ Unavailable("alarm")
       \/ /\ rows[r].coins # {}
          /\ Continue("alarm", [pc |-> "judge", r |-> r, version |-> rows[r].version,
                                status |-> rows[r].status, found |-> executed[Pay(r)]])
          /\ UNCHANGED <<alarm, stops>> /\ NoWrite

RecordCurrent(h) == rows[h.r].version = h.version /\ rows[h.r].status \in {"pending", "unknown"}

EvidenceJudge ==
    /\ At("alarm", "judge")
    /\ LET h == handler["alarm"] IN
       \/ h.found # None /\ ~RecordCurrent(h) /\ Done("alarm") /\ NoWrite
       \/ /\ h.found # None /\ RecordCurrent(h)
          /\ rows' = [rows EXCEPT ![h.r].status = "finalized", ![h.r].checkpoint = h.found,
                                  ![h.r].released = TRUE, ![h.r].version = @ + 1]
          /\ inputs' = [c \in Coin |-> IF inputs[c].holder = h.r
                                       THEN [inputs[c] EXCEPT !.status = "consumed"] ELSE inputs[c]]
          /\ Done("alarm")
          /\ UNCHANGED <<queue, cancels, admitting, chain, disturbances>>
       \/ /\ h.found = None
          /\ LET next == IF h.status = "processing"
                         THEN IF rows[h.r].signed THEN "submit" ELSE "idle"
                         ELSE IF rows[h.r].attempt THEN "broadcast" ELSE "idle"
             IN \/ next = "idle" /\ Done("alarm")
                \/ /\ next # "idle"
                   /\ Continue("alarm", [pc |-> next, r |-> h.r])
                   /\ UNCHANGED <<alarm, stops>>
          /\ NoWrite

-----------------------------------------------------------------------------
(* advanceSignedCancellation, by the alarm or by an operator's call.         *)

\* Where the saved phase lets the cancellation go on.
Resumed(r) ==
    [pc |-> CASE cancels[r].phase = "signature-started" -> "cancel-sign"
              [] cancels[r].phase = "signed" -> "cancel-prepare"
              [] cancels[r].phase = "raw-saved" -> "cancel-observe",
     r |-> r]

CancelEnter(t) ==
    /\ At(t, "cancel")
    /\ LET r == handler[t].r
           settled == rows[r].status \in {"ended", "finalized", "received"}
           started == rows[r].phase = "signature-started"
       IN \/ Unavailable(t)
          \/ settled /\ Done(t) /\ NoWrite
          \/ ~settled /\ ~started /\ Fail(t, "operator-stopped") /\ NoWrite
          \/ /\ ~settled /\ started /\ cancels[r].phase # "none"
             /\ Continue(t, Resumed(r))
             /\ UNCHANGED <<alarm, stops>> /\ NoWrite
          \/ /\ ~settled /\ started /\ cancels[r].phase = "none" /\ rows[r].first \notin Available
             /\ Fail(t, "rpc-unavailable") /\ NoWrite
          \/ /\ ~settled /\ started /\ cancels[r].phase = "none" /\ rows[r].first \in Available
             /\ cancels' = [cancels EXCEPT ![r].phase = "signature-started",
                                          ![r].input = rows[r].first, ![r].amount = Worth(rows[r].first)]
             /\ Continue(t, [pc |-> "cancel-sign", r |-> r])
             /\ UNCHANGED <<rows, queue, inputs, alarm, stops, admitting, chain, disturbances>>

CancelSign(t) ==
    /\ At(t, "cancel-sign")
    /\ LET r == handler[t].r IN
       /\ cancels' = [cancels EXCEPT ![r].phase = IF @ = "signature-started" THEN "signed" ELSE @]
       /\ Continue(t, [pc |-> IF cancels'[r].phase = "signed" THEN "cancel-prepare" ELSE "cancel-observe", r |-> r])
    /\ UNCHANGED <<rows, queue, inputs, alarm, stops, admitting, chain, disturbances>>

\* ORIGINAL_FINALIZED: the alarm goes on to record the distribution.
OriginalFinalized(t) ==
    /\ executed[Pay(handler[t].r)] # None
    /\ Continue(t, IF t = "alarm" THEN [pc |-> "evidence", r |-> handler[t].r] ELSE Idle)
    /\ UNCHANGED <<alarm, stops>> /\ NoWrite

\* observe answers 'unknown': the input was consumed by neither operation.
SpentElsewhere(r) ==
    /\ executed[Pay(r)] = None /\ executed[Cancel(r)] = None
    /\ Spent(cancels[r].input)

CancelPrepare(t) ==
    /\ At(t, "cancel-prepare")
    /\ LET r == handler[t].r
           coin == cancels[r].input
       IN \/ Unavailable(t)
          \/ OriginalFinalized(t)
          \/ SpentElsewhere(r) /\ Fail(t, "rpc-unavailable") /\ NoWrite
          \/ executed[Pay(r)] = None /\ OutOfGas(t)
          \/ /\ executed[Pay(r)] = None
             /\ Contested({coin})
             /\ Fail(t, "operator-stopped") /\ NoWrite
          \/ /\ executed[Pay(r)] = None
             /\ Missing({coin})
             /\ Fail(t, "rpc-unavailable") /\ NoWrite
          \/ /\ ~Spent(coin)
             /\ cancels' = [cancels EXCEPT ![r].phase = "raw-saved"]
             /\ Continue(t, [pc |-> "cancel-observe", r |-> r])
             /\ UNCHANGED <<rows, queue, inputs, alarm, stops, admitting, chain, disturbances>>

CancelObserve(t) ==
    /\ At(t, "cancel-observe")
    /\ LET r == handler[t].r IN
       \/ Unavailable(t)
       \/ OriginalFinalized(t)
       \/ SpentElsewhere(r) /\ Fail(t, "rpc-unavailable") /\ NoWrite
       \/ /\ executed[Pay(r)] = None /\ executed[Cancel(r)] # None
          /\ Continue(t, [pc |-> "cancel-end", r |-> r, found |-> executed[Cancel(r)]])
          /\ UNCHANGED <<alarm, stops>> /\ NoWrite
       \/ /\ ~Spent(cancels[r].input)
          /\ Send(Cancel(r))
          /\ Done(t)
          /\ UNCHANGED <<db, admitting, deposited, executed, fork>>

\* A variant: the input that the cancellation consumed is given back as well.
SettledInputAllBack(r, c) == "released"

\* What becomes of an input of r when its cancellation is final.
SettledInput(r, c) == IF c = cancels[r].input THEN "consumed" ELSE "released"

CancelEnd(t) ==
    /\ At(t, "cancel-end")
    /\ LET h == handler[t]
           current == rows[h.r].status \in {"pending", "unknown", "processing"}
       IN \/ ~current /\ Fail(t, "operator-stopped") /\ NoWrite
          \/ /\ current
             /\ rows' = [rows EXCEPT ![h.r].status = "ended", ![h.r].released = TRUE, ![h.r].version = @ + 1]
             /\ inputs' = [c \in Coin |-> IF c = cancels[h.r].input \/ inputs[c].holder = h.r
                                          THEN [inputs[c] EXCEPT !.status = SettledInput(h.r, c)] ELSE inputs[c]]
             /\ cancels' = [cancels EXCEPT ![h.r].checkpoint = h.found]
             /\ Done(t)
             /\ UNCHANGED <<queue, admitting, chain, disturbances>>

-----------------------------------------------------------------------------
(* The operators, and restarts of the object.                                *)

\* Variants: what was already signed or sent does not matter; a draft that was
\* never finished cannot be ended.
UnsignedByStatus(r) == rows[r].status \in Unfinished
UnsignedSaved(r) ==
    rows[r].status \in {"accepted", "processing", "unknown"} /\ rows[r].phase \in {"none", "draft-saved"}
\* endUndistributedReward's conditions
Unsigned(r) ==
    /\ rows[r].status \in {"accepted", "processing", "unknown"} /\ ~rows[r].attempt
    /\ rows[r].phase \in {"none", "claimed", "draft-saved"}
    /\ rows[r].status = "processing" => rows[r].phase # "none"

EndUnsigned(r) ==
    /\ \/ rows[r].status = "ended" /\ UNCHANGED <<rows, inputs>>
       \/ /\ Unsigned(r)
          /\ rows' = [rows EXCEPT ![r].status = "ended", ![r].released = TRUE, ![r].version = @ + 1]
          /\ inputs' = [c \in Coin |-> IF inputs[c].holder = r
                                       THEN [inputs[c] EXCEPT !.status = "released"] ELSE inputs[c]]
    /\ alarm' = TRUE
    /\ UNCHANGED <<queue, cancels, stops, admitting, handler, chain, disturbances>>

CancelSigned(r) ==
    /\ At("operator", "idle")
    /\ rows[r].status # "none"
    /\ Continue("operator", [pc |-> "cancel", r |-> r])
    /\ UNCHANGED <<db, stops, alarm, admitting, chain, disturbances>>

Stop(reason) ==
    /\ reason \notin stops
    /\ Disturb
    /\ stops' = stops \cup {reason}
    /\ UNCHANGED <<db, alarm, admitting, handler, chain>>

\* The balance is compared with the last attempt, or with the cost of the first
\* signed draft in progress: without either there is nothing to compare it with.
GasReady ==
    \/ \E r \in Request : rows[r].attempt
    \/ \E r \in Request :
          First({q \in Request : rows[q].status \in {"processing", "pending"}}, r) /\ rows[r].signed

FundsReady == WorthOf(Available) >= AmountOf(ActiveReservations)

\* resumeRewardForDeployment: one reason is removed at a time.
Resume ==
    /\ Reason = "funds-short" => FundsReady
    /\ Reason = "gas-short" => GasReady
    /\ stops' = stops \ {Reason}
    /\ alarm' = TRUE
    /\ UNCHANGED <<db, admitting, handler, chain, disturbances>>

Restart ==
    /\ (\E t \in Thread : handler[t] # Idle) \/ (\E r \in Request : admitting[r] # None)
    /\ ~AdmissionCrash => \A r \in Request : ~Admitting(r, "schedule")
    /\ Disturb
    /\ handler' = [t \in Thread |-> Idle]
    /\ admitting' = [r \in Request |-> None]
    /\ alarm' = (alarm \/ handler["alarm"] # Idle)
    /\ UNCHANGED <<db, stops, chain>>

-----------------------------------------------------------------------------
Dispatch ==
    \/ DispatchFunds \/ DispatchClaim \/ DispatchBuild \/ DispatchSave
    \/ DispatchMark \/ DispatchSign \/ DispatchStore

Reconcile == EvidenceRead \/ EvidenceJudge

Cancellation(t) ==
    CancelEnter(t) \/ CancelSign(t) \/ CancelPrepare(t) \/ CancelObserve(t) \/ CancelEnd(t)

AlarmStep ==
    \/ AlarmStart \/ AlarmVerify \/ Dispatch \/ Submit \/ SaveAttempt \/ Broadcast
    \/ Reconcile \/ Cancellation("alarm")

Next ==
    \/ \E r \in Request, o \in Owner : AdmitStart(r, o)
    \/ \E r \in Request : AdmitFunds(r) \/ AdmitCommit(r) \/ AdmitSchedule(r) \/ Receive(r)
    \/ AlarmStep
    \/ Cancellation("operator")
    \/ \E r \in Request : EndUnsigned(r) \/ CancelSigned(r)
    \/ \E reason \in Stops : Stop(reason)
    \/ Resume
    \/ Restart
    \/ \E c \in Base : Fund(c)
    \/ \E op \in Op : Finalize(op)
    \/ \E lost \in SUBSET Op : Reorganize(lost)

\* What an operator does about a request that the alarm cannot bring to an end: its
\* draft was never finished, or its signature was asked for and lost.
Resolve(r) ==
    /\ First(Unsettled, r)
    /\ handler["alarm"].pc \notin {"build", "save", "mark", "sign", "store"}
    /\ rows[r].status = "processing" /\ ~rows[r].signed
    /\ EndUnsigned(r) \/ (rows[r].phase = "signature-started" /\ CancelSigned(r))

Fairness ==
    /\ WF_vars(\E r \in Request : AdmitSchedule(r))
    /\ WF_vars(AlarmStep)
    /\ WF_vars(Cancellation("operator"))
    /\ WF_vars(Resume /\ stops # {})
    /\ SF_vars(\E r \in Request : Resolve(r))
    /\ WF_vars(\E op \in Op : Finalize(op))

Spec == Init /\ [][Next]_vars
FairSpec == Spec /\ Fairness

-----------------------------------------------------------------------------
(* Properties.                                                               *)

\* A request that ended without distribution is not paid afterwards, as long as
\* finalized history stands: whoever ended it, and however late its transaction
\* becomes final (endUndistributedReward, advanceSignedCancellation).
EndedNeverPaid ==
    fork = 0 => \A r \in Request : rows[r].status = "ended" => executed[Pay(r)] = None

\* What was promised and is not paid yet is covered by coins the distributor has
\* (admitReward compares a total read before its transaction).
Backed ==
    fork = 0 => AmountOf({r \in ActiveReservations : executed[Pay(r)] = None}) <= WorthOf(Available)

\* No coin is in the signed operations of two requests that may both be paid
\* (reward_inputs), with one exception: an input that a final cancellation did not
\* consume was given back and taken again, and a reorganisation of finalized history
\* took that cancellation away.
InputsExclusive ==
    \A q, r \in Request :
        /\ q # r
        /\ {rows[q].phase, rows[r].phase} = {"signature-started"}
        /\ "ended" \notin {rows[q].status, rows[r].status}
        => \A c \in rows[q].coins \cap rows[r].coins :
              fork > 0 /\ \E p \in {q, r} : cancels[p].checkpoint # None /\ cancels[p].input # c

\* The reservation of funds is given back exactly when the request is settled,
\* and taken again when a reorganisation unsettles it (invalidateAfterReorg).
ReservationsMatch ==
    \A r \in Request : rows[r].released <=> rows[r].status \in {"finalized", "received", "ended"}

\* While something is left to do and distribution may go on, the alarm is set or
\* running: no early return and no failure of runRewardAlarm forgets the queue.
WorkScheduled ==
    Unsettled # {} /\ Reason \in {"healthy", "rpc-unavailable"} =>
        alarm \/ ~At("alarm", "idle") \/ \E r \in Request : Admitting(r, "schedule")

\* A signature is asked for only when every request accepted earlier is settled
\* (runRewardAlarm: always in acceptance order).
InOrder ==
    [][\A r \in Request :
          rows[r].phase # "signature-started" /\ rows'[r].phase = "signature-started"
          => \A i, j \in DOMAIN queue :
                i < j /\ queue[j] = r => rows[queue[i]].status \in {"finalized", "received", "ended"}]_vars

\* The queue is always worked off again: every accepted request comes to be paid or
\* ended, whatever failures, restarts, stops and operators come between.
Settled == []<>(Unsettled = {})

\* A stop for want of gas ends: the operator, having seen to the balance, can resume
\* (resumeRewardForDeployment's gasReady).
GasStopEnds == Reason = "gas-short" ~> Reason # "gas-short"
=============================================================================
