--------------------------- MODULE PaymentClient ---------------------------
(***************************************************************************)
(* packages/uniswap/src/process.ts and recovery.ts with the ports of        *)
(* packages/cli/src (payment-owner.ts, payment-submitter.ts,                *)
(* payment-journal.ts): one Pay, authorized, sent, resumed, retried or      *)
(* replaced by several processes of its owner, over a reservation service   *)
(* whose answers may be lost or late, against a chain that reorganizes.     *)
(*                                                                          *)
(* A run is one call of the client.  The immutable part of the record is    *)
(* that of the one Pay.  A bundle is told apart by the run that encrypted   *)
(* it and its revision (its nonce), and by whether it holds the signatures. *)
(* A run creates at most one attempt, whose id is the run's.  The service's *)
(* own interleavings are the subject of ReservationStore.                   *)
(***************************************************************************)
EXTENDS Integers, Sequences, FiniteSets, SequencesExt

CONSTANTS
    Tab,          \* processes of the owner, on one owner store
    Deadline,     \* the deadline of the Pay
    MaxBlockTime, \* bound: block time
    MaxRuns,      \* bound: calls of the client
    Outside,      \* the exported Pay, sent by another submitter
    Rival,        \* another operation of the owner on the same input
    Elsewhere,    \* which of the two there are
    NoRow

ASSUME ClientAssumption ==
    /\ {Deadline, MaxBlockTime, MaxRuns} \subseteq Nat
    /\ Outside # Rival /\ {Outside, Rival} \cap Nat = {}
    /\ Elsewhere \subseteq {Outside, Rival}

Attempt == 1..MaxRuns

\* The record as the service stores it, or a client would have it stored.
PayRecord == [revision : Nat, state : {"active", "released"}, started : BOOLEAN,
              attempts : Seq(Attempt), run : Nat, signed : BOOLEAN]

ASSUME NoRowAssumption == NoRow \notin PayRecord

VARIABLES
    row,        \* the record at the service, or NoRow
    requests,   \* writes on their way to the service
    tab,        \* Tab -> what its run is doing
    runs,       \* calls of the client so far
    signatures, \* wallet signatures that exist
    progress,   \* the owner store's PaymentProgress holds both signatures
    journal,    \* payment-journal.json: attempt -> state
    txs,        \* attempt or elsewhere -> its transaction: state, and the block time it is in
    blocks,     \* time of the latest and of the finalized block
    successor   \* the changed terms are prepared

varsClient == <<row, requests, tab, runs, signatures, progress, journal, txs, blocks, successor>>

Idle == [pc |-> "idle", run |-> 0, action |-> "none", did |-> "none", saved |-> NoRow,
         want |-> NoRow, signed |-> FALSE, evidence |-> <<>>]

InitClient ==
    /\ row = NoRow /\ requests = {} /\ runs = 0
    /\ tab = [c \in Tab |-> Idle]
    /\ signatures = {} /\ progress = FALSE
    /\ journal = [a \in Attempt |-> "absent"]
    /\ txs = [t \in Attempt \cup Elsewhere |-> [state |-> "none", at |-> 0]]
    /\ blocks = [latest |-> 0, final |-> 0]
    /\ successor = FALSE

-----------------------------------------------------------------------------
(* The chain.                                                                *)

Final(t) == txs[t].at <= blocks.final
Paid == \E t \in DOMAIN txs \ {Rival} : txs[t].state = "success"
InputSpent == \E t \in DOMAIN txs : txs[t].state = "success"
PaidFinally == \E t \in DOMAIN txs \ {Rival} : txs[t].state = "success" /\ Final(t)
InputSpentFinally == \E t \in DOMAIN txs : txs[t].state = "success" /\ Final(t)

\* The clients judge the deadline by the finalized block, estimates of gas by the latest.
DeadlineLive == blocks.final < Deadline

\* A Pay may also fail for its price; nothing executes on a spent input.
Mine(t) ==
    /\ txs[t].state = "sent" /\ blocks.latest < MaxBlockTime
    /\ blocks' = [blocks EXCEPT !.latest = @ + 1]
    /\ \E result \in {"success", "failure"} :
          /\ result = "success" => ~InputSpent /\ (t # Rival => blocks'.latest <= Deadline)
          /\ txs' = [txs EXCEPT ![t] = [state |-> result, at |-> blocks'.latest]]
    /\ UNCHANGED <<row, requests, tab, runs, signatures, progress, journal, successor>>

EmptyMine ==
    /\ blocks.latest < MaxBlockTime
    /\ blocks' = [blocks EXCEPT !.latest = @ + 1]
    /\ UNCHANGED <<row, requests, tab, runs, signatures, progress, journal, txs, successor>>

MineFinal ==
    /\ blocks.final < blocks.latest
    /\ blocks' = [blocks EXCEPT !.final = blocks.latest]
    /\ UNCHANGED <<row, requests, tab, runs, signatures, progress, journal, txs, successor>>

\* Blocks above the finalized one are replaced; their transactions wait again.
MineAgain ==
    /\ blocks.final < blocks.latest
    /\ blocks' = [blocks EXCEPT !.latest = blocks.final]
    /\ txs' = [t \in DOMAIN txs |-> IF txs[t].at > blocks.final THEN [state |-> "sent", at |-> 0]
                                    ELSE txs[t]]
    /\ UNCHANGED <<row, requests, tab, runs, signatures, progress, journal, successor>>

\* `pay submit` of the exported file with another account and its own journal,
\* once; or another operation of the owner on the same input.
ForeignSend(t) ==
    /\ txs[t].state = "none" /\ ~InputSpent
    /\ t = Outside => progress /\ blocks.latest <= Deadline
    /\ txs' = [txs EXCEPT ![t].state = "sent"]
    /\ UNCHANGED <<row, requests, tab, runs, signatures, progress, journal, blocks, successor>>

-----------------------------------------------------------------------------
(* Writes to the service, and recoverAck.                                    *)

\* The run's next row: what it holds, one revision on, under a new nonce.
Rewritten(c, base) == [base EXCEPT !.revision = @ + 1, !.run = tab[c].run]

Write(c, did, new) ==
    /\ requests' = requests \cup {[did |-> did, new |-> new]}
    /\ tab' = [tab EXCEPT ![c].pc = "waiting", ![c].did = did, ![c].want = new]

\* store.ts putOperation and releaseOperation, for one request sent once.
Accepted(q) ==
    IF row = NoRow THEN q.new.revision = 1 /\ ~InputSpent
    ELSE /\ row.state = "active" /\ q.new.revision = row.revision + 1
         /\ row.started => q.new.started
         /\ IsPrefix(row.attempts, q.new.attempts)
         /\ q.did = "release" =>
               /\ row.started = q.new.started /\ row.attempts = q.new.attempts
               /\ blocks.final > Deadline /\ ~InputSpent

\* The answer, if the run still waits for it, may be lost.  Requests the new
\* row lets the service only refuse are dropped.
Serve(q) ==
    /\ row' = IF Accepted(q) THEN q.new ELSE row
    /\ requests' = {p \in requests \ {q} : row' = NoRow \/ row'.revision < p.new.revision}
    /\ tab' \in {[c \in Tab |-> IF tab[c].pc # "waiting" \/ tab[c].want # q.new THEN tab[c]
                               ELSE IF heard /\ Accepted(q)
                               THEN [tab[c] EXCEPT !.pc = "ready", !.saved = q.new]
                               ELSE [tab[c] EXCEPT !.pc = "reread"]] : heard \in BOOLEAN}
    /\ UNCHANGED <<runs, signatures, progress, journal, txs, blocks, successor>>

\* The client gives up waiting; the request is lost, or arrives later.
WriteTimesOut(c) ==
    /\ tab[c].pc = "waiting"
    /\ tab' = [tab EXCEPT ![c].pc = "reread"]
    /\ requests' \in {requests, {q \in requests : q.new # tab[c].want}}
    /\ UNCHANGED <<row, runs, signatures, progress, journal, txs, blocks, successor>>

\* A variant: the bundle read back is not compared.
OwnWriteAnyBundle(want) ==
    /\ row # NoRow
    /\ [row EXCEPT !.run = want.run] = want

OwnWrite(want) == row = want

\* A failed release is followed by a GET whatever it shows (prepareChangedTerms).
Reread(c) ==
    /\ tab[c].pc = "reread"
    /\ tab[c].did = "release" \/ OwnWrite(tab[c].want)
    /\ tab' = [tab EXCEPT ![c].pc = "ready", ![c].saved = row]
    /\ UNCHANGED <<row, requests, runs, signatures, progress, journal, txs, blocks, successor>>

\* Any refusal, failed read, expired term or crash ends the run where it is.
\* (The operator frees the submission lock a crash leaves behind.)
Stop(c) ==
    /\ tab[c].pc # "idle"
    /\ tab' = [tab EXCEPT ![c] = Idle]
    /\ UNCHANGED <<row, requests, runs, signatures, progress, journal, txs, blocks, successor>>

-----------------------------------------------------------------------------
(* authorize, and the steps resumeOriginal and submitRecovered share with it.*)

Authorize(c, action) ==
    /\ tab[c].pc = "idle" /\ runs < MaxRuns
    /\ DeadlineLive /\ ~InputSpent
    /\ runs' = runs + 1
    /\ LET first == [revision |-> 1, state |-> "active", started |-> FALSE,
                     attempts |-> <<>>, run |-> runs + 1, signed |-> FALSE]
       IN /\ requests' = requests \cup {[did |-> "reserve", new |-> first]}
          /\ tab' = [tab EXCEPT ![c] = [Idle EXCEPT !.pc = "waiting", !.run = runs + 1,
                        !.action = action, !.did = "reserve", !.want = first]]
    /\ UNCHANGED <<row, signatures, progress, journal, txs, blocks, successor>>

Ready(c, did) == tab[c].pc = "ready" /\ tab[c].did \in did

WriteStarted(c) ==
    /\ Ready(c, {"reserve", "resume"})
    /\ ~tab[c].saved.started /\ ~tab[c].signed /\ DeadlineLive
    /\ Write(c, "start", [Rewritten(c, tab[c].saved) EXCEPT !.started = TRUE])
    /\ UNCHANGED <<row, runs, signatures, progress, journal, txs, blocks, successor>>

\* A variant: the wallet is asked before the start is written.
MaySignAnyTime(c) == ~tab[c].signed

MaySign(c) == tab[c].saved.started /\ ~tab[c].signed

\* The wallet signs the pool operation, and then the payment unless the term
\* has passed or the owner refuses.
Sign(c) ==
    /\ Ready(c, {"reserve", "start", "resume"})
    /\ MaySign(c) /\ DeadlineLive
    /\ \/ /\ signatures' = signatures \cup {"pool"}
          /\ tab' = [tab EXCEPT ![c] = Idle]
          /\ UNCHANGED requests
       \/ /\ signatures' = {"pool", "payment"}
          /\ LET new == [Rewritten(c, tab[c].saved) EXCEPT !.signed = TRUE]
             IN /\ requests' = requests \cup {[did |-> "sign", new |-> new]}
                /\ tab' = [tab EXCEPT ![c].pc = "waiting", ![c].did = "sign",
                                      ![c].want = new, ![c].signed = TRUE]
    /\ UNCHANGED <<row, runs, progress, journal, txs, blocks, successor>>

\* recoverSignedCliPay takes the signatures out of the stored bundle.
StoredSignatures == row # NoRow /\ row.state = "active" /\ row.revision >= 3 /\ row.signed

\* `pay authorize` ends here.
FinishExport(c) ==
    /\ Ready(c, {"sign"}) /\ tab[c].action = "export" /\ StoredSignatures
    /\ progress' = TRUE
    /\ tab' = [tab EXCEPT ![c] = Idle]
    /\ UNCHANGED <<row, requests, runs, signatures, journal, txs, blocks, successor>>

WriteAttempt(c) ==
    /\ Ready(c, {"sign", "resume", "retry"})
    /\ tab[c].signed /\ tab[c].action # "export"
    /\ tab[c].action # "authorize" => DeadlineLive /\ ~InputSpent
    /\ Write(c, "attempt", [Rewritten(c, tab[c].saved) EXCEPT !.attempts = Append(@, tab[c].run)])
    /\ UNCHANGED <<row, runs, signatures, progress, journal, txs, blocks, successor>>

\* A variant: the journal is written after the send.
SendBeforeJournal(c) ==
    /\ Ready(c, {"attempt"}) /\ DeadlineLive /\ StoredSignatures
    /\ \A d \in Tab : tab[d].pc \notin {"sending", "sent", "unsure"}
    /\ blocks.latest <= Deadline /\ ~InputSpent
    /\ progress' = TRUE
    /\ tab' = [tab EXCEPT ![c].pc = "sending"]
    /\ UNCHANGED <<row, requests, runs, signatures, journal, txs, blocks, successor>>

\* submitAttempt and submitPublicPayment, under the submission lock: the gas
\* estimate runs the Pay on the latest block, and the journal is written first.
JournalAttempt(c) ==
    /\ Ready(c, {"attempt"}) /\ DeadlineLive /\ StoredSignatures
    /\ \A d \in Tab : tab[d].pc \notin {"sending", "sent", "unsure"}
    /\ blocks.latest <= Deadline /\ ~InputSpent
    /\ progress' = TRUE
    /\ journal' = [journal EXCEPT ![tab[c].run] = "prepared"]
    /\ tab' = [tab EXCEPT ![c].pc = "sending"]
    /\ UNCHANGED <<row, requests, runs, signatures, txs, blocks, successor>>

\* The answer of sendTransaction may be lost, with or without the transaction.
Send(c) ==
    /\ tab[c].pc = "sending"
    /\ \/ /\ txs' = [txs EXCEPT ![tab[c].run].state = "sent"]
          /\ \E pc \in {"sent", "unsure"} : tab' = [tab EXCEPT ![c].pc = pc]
       \/ tab' = [tab EXCEPT ![c].pc = "unsure"] /\ UNCHANGED txs
    /\ UNCHANGED <<row, requests, runs, signatures, progress, journal, blocks, successor>>

RecordSend(c) ==
    /\ \/ /\ tab[c].pc = "sent"
          /\ journal' = [journal EXCEPT ![tab[c].run] = "pending"]
          /\ tab' = [tab EXCEPT ![c].pc = "ready", ![c].did = "submit"]
       \/ /\ tab[c].pc = "unsure"
          /\ journal' = [journal EXCEPT ![tab[c].run] = "unknown"]
          /\ tab' = [tab EXCEPT ![c] = Idle]
    /\ UNCHANGED <<row, requests, runs, signatures, progress, txs, blocks, successor>>

\* A variant: only the hash is sealed.
PersistOnlyHash(c) ==
    /\ Ready(c, {"submit"})
    /\ Write(c, "hash", [Rewritten(c, tab[c].saved) EXCEPT !.signed = FALSE])
    /\ UNCHANGED <<row, runs, signatures, progress, journal, txs, blocks, successor>>

PersistKnownHash(c) ==
    /\ Ready(c, {"submit"})
    /\ Write(c, "hash", Rewritten(c, tab[c].saved))
    /\ UNCHANGED <<row, runs, signatures, progress, journal, txs, blocks, successor>>

-----------------------------------------------------------------------------
(* recover: the evidence is read, the record is read again, then judged.     *)

\* A variant: the receipt's block is not compared with the finalized one.
OutcomeAtTip(a) ==
    IF journal[a] = "pending" /\ txs[a].state = "failure" THEN "finalized-failure" ELSE "unknown"

\* Only a journal row with a hash is followed to its receipt.
Outcome(a) ==
    IF journal[a] = "pending" /\ txs[a].state = "failure" /\ Final(a)
    THEN "finalized-failure" ELSE "unknown"

Evidence ==
    [time |-> blocks.final, succeeded |-> PaidFinally, spent |-> InputSpentFinally,
     outcomes |-> [a \in Attempt |-> Outcome(a)]]

RecoverRead(c, action) ==
    /\ tab[c].pc = "idle" /\ runs < MaxRuns /\ row # NoRow
    /\ runs' = runs + 1
    /\ tab' = [tab EXCEPT ![c] = [Idle EXCEPT !.pc = "evidence", !.run = runs + 1,
                                  !.action = action, !.saved = row, !.evidence = Evidence]]
    /\ UNCHANGED <<row, requests, signatures, progress, journal, txs, blocks, successor>>

\* A variant: an unresolved attempt does not stand in the way.
InspectIgnoringUnknown(saved, e, active) ==
    IF e.succeeded THEN "complete"
    ELSE IF ~active \/ e.spent THEN "blocked"
    ELSE IF e.time > Deadline THEN "change-terms"
    ELSE IF saved.attempts # <<>> THEN "retry-attempt" ELSE "resume-original"

\* inspectOperation.  An attempt is not-submitted for no port of this code.
Inspect(saved, e, active) ==
    IF e.succeeded THEN "complete"
    ELSE IF ~active \/ e.spent THEN "blocked"
    ELSE IF \E i \in DOMAIN saved.attempts : e.outcomes[saved.attempts[i]] # "finalized-failure" THEN "recheck"
    ELSE IF e.time > Deadline THEN "change-terms"
    ELSE IF saved.attempts # <<>> THEN "retry-attempt" ELSE "resume-original"

Judged(c) ==
    /\ tab[c].pc = "evidence"
    /\ row.revision = tab[c].saved.revision /\ row.state = tab[c].saved.state
    /\ row.attempts = tab[c].saved.attempts
    /\ tab[c].action = Inspect(tab[c].saved, tab[c].evidence,
                               row.state = "active" \/ tab[c].action = "change-terms")

\* restoreOriginal.
ResumeOriginal(c) ==
    /\ Judged(c) /\ tab[c].action = "resume-original"
    /\ LET stored == tab[c].saved.revision >= 3
           signed == stored \/ progress
       IN /\ stored => StoredSignatures
          /\ signed => tab[c].saved.started
          /\ progress' = signed
          /\ tab' = [tab EXCEPT ![c].pc = "ready", ![c].did = "resume", ![c].signed = signed,
                                ![c].evidence = <<>>]
    /\ UNCHANGED <<row, requests, runs, signatures, journal, txs, blocks, successor>>

\* restoreForRetry.
RetryAttempt(c) ==
    /\ Judged(c) /\ tab[c].action = "retry-attempt"
    /\ tab[c].saved.started /\ progress
    /\ tab' = [tab EXCEPT ![c].pc = "ready", ![c].did = "retry", ![c].signed = TRUE,
                          ![c].evidence = <<>>]
    /\ UNCHANGED <<row, requests, runs, signatures, progress, journal, txs, blocks, successor>>

\* releaseOriginal, or a release that an earlier run has already made.
ChangeTerms(c) ==
    /\ Judged(c) /\ tab[c].action = "change-terms"
    /\ LET released == [Rewritten(c, tab[c].saved) EXCEPT !.state = "released", !.signed = FALSE]
       IN IF row.state = "released"
          THEN /\ tab' = [tab EXCEPT ![c].pc = "ready", ![c].did = "release", ![c].want = row,
                                     ![c].evidence = <<>>]
               /\ UNCHANGED requests
          ELSE /\ requests' = requests \cup {[did |-> "release", new |-> released]}
               /\ tab' = [tab EXCEPT ![c].pc = "waiting", ![c].did = "release",
                                     ![c].want = released, ![c].evidence = <<>>]
    /\ UNCHANGED <<row, runs, signatures, progress, journal, txs, blocks, successor>>

\* A variant: the record is not read again after the release.
ReleaseUnchecked(c) == row # NoRow

\* prepareChangedTerms compares what release, list and get show.
ReleaseConfirmed(c) == row.state = "released" /\ row.revision = tab[c].want.revision

PrepareSuccessor(c) ==
    /\ Ready(c, {"release"}) /\ ReleaseConfirmed(c)
    /\ ~InputSpent
    /\ successor' = TRUE
    /\ tab' = [tab EXCEPT ![c] = Idle]
    /\ UNCHANGED <<row, requests, runs, signatures, progress, journal, txs, blocks>>

-----------------------------------------------------------------------------
TabStep(c) ==
    \/ \E action \in {"authorize", "export"} : Authorize(c, action)
    \/ WriteStarted(c) \/ Sign(c) \/ FinishExport(c) \/ WriteAttempt(c)
    \/ JournalAttempt(c) \/ Send(c) \/ RecordSend(c) \/ PersistKnownHash(c)
    \/ \E action \in {"resume-original", "retry-attempt", "change-terms"} : RecoverRead(c, action)
    \/ ResumeOriginal(c) \/ RetryAttempt(c) \/ ChangeTerms(c) \/ PrepareSuccessor(c)
    \/ WriteTimesOut(c) \/ Reread(c) \/ Stop(c)

NextClient ==
    \/ \E c \in Tab : TabStep(c)
    \/ \E q \in requests : Serve(q)
    \/ \E t \in Attempt \cup Elsewhere : Mine(t)
    \/ \E t \in Elsewhere : ForeignSend(t)
    \/ EmptyMine \/ MineFinal \/ MineAgain

SpecClient == InitClient /\ [][NextClient]_varsClient
-----------------------------------------------------------------------------
\* The wallet is asked for a signature only after "signature started" is
\* stored at the service, whatever answers were lost on the way (process.ts).
SignedAfterStarted == signatures # {} => row # NoRow /\ row.started

\* What payment-owner.ts takes for granted of process.ts: an active record at
\* revision 3 or later holds the signatures, along every path that writes one.
RevisionCarriesSignatures ==
    row # NoRow /\ row.state = "active" /\ row.revision >= 3 => row.signed

\* After a lost answer recoverAck never takes another process's write of the
\* same revision for its own: two runs never go on from one written revision.
OneHolder ==
    \A c, d \in Tab :
        c # d /\ Ready(c, {"reserve", "start", "sign", "attempt"})
              /\ Ready(d, {"reserve", "start", "sign", "attempt"})
        => tab[c].saved.revision # tab[d].saved.revision

\* A transaction of the client exists only if the service's record and the
\* journal name its attempt, so that every later run sees it.
SentIsRecorded ==
    \A a \in Attempt : txs[a].state # "none" =>
        /\ journal[a] # "absent"
        /\ \E i \in DOMAIN row.attempts : row.attempts[i] = a

Unresolved(t) == txs[t].state # "none" /\ ~(txs[t].state = "failure" /\ Final(t))

\* Two transactions of the client for the Pay never await their result at
\* once: an attempt is repeated only when the earlier ones have failed for good.
OneUnresolved ==
    \A a1, a2 \in Attempt : a1 # a2 => ~(Unresolved(a1) /\ Unresolved(a2))

\* Changed terms are prepared only when no continuation of the chain can
\* execute the first authorization, whoever holds a copy of it.
SuccessorOnlyWhenDead ==
    successor => row.state = "released" /\ blocks.final > Deadline /\ ~Paid
=============================================================================
