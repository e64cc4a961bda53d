------------------------- MODULE ConsolidationProofs -------------------------
(***************************************************************************)
(* EndedIsQuiet and FewRounds of RewardConsolidation for every set of coins,*)
(* every amount and any number of rounds, failures and restarts.  Which     *)
(* coins a round merges does not matter for the first, so the drafts stay   *)
(* opaque there; the second is about what a draft leaves.                   *)
(***************************************************************************)
EXTENDS RewardConsolidation, SumProofs, TLAPS

Phases == {"claimed", "signature-started", "raw-saved", "finalized"}

RowFields == {"phase", "inputs", "outputs", "signed", "checkpoint"}

(* The rows form a sequence of records, whatever coins they name.            *)
RowsTyped ==
    /\ \E S : rounds \in Seq(S)
    /\ Len(rounds) <= MaxRounds
    /\ \A k \in 1..Len(rounds) :
          /\ rounds[k] = [f \in RowFields |-> rounds[k][f]]
          /\ rounds[k].phase \in Phases

HistoryTyped ==
    /\ settled \in [1..MaxRounds -> Nat \cup {Never}]
    /\ era \in Nat

(* A signature is kept only in a phase that says so.                         *)
SignedLate ==
    \A k \in 1..Len(rounds) : rounds[k].signed => rounds[k].phase # "claimed"

(* Only the latest round is in progress.                                     *)
OneInProgress ==
    \A k \in 1..Len(rounds) : k < Len(rounds) => rounds[k].phase = "finalized"

(* What the database calls finalized is so, as long as history stands.       *)
FinalIsFinal ==
    era = 0 => \A k \in 1..Len(rounds) : rounds[k].phase = "finalized" => settled[k] # Never

(* What the handler takes for granted of the latest round.                   *)
HandlerKnows ==
    /\ job.pc \in {"build", "save"} =>
          Len(rounds) > 0 /\ rounds[Len(rounds)].phase = "claimed"
    /\ job.pc \in {"sign", "keep", "prepare", "raw", "observe", "send"} =>
          /\ Len(rounds) > 0
          /\ rounds[Len(rounds)].phase \in {"signature-started", "raw-saved"}

(* A request is ended only between rounds.                                   *)
EndedBetween ==
    request = "ended" => \A k \in 1..Len(rounds) : rounds[k].phase \in {"claimed", "finalized"}

IFunds ==
    /\ RowsTyped
    /\ HistoryTyped
    /\ SignedLate
    /\ OneInProgress
    /\ FinalIsFinal
    /\ HandlerKnows
    /\ EndedBetween

-----------------------------------------------------------------------------
\* The invariant holds initially.
LEMMA RoundsInit == InitFunds => IFunds
<1> SUFFICES ASSUME InitFunds PROVE IFunds
    OBVIOUS
<1>1. rounds = <<>> /\ Len(rounds) = 0 /\ rounds \in Seq({})
    BY DEF InitFunds
<1>2. RowsTyped
    BY <1>1, ConsolidationAssumption DEF RowsTyped
<1>3. HistoryTyped
    BY DEF InitFunds, HistoryTyped
<1>4. SignedLate /\ OneInProgress /\ FinalIsFinal /\ EndedBetween
    BY <1>1 DEF SignedLate, OneInProgress, FinalIsFinal, EndedBetween
<1>5. HandlerKnows
    BY DEF InitFunds, AtRest, HandlerKnows
<1> QED
    BY <1>2, <1>3, <1>4, <1>5 DEF IFunds

(* A step that writes no row and ends nothing.                               *)
LEMMA RowsKept ==
    ASSUME IFunds, UNCHANGED <<rounds, settled, era>>,
           request' = "ended" => request = "ended", HandlerKnows'
    PROVE  IFunds'
<1>1. RowsTyped' /\ HistoryTyped'
    BY DEF IFunds, RowsTyped, HistoryTyped
<1>2. SignedLate' /\ OneInProgress' /\ FinalIsFinal'
    BY DEF IFunds, SignedLate, OneInProgress, FinalIsFinal
<1>3. EndedBetween'
    BY DEF IFunds, EndedBetween
<1> QED
    BY <1>1, <1>2, <1>3 DEF IFunds

(* A new row at the end.                                                     *)
LEMMA RowAppended ==
    ASSUME NEW row, RowsTyped, Len(rounds) < MaxRounds,
           row = [f \in RowFields |-> row[f]], row.phase \in Phases,
           rounds' = Append(rounds, row)
    PROVE  /\ RowsTyped'
           /\ Len(rounds') = Len(rounds) + 1 /\ Len(rounds) \in Nat
           /\ rounds'[Len(rounds) + 1] = row
           /\ \A k \in 1..Len(rounds) : rounds'[k] = rounds[k]
<1>1. PICK S : rounds \in Seq(S)
    BY DEF RowsTyped
<1>2. rounds \in Seq(S \cup {row})
    BY <1>1
<1>3. rounds' \in Seq(S \cup {row})
    BY <1>2
<1>4. /\ Len(rounds') = Len(rounds) + 1 /\ Len(rounds) \in Nat
      /\ rounds'[Len(rounds) + 1] = row
      /\ \A k \in 1..Len(rounds) : rounds'[k] = rounds[k]
    BY <1>2
<1>5. MaxRounds \in Nat
    BY ConsolidationAssumption
<1>6. \A k \in 1..Len(rounds') :
          rounds'[k] = [f \in RowFields |-> rounds'[k][f]] /\ rounds'[k].phase \in Phases
    <2> SUFFICES ASSUME NEW k \in 1..Len(rounds')
                 PROVE  rounds'[k] = [f \in RowFields |-> rounds'[k][f]] /\ rounds'[k].phase \in Phases
        OBVIOUS
    <2>1. CASE k \in 1..Len(rounds)
        BY <1>4, <2>1 DEF RowsTyped
    <2>2. CASE k = Len(rounds) + 1
        BY <1>4, <2>2
    <2> QED
        BY <1>4, <2>1, <2>2
<1> QED
    BY <1>3, <1>4, <1>5, <1>6 DEF RowsTyped

(* The latest row is replaced.                                               *)
LEMMA RowWritten ==
    ASSUME NEW row, RowsTyped, Len(rounds) > 0,
           row = [f \in RowFields |-> row[f]], row.phase \in Phases,
           rounds' = [rounds EXCEPT ![Len(rounds)] = row]
    PROVE  /\ RowsTyped'
           /\ Len(rounds') = Len(rounds) /\ Len(rounds) \in Nat
           /\ rounds'[Len(rounds)] = row
           /\ \A k \in 1..Len(rounds) : k # Len(rounds) => rounds'[k] = rounds[k]
<1>1. PICK S : rounds \in Seq(S)
    BY DEF RowsTyped
<1>2. rounds \in Seq(S \cup {row})
    BY <1>1
<1>3. rounds' \in Seq(S \cup {row})
    BY <1>2
<1>4. /\ Len(rounds') = Len(rounds) /\ Len(rounds) \in Nat
      /\ rounds'[Len(rounds)] = row
      /\ \A k \in 1..Len(rounds) : k # Len(rounds) => rounds'[k] = rounds[k]
    BY <1>2
<1>5. \A k \in 1..Len(rounds') :
          rounds'[k] = [f \in RowFields |-> rounds'[k][f]] /\ rounds'[k].phase \in Phases
    BY <1>4 DEF RowsTyped
<1> QED
    BY <1>3, <1>4, <1>5 DEF RowsTyped

-----------------------------------------------------------------------------
(* Steps that write no row.                                                  *)
Rest == UNCHANGED <<rounds, settled, era>> /\ (request' = "ended" => request = "ended")

\* The steps before a round is saved keep the invariant.
LEMMA FirstSteps ==
    ASSUME IFunds, StartJob \/ VerifyRounds \/ ReadFunds \/ BuildRound \/ ShortOfFunds
    PROVE  IFunds'
<1>1. CASE StartJob
    <2>1. Rest
        BY <1>1 DEF StartJob, KeepAll, KeepRecords, poolState, Rest
    <2>2. job'.pc \in {"verify", "rest"}
        BY <1>1 DEF StartJob, AtRest
    <2> QED
        BY <2>1, <2>2, RowsKept DEF Rest, HandlerKnows
<1>2. CASE VerifyRounds
    <2>1. Rest
        BY <1>2 DEF VerifyRounds, NodeFails, KeepAll, KeepRecords, poolState, Rest
    <2>2. job'.pc \in {"funds", "rest"}
        BY <1>2 DEF VerifyRounds, NodeFails, Raise, AtRest
    <2> QED
        BY <2>1, <2>2, RowsKept DEF Rest, HandlerKnows
<1>3. CASE ReadFunds
    <2>1. Rest
        BY <1>3 DEF ReadFunds, NodeFails, KeepAll, KeepRecords, poolState, Rest
    <2>2. job'.pc \in {"decide", "rest"}
        BY <1>3 DEF ReadFunds, NodeFails, Raise, GoOn, AtRest
    <2> QED
        BY <2>1, <2>2, RowsKept DEF Rest, HandlerKnows
<1>4. CASE BuildRound
    <2>1. Rest
        BY <1>4 DEF BuildRound, NodeFails, KeepAll, KeepRecords, poolState, Rest
    <2>2. job'.pc \in {"save", "rest"} /\ job.pc = "build"
        BY <1>4 DEF BuildRound, NodeFails, Raise, GoOn, AtRest, Working
    <2>3. HandlerKnows'
        BY <2>1, <2>2 DEF Rest, IFunds, HandlerKnows
    <2> QED
        BY <2>1, <2>3, RowsKept DEF Rest
<1>5. CASE ShortOfFunds
    <2>1. Rest
        BY <1>5 DEF ShortOfFunds, KeepAll, KeepRecords, poolState, Rest
    <2>2. job'.pc = "rest"
        BY <1>5 DEF ShortOfFunds, Raise, AtRest
    <2> QED
        BY <2>1, <2>2, RowsKept DEF Rest, HandlerKnows
<1> QED
    BY <1>1, <1>2, <1>3, <1>4, <1>5

\* The steps after it that write no round keep the invariant.
LEMMA LaterSteps ==
    ASSUME IFunds, ResumeRound \/ FoundInputs \/ SignRound \/ PrepareRound \/ SendRound
    PROVE  IFunds'
<1>1. CASE ResumeRound
    <2>1. Rest
        BY <1>1 DEF ResumeRound, KeepAll, KeepRecords, poolState, Rest
    <2>2. \/ job'.pc = "rest"
          \/ /\ job'.pc \in {"sign", "observe"}
             /\ rounds # <<>> /\ rounds[Len(rounds)].phase \in {"signature-started", "raw-saved"}
        BY <1>1 DEF ResumeRound, Open, Row, This, Raise, GoOn, AtRest
    <2>3. HandlerKnows'
        <3>1. PICK S : rounds \in Seq(S)
            BY DEF IFunds, RowsTyped
        <3> QED
            BY <2>1, <2>2, <3>1 DEF Rest, HandlerKnows
    <2> QED
        BY <2>1, <2>3, RowsKept DEF Rest
<1>2. CASE FoundInputs
    <2>1. Rest
        BY <1>2 DEF FoundInputs, Stopped, KeepAll, KeepRecords, poolState, Rest
    <2>2. job'.pc = "rest"
        BY <1>2 DEF FoundInputs, Stopped, Finish, GoOn, Raise, AtRest
    <2> QED
        BY <2>1, <2>2, RowsKept DEF Rest, HandlerKnows
<1>3. CASE SignRound
    <2>1. Rest
        BY <1>3 DEF SignRound, Stopped, KeepAll, KeepRecords, poolState, Rest
    <2>2. job'.pc \in {"prepare", "keep", "rest"} /\ job.pc = "sign"
        BY <1>3 DEF SignRound, Stopped, Raise, GoOn, AtRest, Working
    <2>3. HandlerKnows'
        BY <2>1, <2>2 DEF Rest, IFunds, HandlerKnows
    <2> QED
        BY <2>1, <2>3, RowsKept DEF Rest
<1>4. CASE PrepareRound
    <2>1. Rest
        BY <1>4 DEF PrepareRound, Stopped, NodeFails, KeepAll, KeepRecords, poolState, Rest
    <2>2. job'.pc \in {"raw", "rest"} /\ job.pc = "prepare"
        BY <1>4 DEF PrepareRound, Stopped, NodeFails, Raise, GoOn, AtRest, Working
    <2>3. HandlerKnows'
        BY <2>1, <2>2 DEF Rest, IFunds, HandlerKnows
    <2> QED
        BY <2>1, <2>3, RowsKept DEF Rest
<1>5. CASE SendRound
    <2>1. Rest
        BY <1>5 DEF SendRound, Stopped, KeepAll, KeepRecords, poolState, Rest
    <2>2. job'.pc = "rest"
        BY <1>5 DEF SendRound, Stopped, Finish, Raise, AtRest
    <2> QED
        BY <2>1, <2>2, RowsKept DEF Rest, HandlerKnows
<1> QED
    BY <1>1, <1>2, <1>3, <1>4, <1>5

\* Deposits, stops and restarts keep the invariant.
LEMMA OutsideSteps ==
    ASSUME IFunds,
           \/ HaltDistribution \/ ResumeDistribution \/ RestartObject
           \/ \E c \in Piece : DepositPiece(c)
           \/ UNCHANGED varsFunds
    PROVE  IFunds'
<1>1. Rest
    <2>1. CASE HaltDistribution
        BY <2>1 DEF HaltDistribution, KeepRecords, poolState, Rest
    <2>2. CASE ResumeDistribution
        <3>1. KeepAll
            BY <2>2 DEF ResumeDistribution
        <3> QED
            BY <3>1 DEF KeepAll, KeepRecords, poolState, Rest
    <2>3. CASE RestartObject
        BY <2>3 DEF RestartObject, KeepRecords, poolState, Rest
    <2>4. CASE \E c \in Piece : DepositPiece(c)
        BY <2>4 DEF DepositPiece, Rest
    <2>5. CASE UNCHANGED varsFunds
        BY <2>5 DEF varsFunds, poolState, Rest
    <2> QED
        BY <2>1, <2>2, <2>3, <2>4, <2>5
<1>2. job' = job \/ job'.pc = "rest"
    <2>1. CASE ResumeDistribution
        <3>1. UNCHANGED job
            BY <2>1 DEF ResumeDistribution
        <3> QED
            BY <3>1
    <2>2. CASE ~ResumeDistribution
        BY <2>2 DEF HaltDistribution, RestartObject, DepositPiece, varsFunds, AtRest
    <2> QED
        BY <2>1, <2>2
<1>3. HandlerKnows'
    BY <1>1, <1>2 DEF Rest, IFunds, HandlerKnows
<1> QED
    BY <1>1, <1>3, RowsKept DEF Rest

-----------------------------------------------------------------------------
(* Steps that write a row.                                                   *)
LEMMA ClaimRoundStep == ASSUME IFunds, ClaimRound PROVE IFunds'
<1>1. CASE Rest /\ job'.pc = "rest"
    BY <1>1, RowsKept DEF Rest, HandlerKnows
<1>2. CASE UNCHANGED rounds
    <2>1. Rest
        BY <1>2 DEF ClaimRound, Stopped, KeepAll, KeepRecords, KeepOther, poolState, Rest
    <2>2. job'.pc = "rest" \/ rounds' # rounds
        <3> DEFINE row == [phase |-> "claimed", inputs |-> {}, outputs |-> <<>>,
                           signed |-> FALSE, checkpoint |-> Never]
        <3>1. CASE rounds' = Append(rounds, row)
            <4>1. PICK S : rounds \in Seq(S)
                BY DEF IFunds, RowsTyped
            <4>2. rounds \in Seq(S \cup {row})
                BY <4>1
            <4>3. Len(rounds') = Len(rounds) + 1 /\ Len(rounds) \in Nat
                BY <3>1, <4>2
            <4> QED
                BY <4>3
        <3>2. CASE rounds' # Append(rounds, row)
            BY <3>2 DEF ClaimRound, Stopped, Raise, AtRest
        <3> QED
            BY <3>1, <3>2
    <2> QED
        BY <1>2, <2>1, <2>2, <1>1
<1>3. CASE ~UNCHANGED rounds
    <2> DEFINE row == [phase |-> "claimed", inputs |-> {}, outputs |-> <<>>,
                       signed |-> FALSE, checkpoint |-> Never]
    <2>1. /\ ~Open /\ request = "accepted" /\ Len(rounds) < MaxRounds
          /\ rounds' = Append(rounds, row)
          /\ job'.pc = "build"
          /\ UNCHANGED <<request, settled, era>>
        BY <1>3 DEF ClaimRound, Stopped, KeepAll, KeepRecords, KeepOther, poolState, GoOn
    <2>2. row = [f \in RowFields |-> row[f]] /\ row.phase = "claimed" /\ row.signed = FALSE
        BY DEF RowFields
    <2> HIDE DEF row
    <2>3. row.phase \in Phases
        BY <2>2 DEF Phases
    <2>4. /\ RowsTyped'
          /\ Len(rounds') = Len(rounds) + 1 /\ Len(rounds) \in Nat
          /\ rounds'[Len(rounds) + 1] = row
          /\ \A k \in 1..Len(rounds) : rounds'[k] = rounds[k]
        BY <2>1, <2>2, <2>3, RowAppended DEF IFunds
    <2>5. \A k \in 1..Len(rounds) : rounds[k].phase = "finalized"
        <3>1. CASE Len(rounds) = 0
            BY <3>1
        <3>2. CASE Len(rounds) # 0
            <4>1. rounds # <<>>
                BY <3>2
            <4>2. rounds[Len(rounds)].phase = "finalized"
                BY <2>1, <4>1 DEF Open, Row, This
            <4> QED
                BY <4>2, <2>4 DEF IFunds, OneInProgress
        <3> QED
            BY <3>1, <3>2
    <2>6. SignedLate' /\ OneInProgress'
        BY <2>2, <2>4, <2>5 DEF IFunds, SignedLate, OneInProgress
    <2>7. FinalIsFinal'
        BY <2>1, <2>2, <2>4 DEF IFunds, FinalIsFinal
    <2>8. HandlerKnows' /\ EndedBetween'
        BY <2>1, <2>2, <2>4 DEF HandlerKnows, EndedBetween
    <2>9. HistoryTyped'
        BY <2>1 DEF IFunds, HistoryTyped
    <2> QED
        BY <2>4, <2>6, <2>7, <2>8, <2>9 DEF IFunds
<1> QED
    BY <1>2, <1>3

(* The latest round's row is written, as unfinished as it was.               *)
LEMMA RowAdvanced ==
    ASSUME NEW row, IFunds, Len(rounds) > 0,
           row = [f \in RowFields |-> row[f]], row.phase \in {"signature-started", "raw-saved"},
           rounds' = [rounds EXCEPT ![Len(rounds)] = row],
           request # "ended", UNCHANGED <<request, settled, era>>,
           job'.pc \in {"sign", "prepare", "observe"}
    PROVE  IFunds'
<1>1. row.phase \in Phases
    BY DEF Phases
<1>2. /\ RowsTyped'
      /\ Len(rounds') = Len(rounds) /\ Len(rounds) \in Nat
      /\ rounds'[Len(rounds)] = row
      /\ \A k \in 1..Len(rounds) : k # Len(rounds) => rounds'[k] = rounds[k]
    BY <1>1, RowWritten DEF IFunds
<1>3. SignedLate' /\ OneInProgress'
    BY <1>2 DEF IFunds, SignedLate, OneInProgress
<1>4. FinalIsFinal'
    BY <1>2 DEF IFunds, FinalIsFinal
<1>5. HandlerKnows' /\ EndedBetween'
    BY <1>2 DEF HandlerKnows, EndedBetween
<1>6. HistoryTyped'
    BY DEF IFunds, HistoryTyped
<1> QED
    BY <1>2, <1>3, <1>4, <1>5, <1>6 DEF IFunds

\* The round that is saved merges pieces that are there.
LEMMA SaveRoundStep == ASSUME IFunds, SaveRound PROVE IFunds'
<1>1. CASE KeepAll /\ job'.pc = "rest"
    <2>1. Rest
        BY <1>1 DEF KeepAll, KeepRecords, poolState, Rest
    <2> QED
        BY <1>1, <2>1, RowsKept DEF Rest, HandlerKnows
<1>2. CASE ~(KeepAll /\ job'.pc = "rest")
    <2> DEFINE row == [rounds[Len(rounds)] EXCEPT !.phase = "signature-started",
                            !.inputs = job.draft.inputs, !.outputs = job.draft.outputs]
    <2>1. /\ request = "accepted" /\ job.pc = "save" /\ job'.pc = "sign"
          /\ rounds' = [rounds EXCEPT ![Len(rounds)] = row]
          /\ UNCHANGED <<request, settled, era>>
        BY <1>2 DEF SaveRound, Stopped, Raise, AtRest, Working, StillAsked, Write, Row, This, GoOn,
                    KeepOther, poolState
    <2>2. Len(rounds) > 0 /\ Len(rounds) \in 1..Len(rounds)
        <3>1. PICK S : rounds \in Seq(S)
            BY DEF IFunds, RowsTyped
        <3> QED
            BY <2>1, <3>1 DEF IFunds, HandlerKnows
    <2>3. rounds[Len(rounds)] = [f \in RowFields |-> rounds[Len(rounds)][f]]
        BY <2>2 DEF IFunds, RowsTyped
    <2>4. row = [f \in RowFields |-> row[f]] /\ row.phase = "signature-started"
        BY <2>3 DEF RowFields
    <2> HIDE DEF row
    <2> QED
        BY <2>1, <2>2, <2>4, RowAdvanced
<1> QED
    BY <1>1, <1>2

\* The saved signature keeps the invariant.
LEMMA KeepSignatureStep == ASSUME IFunds, KeepSignature PROVE IFunds'
<1> DEFINE row == [rounds[Len(rounds)] EXCEPT !.signed = TRUE]
<1>1. /\ job.pc = "keep" /\ job'.pc = "prepare"
      /\ rounds' = [rounds EXCEPT ![Len(rounds)] = row]
      /\ UNCHANGED <<request, settled, era>>
    BY DEF KeepSignature, Working, Write, Row, This, GoOn, KeepOther, poolState
<1>2. /\ Len(rounds) > 0 /\ Len(rounds) \in 1..Len(rounds)
      /\ rounds[Len(rounds)].phase \in {"signature-started", "raw-saved"}
    <2>1. PICK S : rounds \in Seq(S)
        BY DEF IFunds, RowsTyped
    <2> QED
        BY <1>1, <2>1 DEF IFunds, HandlerKnows
<1>3. rounds[Len(rounds)] = [f \in RowFields |-> rounds[Len(rounds)][f]]
    BY <1>2 DEF IFunds, RowsTyped
<1>4. row = [f \in RowFields |-> row[f]] /\ row.phase = rounds[Len(rounds)].phase
    BY <1>3 DEF RowFields
<1>5. request # "ended"
    BY <1>2 DEF IFunds, EndedBetween
<1> HIDE DEF row
<1> QED
    BY <1>1, <1>2, <1>4, <1>5, RowAdvanced

\* The saved transaction keeps the invariant.
LEMMA SaveRawStep == ASSUME IFunds, SaveRaw PROVE IFunds'
<1>1. CASE KeepAll /\ job'.pc = "rest"
    <2>1. Rest
        BY <1>1 DEF KeepAll, KeepRecords, poolState, Rest
    <2> QED
        BY <1>1, <2>1, RowsKept DEF Rest, HandlerKnows
<1>2. CASE ~(KeepAll /\ job'.pc = "rest")
    <2> DEFINE row == [rounds[Len(rounds)] EXCEPT !.phase = "raw-saved"]
    <2>1. /\ job.pc = "raw" /\ job'.pc = "observe"
          /\ rounds' = [rounds EXCEPT ![Len(rounds)] = row]
          /\ UNCHANGED <<request, settled, era>>
        BY <1>2 DEF SaveRaw, Stopped, Raise, AtRest, Working, Write, Row, This, GoOn, KeepOther,
                    poolState
    <2>2. /\ Len(rounds) > 0 /\ Len(rounds) \in 1..Len(rounds)
          /\ rounds[Len(rounds)].phase \in {"signature-started", "raw-saved"}
        <3>1. PICK S : rounds \in Seq(S)
            BY DEF IFunds, RowsTyped
        <3> QED
            BY <2>1, <3>1 DEF IFunds, HandlerKnows
    <2>3. rounds[Len(rounds)] = [f \in RowFields |-> rounds[Len(rounds)][f]]
        BY <2>2 DEF IFunds, RowsTyped
    <2>4. row = [f \in RowFields |-> row[f]] /\ row.phase = "raw-saved"
        BY <2>3 DEF RowFields
    <2>5. request # "ended"
        BY <2>2 DEF IFunds, EndedBetween
    <2> HIDE DEF row
    <2> QED
        BY <2>1, <2>2, <2>4, <2>5, RowAdvanced
<1> QED
    BY <1>1, <1>2

\* The observation of a round keeps the invariant.
LEMMA ObserveRoundStep == ASSUME IFunds, ObserveRound PROVE IFunds'
<1>1. CASE KeepAll \/ KeepRecords
    <2>1. Rest
        BY <1>1 DEF KeepAll, KeepRecords, poolState, Rest
    <2>2. job'.pc \in {"rest", "send"} /\ job.pc = "observe"
        BY DEF ObserveRound, NodeFails, Raise, Finish, GoOn, AtRest, Working
    <2>3. HandlerKnows'
        BY <2>1, <2>2 DEF Rest, IFunds, HandlerKnows
    <2> QED
        BY <2>1, <2>3, RowsKept DEF Rest
<1>2. CASE ~(KeepAll \/ KeepRecords)
    <2> DEFINE row == [rounds[Len(rounds)] EXCEPT !.phase = "finalized",
                                                  !.checkpoint = settled[Len(rounds)]]
    <2>1. /\ job.pc = "observe" /\ job'.pc = "rest"
          /\ settled[Len(rounds)] # Never
          /\ rounds' = [rounds EXCEPT ![Len(rounds)] = row]
          /\ UNCHANGED <<request, settled, era>>
        BY <1>2 DEF ObserveRound, NodeFails, IsFinal, Finish, AtRest, Working, Write, Row, This, GoOn,
                    KeepOther, poolState
    <2>2. Len(rounds) > 0 /\ Len(rounds) \in 1..Len(rounds)
        <3>1. PICK S : rounds \in Seq(S)
            BY DEF IFunds, RowsTyped
        <3> QED
            BY <2>1, <3>1 DEF IFunds, HandlerKnows
    <2>3. rounds[Len(rounds)] = [f \in RowFields |-> rounds[Len(rounds)][f]]
        BY <2>2 DEF IFunds, RowsTyped
    <2>4. row = [f \in RowFields |-> row[f]] /\ row.phase = "finalized"
        BY <2>3, Zenon DEF RowFields
    <2> HIDE DEF row
    <2>5. row.phase \in Phases
        BY <2>4 DEF Phases
    <2>6. /\ RowsTyped'
          /\ Len(rounds') = Len(rounds) /\ Len(rounds) \in Nat
          /\ rounds'[Len(rounds)] = row
          /\ \A k \in 1..Len(rounds) : k # Len(rounds) => rounds'[k] = rounds[k]
        BY <2>1, <2>2, <2>4, <2>5, RowWritten DEF IFunds
    <2>7. SignedLate' /\ OneInProgress'
        BY <2>4, <2>6 DEF IFunds, SignedLate, OneInProgress
    <2>8. FinalIsFinal'
        BY <2>1, <2>6, Zenon DEF IFunds, FinalIsFinal
    <2>9. HandlerKnows'
        BY <2>1 DEF HandlerKnows
    <2>10. EndedBetween'
        BY <2>1, <2>4, <2>6 DEF IFunds, EndedBetween
    <2>11. HistoryTyped'
        BY <2>1 DEF IFunds, HistoryTyped
    <2> QED
        BY <2>6, <2>7, <2>8, <2>9, <2>10, <2>11 DEF IFunds
<1> QED
    BY <1>1, <1>2

-----------------------------------------------------------------------------
(* The operator ends the request; the chain's history goes on or back.       *)
LEMMA EndRequestStep == ASSUME IFunds, EndRequest PROVE IFunds'
<1>1. UNCHANGED <<rounds, settled, era, job>>
    BY DEF EndRequest, poolState
<1>2. RowsTyped' /\ HistoryTyped' /\ HandlerKnows'
    BY <1>1 DEF IFunds, RowsTyped, HistoryTyped, HandlerKnows
<1>3. SignedLate' /\ OneInProgress' /\ FinalIsFinal'
    BY <1>1 DEF IFunds, SignedLate, OneInProgress, FinalIsFinal
<1>4. \A k \in 1..Len(rounds) : rounds[k].phase \in {"claimed", "finalized"}
    <2> SUFFICES ASSUME NEW k \in 1..Len(rounds) PROVE rounds[k].phase \in {"claimed", "finalized"}
        OBVIOUS
    <2>1. PICK S : rounds \in Seq(S)
        BY DEF IFunds, RowsTyped
    <2>2. rounds # <<>> /\ Len(rounds) \in 1..Len(rounds)
        BY <2>1
    <2>3. rounds[Len(rounds)].phase \in {"claimed", "finalized"}
        BY <2>2 DEF EndRequest, MayEnd, Row, This, IFunds, RowsTyped, Phases
    <2> QED
        BY <2>1, <2>3 DEF IFunds, OneInProgress
<1>5. EndedBetween'
    BY <1>1, <1>4 DEF EndedBetween
<1> QED
    BY <1>2, <1>3, <1>5 DEF IFunds

\* A round becomes final only with its pieces.
LEMMA SettleRoundStep ==
    ASSUME IFunds, NEW r \in relayed, SettleRound(r)
    PROVE  IFunds'
<1>1. /\ UNCHANGED <<rounds, request, job, era>>
      /\ settled' = [settled EXCEPT ![r] = era]
    BY DEF SettleRound
<1>2. era \in Nat /\ era # Never
    BY ConsolidationAssumption DEF IFunds, HistoryTyped
<1>3. HistoryTyped'
    BY <1>1, <1>2 DEF IFunds, HistoryTyped
<1>4. \A k \in 1..MaxRounds : settled'[k] = settled[k] \/ settled'[k] # Never
    BY <1>1, <1>2 DEF IFunds, HistoryTyped
<1>5. RowsTyped' /\ HandlerKnows' /\ EndedBetween' /\ SignedLate' /\ OneInProgress'
    BY <1>1 DEF IFunds, RowsTyped, HandlerKnows, EndedBetween, SignedLate, OneInProgress
<1>6. \A k \in 1..Len(rounds) : k \in 1..MaxRounds
    <2>1. PICK S : rounds \in Seq(S)
        BY DEF IFunds, RowsTyped
    <2> QED
        BY <2>1, ConsolidationAssumption DEF IFunds, RowsTyped
<1>7. FinalIsFinal'
    BY <1>1, <1>4, <1>6 DEF IFunds, FinalIsFinal
<1> QED
    BY <1>3, <1>5, <1>7 DEF IFunds

\* A reorganisation keeps the invariant.
LEMMA UndoRoundsStep ==
    ASSUME IFunds, NEW lost, UndoRounds(lost)
    PROVE  IFunds'
<1>1. /\ UNCHANGED <<rounds, request, job>>
      /\ settled' = [k \in DOMAIN settled |-> IF k \in lost THEN Never ELSE settled[k]]
      /\ era' = era + 1
    BY DEF UndoRounds
<1>2. era' \in Nat /\ era' # 0
    BY <1>1 DEF IFunds, HistoryTyped
<1>3. HistoryTyped'
    BY <1>1, <1>2 DEF IFunds, HistoryTyped
<1>4. RowsTyped' /\ HandlerKnows' /\ EndedBetween' /\ SignedLate' /\ OneInProgress'
    BY <1>1 DEF IFunds, RowsTyped, HandlerKnows, EndedBetween, SignedLate, OneInProgress
<1>5. FinalIsFinal'
    BY <1>2 DEF FinalIsFinal
<1> QED
    BY <1>3, <1>4, <1>5 DEF IFunds

-----------------------------------------------------------------------------
\* The invariant holds in every reachable state.
LEMMA FundsInvariant == SpecFunds => []IFunds
<1>1. IFunds /\ [NextFunds]_varsFunds => IFunds'
    <2> SUFFICES ASSUME IFunds, [NextFunds]_varsFunds PROVE IFunds'
        OBVIOUS
    <2>1. CASE StartJob \/ VerifyRounds
        BY <2>1, FirstSteps
    <2>2. CASE RoundStep
        BY <2>2, FirstSteps, LaterSteps, ClaimRoundStep, SaveRoundStep, KeepSignatureStep, SaveRawStep,
           ObserveRoundStep DEF RoundStep
    <2>3. CASE EndRequest
        BY <2>3, EndRequestStep
    <2>4. CASE \/ HaltDistribution \/ ResumeDistribution \/ RestartObject
               \/ \E c \in Piece : DepositPiece(c)
               \/ UNCHANGED varsFunds
        BY <2>4, OutsideSteps
    <2>5. CASE \E k \in relayed : SettleRound(k)
        BY <2>5, SettleRoundStep
    <2>6. CASE \E lost \in SUBSET (1..MaxRounds) : UndoRounds(lost)
        BY <2>6, UndoRoundsStep
    <2> QED
        BY <2>1, <2>2, <2>3, <2>4, <2>5, <2>6 DEF NextFunds
<1> QED
    BY RoundsInit, <1>1, PTL DEF SpecFunds

(* A request that was ended is paid nothing: when nothing that was final is   *)
(* lost, every round signed for it is final.                                 *)
THEOREM EndedForGood == SpecFunds => []EndedIsQuiet
<1>1. IFunds => EndedIsQuiet
    <2> SUFFICES ASSUME IFunds, era = 0, request = "ended",
                        NEW k \in DOMAIN rounds, Row(k).signed
                 PROVE  IsFinal(k)
        BY DEF EndedIsQuiet
    <2>1. PICK S : rounds \in Seq(S)
        BY DEF IFunds, RowsTyped
    <2>2. k \in 1..Len(rounds)
        BY <2>1
    <2>3. rounds[k].phase # "claimed"
        BY <2>2 DEF IFunds, SignedLate, Row
    <2>4. rounds[k].phase = "finalized"
        BY <2>2, <2>3 DEF IFunds, EndedBetween
    <2> QED
        BY <2>2, <2>4 DEF IFunds, FinalIsFinal, IsFinal
<1> QED
    BY FundsInvariant, <1>1, PTL

-----------------------------------------------------------------------------
(***************************************************************************)
(* FewRounds, for every set of coins and any amounts.  Every round that is  *)
(* final has left one coin less, except one whose coins exceed Limit; that  *)
(* one leaves a coin with which any request can be paid, and no further     *)
(* round is begun.  The handler reads the funds twice with awaits between,  *)
(* so the invariant says what each read still means.                        *)
(***************************************************************************)
Deposited == Cardinality(Piece)
Count == Len(rounds)

\* What Draft makes: two coins become one, or the largest possible and the rest.
Merging(d) ==
    /\ IsFiniteSet(d.inputs) /\ Cardinality(d.inputs) = 2
    /\ \E v \in 1..Limit : d.outputs = <<v>> \/ d.outputs = <<Limit, v>>

\* The coins that the k-th round may find.
Reach(k) == supply \cup ((Deposited + 1)..(Deposited + 2 * (k - 1)))

Merges ==
    \A k \in 1..Count : rounds[k].phase # "claimed" =>
        Merging(rounds[k]) /\ rounds[k].inputs \subseteq Reach(k)

\* Only what was saved is sent, and only what was sent becomes final.
Relays ==
    /\ \A k \in relayed : k \in 1..Count /\ rounds[k].phase # "claimed"
    /\ \A k \in 1..MaxRounds : IsFinal(k) => k \in relayed

\* The latest round leaves a coin that suffices for every request.
Abundant == Count > 0 /\ IsFinal(Count) /\ Len(rounds[Count].outputs) = 2

\* The rounds that are final.
Merged == IF Count > 0 /\ ~IsFinal(Count) THEN Count - 1 ELSE Count

Counted ==
    /\ Abundant => Output(Count, 1) \in Unspent
    /\ ~Abundant => Cardinality(Unspent) = Cardinality(supply) - Merged

\* What the handler has read: the funds it decides on, and the draft it saves.
Read ==
    /\ job.pc = "decide" /\ ~Open =>
          job.funds \subseteq Unspent /\ (Abundant => Output(Count, 1) \in job.funds)
    /\ job.pc = "save" => Merging(job.draft) /\ job.draft.inputs \subseteq Reach(Count)

Settling == Merges /\ Relays /\ Counted /\ Read /\ FewRounds

IRounds ==
    /\ supply \subseteq Piece /\ need \in 1..Limit
    /\ era = 0 => Settling

\* The constants, and what the rows are.
LEMMA CoinsAre ==
    /\ Deposited \in Nat /\ Piece = 1..Deposited /\ IsFiniteSet(Piece) /\ Limit \in Nat
    /\ \A c \in Piece : Value[c] \in 1..Limit
BY ConsolidationAssumption, FS_CardinalityType DEF Deposited

LEMMA RowsAre ==
    ASSUME IFunds
    PROVE  /\ Count \in Nat /\ Count <= MaxRounds /\ MaxRounds \in Nat /\ DOMAIN rounds = 1..Count
           /\ rounds = <<>> <=> Count = 0
           /\ \A k \in 1..Count : k \in 1..MaxRounds /\ rounds[k].phase \in Phases
           /\ \A k \in 1..Count : k < Count => rounds[k].phase = "finalized"
           /\ era = 0 => \A k \in 1..Count : rounds[k].phase = "finalized" => IsFinal(k)
<1>1. PICK S : rounds \in Seq(S)
  BY DEF IFunds, RowsTyped
<1>2. Count \in Nat /\ DOMAIN rounds = 1..Count /\ (rounds = <<>> <=> Count = 0)
  BY <1>1 DEF Count
<1>3. Count <= MaxRounds /\ \A k \in 1..Count : rounds[k].phase \in Phases
  BY DEF IFunds, RowsTyped, Count
<1>4. \A k \in 1..Count : k < Count => rounds[k].phase = "finalized"
  BY DEF IFunds, OneInProgress, Count
<1>5. era = 0 => \A k \in 1..Count : rounds[k].phase = "finalized" => IsFinal(k)
  BY DEF IFunds, FinalIsFinal, IsFinal, Count
<1> QED BY <1>2, <1>3, <1>4, <1>5, ConsolidationAssumption

\* The outputs of a merger have one place each, after the pieces and those of
\* earlier rounds; their amounts are in the range.
LEMMA OutputsAre ==
    ASSUME NEW k \in Nat \ {0}, Merging(rounds[k])
    PROVE  /\ Output(k, 1) = Deposited + 2 * k - 1 /\ Output(k, 2) = Deposited + 2 * k
           /\ \/ OutputsOf(k) = {Output(k, 1)} /\ Len(rounds[k].outputs) = 1
              \/ /\ OutputsOf(k) = {Output(k, 1), Output(k, 2)} /\ Len(rounds[k].outputs) = 2
                 /\ Amount(Output(k, 1)) = Limit
           /\ OutputsOf(k) \subseteq (Deposited + 2 * k - 1)..(Deposited + 2 * k)
           /\ \A c \in OutputsOf(k) : Amount(c) \in 1..Limit
<1> DEFINE o == rounds[k].outputs
<1>1. Output(k, 1) = Deposited + 2 * k - 1 /\ Output(k, 2) = Deposited + 2 * k
  BY CoinsAre DEF Output, Deposited
<1>2. ASSUME NEW i \in {1, 2} PROVE Amount(Output(k, i)) = o[i]
  <2> DEFINE n == Output(k, i) - Cardinality(Piece) - 1
  <2>1. n = 2 * (k - 1) + (i - 1) /\ Output(k, i) > Deposited
    BY CoinsAre DEF Output, Deposited
  <2>2. Output(k, i) \notin Piece
    BY <2>1, CoinsAre
  <2>3. n \div 2 = k - 1 /\ n % 2 = i - 1
    BY <2>1
  <2>4. (n \div 2) + 1 = k /\ (n % 2) + 1 = i
    BY <2>3
  <2>5. Amount(Output(k, i)) = rounds[(n \div 2) + 1].outputs[(n % 2) + 1]
    BY <2>2 DEF Amount
  <2> QED BY <2>4, <2>5
<1>3. PICK v \in 1..Limit : o = <<v>> \/ o = <<Limit, v>>
  BY DEF Merging
<1>4. v \in 1..Limit /\ Limit \in 1..Limit
  BY CoinsAre
<1>5. CASE o = <<v>>
  <2>1. DOMAIN o = {1} /\ Len(o) = 1 /\ o[1] = v
    BY <1>5
  <2>2. OutputsOf(k) = {Output(k, 1)}
    BY <2>1 DEF OutputsOf
  <2>3. Amount(Output(k, 1)) = v
    BY <1>2, <2>1
  <2> HIDE DEF o
  <2>4. OutputsOf(k) \subseteq (Deposited + 2 * k - 1)..(Deposited + 2 * k)
    BY <1>1, <2>2, CoinsAre
  <2> QED BY <1>1, <2>1, <2>2, <2>3, <2>4 DEF o
<1>6. CASE o = <<Limit, v>>
  <2>1. DOMAIN o = {1, 2} /\ Len(o) = 2 /\ o[1] = Limit /\ o[2] = v
    BY <1>6
  <2>2. OutputsOf(k) = {Output(k, 1), Output(k, 2)}
    BY <2>1 DEF OutputsOf
  <2>3. Amount(Output(k, 1)) = Limit /\ Amount(Output(k, 2)) = v
    BY <1>2, <2>1
  <2> HIDE DEF o
  <2>4. OutputsOf(k) \subseteq (Deposited + 2 * k - 1)..(Deposited + 2 * k)
    BY <1>1, <2>2, CoinsAre
  <2> QED BY <1>1, <1>4, <2>1, <2>2, <2>3, <2>4 DEF o
<1> QED BY <1>3, <1>5, <1>6

\* What a final round is.
LEMMA FinalRound ==
    ASSUME IFunds, IRounds, era = 0, NEW k \in DOMAIN rounds, IsFinal(k)
    PROVE  k \in 1..Count /\ k \in Nat \ {0} /\ Merging(rounds[k]) /\ rounds[k].inputs \subseteq Reach(k)
<1>1. k \in 1..Count /\ k \in 1..MaxRounds
  BY RowsAre
<1>2. rounds[k].phase # "claimed"
  BY <1>1 DEF IRounds, Settling, Relays
<1> QED BY <1>1, <1>2 DEF IRounds, Settling, Merges

\* The coins that rounds have made or used so far, if the k-th and later are not final.
LEMMA Known ==
    ASSUME IFunds, IRounds, era = 0, NEW k \in Nat \ {0},
           \A j \in DOMAIN rounds : IsFinal(j) => j < k
    PROVE  /\ Unspent \subseteq Reach(k) /\ Taken \subseteq Reach(k) /\ supply \subseteq 1..Deposited
           /\ IsFiniteSet(Unspent) /\ Cardinality(Unspent) \in Nat
           /\ IsFiniteSet(supply) /\ Cardinality(supply) \in Nat
           /\ \A c \in Unspent : c \in Nat /\ Amount(c) \in 1..Limit
<1>1. supply \subseteq 1..Deposited /\ Deposited \in Nat
  BY CoinsAre DEF IRounds
<1>2. ASSUME NEW j \in DOMAIN rounds, IsFinal(j)
      PROVE  /\ OutputsOf(j) \subseteq Reach(k) /\ rounds[j].inputs \subseteq Reach(k)
             /\ \A c \in OutputsOf(j) : Amount(c) \in 1..Limit
  <2>1. j \in Nat \ {0} /\ j < k /\ Merging(rounds[j]) /\ rounds[j].inputs \subseteq Reach(j)
    BY <1>2, FinalRound
  <2>2. /\ OutputsOf(j) \subseteq (Deposited + 2 * j - 1)..(Deposited + 2 * j)
        /\ \A c \in OutputsOf(j) : Amount(c) \in 1..Limit
    BY <2>1, OutputsAre
  <2>3. OutputsOf(j) \subseteq Reach(k)
    BY <1>1, <2>1, <2>2 DEF Reach
  <2>4. rounds[j].inputs \subseteq Reach(k)
    BY <1>1, <2>1 DEF Reach
  <2> QED BY <2>2, <2>3, <2>4
<1>3. supply \subseteq Reach(k)
  BY DEF Reach
<1>4. Unspent \subseteq Reach(k)
  BY <1>2, <1>3 DEF Unspent
<1>5. Taken \subseteq Reach(k)
  BY <1>2 DEF Taken
<1>6. IsFiniteSet(supply) /\ IsFiniteSet(Reach(k))
  <2>1. IsFiniteSet(1..Deposited) /\ IsFiniteSet((Deposited + 1)..(Deposited + 2 * (k - 1)))
    BY <1>1, FS_Interval
  <2>2. IsFiniteSet(supply)
    BY <1>1, <2>1, FS_Subset
  <2> QED BY <2>1, <2>2, FS_Union DEF Reach
<1>7. IsFiniteSet(Unspent)
  BY <1>4, <1>6, FS_Subset
<1>8. ASSUME NEW c \in Unspent PROVE c \in Nat /\ Amount(c) \in 1..Limit
  <2>1. c \in Nat
    BY <1>1, <1>4 DEF Reach
  <2>2. CASE c \in supply
    BY <2>2, CoinsAre DEF IRounds, Amount
  <2>3. CASE c \notin supply
    <3>1. PICK j \in DOMAIN rounds : IsFinal(j) /\ c \in OutputsOf(j)
      BY <2>3 DEF Unspent
    <3>2. Amount(c) \in 1..Limit
      BY <1>2, <3>1
    <3> QED BY <2>1, <3>2
  <2> QED BY <2>1, <2>2, <2>3
<1> QED BY <1>1, <1>4, <1>5, <1>6, <1>7, <1>8, FS_CardinalityType

-----------------------------------------------------------------------------
(* Totals, and what the selections find.                                     *)

\* A total is a sum over the coins.
LEMMA TotalSums ==
    ASSUME NEW S, IsFiniteSet(S), \A c \in S : Amount(c) \in Nat
    PROVE  Total(S) = SumOver([c \in S |-> Amount(c)], S)
<1> DEFINE g == [c \in S |-> Amount(c)]
           Body(F, s) == IF s = {} THEN 0 ELSE Amount(Chosen(s)) + F[s \ {Chosen(s)}]
           G == CHOOSE F : F = [s \in SUBSET S |-> Body(F, s)]
<1>1. Total(S) = G[S]
  BY DEF Total, MapThenSumSet, MapThenFoldSet, Chosen
<1>2. \A F : FoldedBy(F, g, S) <=> F = [s \in SUBSET S |-> Body(F, s)]
  <2> SUFFICES ASSUME NEW F
               PROVE  FoldedBy(F, g, S) <=> F = [s \in SUBSET S |-> Body(F, s)]
    OBVIOUS
  <2>1. \A s \in SUBSET S : s # {} => Amount(Chosen(s)) = g[Chosen(s)]
    BY ChosenIn
  <2>2. [s \in SUBSET S |-> Body(F, s)]
          = [s \in SUBSET S |-> IF s = {} THEN 0 ELSE g[Chosen(s)] + F[s \ {Chosen(s)}]]
    <3> HIDE DEF g
    <3> QED BY <2>1
  <2> QED BY <2>2 DEF FoldedBy
<1>3. \A x \in S : g[x] \in Int
  OBVIOUS
<1> HIDE DEF g
<1>4. \E F : FoldedBy(F, g, S)
  BY <1>3, FoldsExist
<1> HIDE DEF Body
<1>5. G = [s \in SUBSET S |-> Body(G, s)]
  BY <1>2, <1>4
<1> HIDE DEF G
<1>6. FoldedBy(G, g, S)
  BY <1>2, <1>5
<1>7. SumOver(g, S) = G[S]
  BY <1>3, <1>6, SumValue
<1> QED BY <1>1, <1>7 DEF g

\* The totals of at most two coins.
LEMMA SmallTotals ==
    /\ Total({}) = 0
    /\ \A a : Amount(a) \in Nat => Total({a}) = Amount(a)
    /\ \A a, b : a # b /\ Amount(a) \in Nat /\ Amount(b) \in Nat =>
          Total({a, b}) = Amount(a) + Amount(b)
<1>1. Total({}) = 0
  <2>1. IsFiniteSet({})
    BY FS_EmptySet
  <2>2. Total({}) = SumOver([c \in {} |-> Amount(c)], {})
    BY <2>1, TotalSums
  <2> QED BY <2>1, <2>2, SumType
<1>2. ASSUME NEW g, NEW a, g[a] \in Nat PROVE SumOver(g, {a}) = g[a]
  <2>1. IsFiniteSet({}) /\ a \notin {} /\ {} \cup {a} = {a} /\ SumOver(g, {}) = 0
    BY FS_EmptySet, SumType
  <2>2. SumOver(g, {} \cup {a}) = g[a] + SumOver(g, {})
    <3>1. \A x \in {} \cup {a} : g[x] \in Int
      BY <1>2
    <3> QED BY <2>1, <3>1, SumWith
  <2> QED BY <1>2, <2>1, <2>2
<1>3. ASSUME NEW a, Amount(a) \in Nat PROVE Total({a}) = Amount(a)
  <2> DEFINE g == [c \in {a} |-> Amount(c)]
  <2>1. IsFiniteSet({a})
    BY FS_Singleton
  <2>2. Total({a}) = SumOver(g, {a})
    BY <1>3, <2>1, TotalSums
  <2>3. g[a] = Amount(a)
    OBVIOUS
  <2> HIDE DEF g
  <2> QED BY <1>2, <1>3, <2>2, <2>3
<1>4. ASSUME NEW a, NEW b, a # b, Amount(a) \in Nat, Amount(b) \in Nat
      PROVE  Total({a, b}) = Amount(a) + Amount(b)
  <2> DEFINE g == [c \in {a, b} |-> Amount(c)]
  <2>1. IsFiniteSet({b}) /\ {b} \cup {a} = {a, b} /\ a \notin {b}
    BY <1>4, FS_Singleton
  <2>2. IsFiniteSet({a, b})
    BY <2>1, FS_AddElement
  <2>3. Total({a, b}) = SumOver(g, {a, b})
    BY <1>4, <2>2, TotalSums
  <2>4. g[a] = Amount(a) /\ g[b] = Amount(b)
    OBVIOUS
  <2> HIDE DEF g
  <2>5. \A x \in {b} \cup {a} : g[x] \in Nat /\ g[x] \in Int
    BY <1>4, <2>4
  <2>6. SumOver(g, {b} \cup {a}) = g[a] + SumOver(g, {b})
    BY <2>1, <2>5, SumWith
  <2>7. SumOver(g, {b}) = g[b]
    BY <1>2, <2>5
  <2> QED BY <2>1, <2>3, <2>4, <2>6, <2>7
<1> QED BY <1>1, <1>3, <1>4

\* If nothing can be selected, no coin and no pair is feasible.
LEMMA NothingSelected ==
    ASSUME NEW S, S \subseteq Nat, SelectInputs(S) = {}
    PROVE  /\ \A c \in S : ~Feasible({c})
           /\ \A a, b \in S : a < b => ~Feasible({a, b})
<1>1. {c \in S : Feasible({c})} = {}
  BY DEF SelectInputs
<1>2. BestPair(S) = {}
  BY <1>1 DEF SelectInputs
<1>3. {p \in S \X S : p[1] < p[2] /\ Feasible({p[1], p[2]})} = {}
  BY <1>2 DEF BestPair
<1>4. ASSUME NEW a \in S, NEW b \in S, a < b, Feasible({a, b}) PROVE FALSE
  <2>1. <<a, b>> \in {p \in S \X S : p[1] < p[2] /\ Feasible({p[1], p[2]})}
    BY <1>4
  <2> QED BY <1>3, <2>1
<1> QED BY <1>1, <1>4

\* Sets of two and of three.
LEMMA TwoAndThree ==
    /\ \A a, b : a # b => IsFiniteSet({a, b}) /\ Cardinality({a, b}) = 2
    /\ \A a, b, c : a # b /\ c # a /\ c # b => Cardinality({a, b, c}) = 3
<1>1. ASSUME NEW a, NEW b, a # b PROVE IsFiniteSet({a, b}) /\ Cardinality({a, b}) = 2
  <2>1. PICK S : S = {a}
    OBVIOUS
  <2>2. IsFiniteSet(S) /\ Cardinality(S) = 1 /\ b \notin S
    BY <1>1, <2>1, FS_Singleton
  <2>3. IsFiniteSet(S \cup {b}) /\ Cardinality(S \cup {b}) = 2
    BY <2>2, FS_AddElement
  <2>4. S \cup {b} = {a, b}
    BY <2>1
  <2> QED BY <2>3, <2>4
<1>2. ASSUME NEW a, NEW b, NEW c, a # b, c # a, c # b PROVE Cardinality({a, b, c}) = 3
  <2>1. PICK S : S = {a, b}
    OBVIOUS
  <2>2. IsFiniteSet(S) /\ Cardinality(S) = 2 /\ c \notin S
    BY <1>1, <1>2, <2>1
  <2>3. Cardinality(S \cup {c}) = 3
    BY <2>2, FS_AddElement
  <2>4. S \cup {c} = {a, b, c}
    BY <2>1
  <2> QED BY <2>3, <2>4
<1> QED BY <1>1, <1>2

\* Coins that suffice together, but not one or two of them, are three at least;
\* none of them is as large as Limit.
LEMMA ThreeCoins ==
    ASSUME NEW S, S \subseteq Nat, IsFiniteSet(S), \A c \in S : Amount(c) \in 1..Limit,
           need \in 1..Limit, SelectInputs(S) = {}, Total(S) >= need
    PROVE  Cardinality(S) >= 3 /\ \A c \in S : Amount(c) # Limit
<1>1. \A c \in S : Amount(c) \in Nat /\ Amount(c) < need
  <2> SUFFICES ASSUME NEW c \in S PROVE Amount(c) \in Nat /\ Amount(c) < need
    OBVIOUS
  <2>1. Amount(c) \in Nat /\ Amount(c) <= Limit /\ Limit \in Nat /\ need \in Nat /\ need >= 1
    BY CoinsAre
  <2>2. ~Feasible({c})
    BY NothingSelected
  <2>3. Total({c}) = Amount(c)
    BY <2>1, SmallTotals
  <2> QED BY <2>1, <2>2, <2>3 DEF Feasible, Change
<1>2. \A c \in S : Amount(c) # Limit
  BY <1>1, CoinsAre
<1>3. Cardinality(S) \in Nat
  BY FS_CardinalityType
<1>4. CASE S = {}
  BY <1>4, SmallTotals
<1>5. CASE \E a : S = {a}
  <2>1. PICK a : S = {a}
    BY <1>5
  <2>2. Total(S) = Amount(a)
    BY <1>1, <2>1, SmallTotals
  <2> QED BY <1>1, <2>1, <2>2
<1>6. CASE \E a, b \in S : a < b /\ S = {a, b}
  <2>1. PICK a \in S, b \in S : a < b /\ S = {a, b}
    BY <1>6
  <2>2. Total(S) = Amount(a) + Amount(b)
    BY <1>1, <2>1, SmallTotals
  <2>3. ~Feasible(S)
    BY <2>1, NothingSelected
  <2>4. Amount(a) < need /\ Amount(b) < need /\ Amount(a) \in Nat /\ Amount(b) \in Nat
    BY <1>1
  <2>5. need <= Limit /\ Limit \in Nat /\ need \in Nat
    BY CoinsAre
  <2> QED BY <2>2, <2>3, <2>4, <2>5 DEF Feasible, Change
<1>7. CASE \E a, b, c \in S : a < b /\ c # a /\ c # b
  <2>1. PICK a \in S, b \in S, c \in S : a < b /\ c # a /\ c # b
    BY <1>7
  <2>4. a # b
    BY <2>1
  <2>2. Cardinality({a, b, c}) = 3
    BY <2>1, <2>4, TwoAndThree
  <2>3. {a, b, c} \subseteq S
    OBVIOUS
  <2>6. Cardinality(S) >= 3
    BY <1>3, <2>2, <2>3, FS_Subset
  <2> QED BY <1>2, <2>6
<1>8. \/ S = {} \/ (\E a : S = {a}) \/ (\E a, b \in S : a < b /\ S = {a, b})
      \/ \E a, b, c \in S : a < b /\ c # a /\ c # b
  <2> SUFFICES ASSUME S # {}, ~\E a : S = {a}
               PROVE  (\E a, b \in S : a < b /\ S = {a, b})
                        \/ \E a, b, c \in S : a < b /\ c # a /\ c # b
    OBVIOUS
  <2>1. PICK x \in S : TRUE
    OBVIOUS
  <2>2. PICK y \in S : y # x
    <3>1. S # {x}
      OBVIOUS
    <3> QED BY <2>1, <3>1
  <2>3. PICK a \in S, b \in S : a < b
    BY <2>1, <2>2
  <2>4. CASE S = {a, b}
    BY <2>3, <2>4
  <2>5. CASE S # {a, b}
    <3>1. PICK c \in S : c # a /\ c # b
      BY <2>3, <2>5
    <3> QED BY <2>3, <3>1
  <2> QED BY <2>4, <2>5
<1> QED BY <1>2, <1>4, <1>5, <1>6, <1>7, <1>8

\* c is merged before d: it is larger, or its id comes first.
Sooner(c, d) == Amount(c) > Amount(d) \/ (Amount(c) = Amount(d) /\ c < d)
SoonerIn(S, c) == {d \in S : Sooner(d, c)}

\* In a nonempty part T of the coins there is one that comes first.
LEMMA FirstCoin ==
    ASSUME NEW S, S \subseteq Nat, IsFiniteSet(S), \A c \in S : Amount(c) \in Nat,
           NEW T \in SUBSET S, T # {}
    PROVE  \E c \in T : \A d \in T : d # c => Sooner(c, d) /\ ~Sooner(d, c)
<1> DEFINE All == {SoonerIn(S, c) : c \in T}
<1>1. All \in SUBSET (SUBSET S) /\ All # {}
  BY DEF SoonerIn
<1>2. PICK x \in All : \A y \in All : y \subseteq x => y = x
  <2> HIDE DEF All
  <2>1. PICK U, V : U = S /\ V = All
    OBVIOUS
  <2>2. IsFiniteSet(U) /\ V \in SUBSET (SUBSET U) /\ V # {}
    BY <1>1, <2>1
  <2>3. \E x \in V : \A y \in V : y \subseteq x => y = x
    BY <2>2, MinimalSubset
  <2> QED BY <2>1, <2>3
<1>3. PICK c \in T : x = SoonerIn(S, c)
  BY <1>2
<1>4. ASSUME NEW d \in T, d # c PROVE Sooner(c, d) /\ ~Sooner(d, c)
  <2>1. c \in Nat /\ d \in Nat /\ Amount(c) \in Nat /\ Amount(d) \in Nat
    OBVIOUS
  <2>2. ~Sooner(d, c)
    <3> SUFFICES ASSUME Sooner(d, c) PROVE FALSE
      OBVIOUS
    <3>1. ASSUME NEW e \in S, Sooner(e, d) PROVE Sooner(e, c)
      <4>1. e \in Nat /\ Amount(e) \in Nat
        OBVIOUS
      <4> QED BY <2>1, <3>1, <4>1 DEF Sooner
    <3>2. SoonerIn(S, d) \subseteq SoonerIn(S, c)
      BY <3>1 DEF SoonerIn
    <3>3. SoonerIn(S, d) = SoonerIn(S, c)
      BY <1>2, <1>3, <3>2
    <3>4. d \in SoonerIn(S, c)
      BY DEF SoonerIn
    <3>5. Sooner(d, d)
      BY <3>3, <3>4 DEF SoonerIn
    <3> QED BY <2>1, <3>5 DEF Sooner
  <2> QED BY <1>4, <2>1, <2>2 DEF Sooner
<1> QED BY <1>4

\* Of two or more coins, the two largest are two.
LEMMA TwoAreMerged ==
    ASSUME NEW S, S \subseteq Nat, IsFiniteSet(S), \A c \in S : Amount(c) \in Nat,
           Cardinality(S) >= 2
    PROVE  \E a, b \in S : a # b /\ TwoLargest(S) = {a, b}
<1>1. TwoLargest(S) = {c \in S : Cardinality(SoonerIn(S, c)) < 2}
  BY DEF TwoLargest, SoonerIn, Sooner
<1>2. S # {} /\ Cardinality(S) \in Nat
  BY FS_EmptySet, FS_CardinalityType
<1>3. PICK a \in S : \A d \in S : d # a => Sooner(a, d) /\ ~Sooner(d, a)
  BY <1>2, FirstCoin
<1>4. S \ {a} # {}
  <2>1. Cardinality(S \ {a}) = Cardinality(S) - 1
    BY FS_RemoveElement
  <2> QED BY <1>2, <2>1, FS_EmptySet
<1>5. PICK b \in S \ {a} : \A d \in S \ {a} : d # b => Sooner(b, d) /\ ~Sooner(d, b)
  BY <1>4, FirstCoin
<1>6. \A c \in S : c \in Nat /\ Amount(c) \in Nat
  OBVIOUS
<1>7. \A c \in S : ~Sooner(c, c)
  BY <1>6 DEF Sooner
<1>8. SoonerIn(S, a) = {} /\ SoonerIn(S, b) = {a}
  BY <1>3, <1>5, <1>7 DEF SoonerIn
<1>9. Cardinality(SoonerIn(S, a)) = 0 /\ Cardinality(SoonerIn(S, b)) = 1
  BY <1>8, FS_EmptySet, FS_Singleton
<1>10. ASSUME NEW c \in S, c # a, c # b PROVE ~(Cardinality(SoonerIn(S, c)) < 2)
  <2>1. {a, b} \subseteq SoonerIn(S, c)
    BY <1>3, <1>5, <1>10 DEF SoonerIn
  <2>2. Cardinality({a, b}) = 2
    BY TwoAndThree
  <2>4. IsFiniteSet(SoonerIn(S, c))
    BY FS_Subset DEF SoonerIn
  <2>5. Cardinality({a, b}) <= Cardinality(SoonerIn(S, c)) /\ Cardinality(SoonerIn(S, c)) \in Nat
    BY <2>1, <2>4, FS_Subset, FS_CardinalityType
  <2> QED BY <2>2, <2>5
<1>11. TwoLargest(S) = {a, b}
  <2>1. \A c \in S : Cardinality(SoonerIn(S, c)) < 2 <=> c = a \/ c = b
    BY <1>9, <1>10
  <2>2. {c \in S : Cardinality(SoonerIn(S, c)) < 2} = {a, b}
    BY <2>1
  <2> QED BY <1>1, <2>2
<1> QED BY <1>11

\* So a draft merges two coins.
LEMMA DraftMerges ==
    ASSUME NEW S, S \subseteq Nat, IsFiniteSet(S), \A c \in S : Amount(c) \in 1..Limit,
           Cardinality(S) >= 2
    PROVE  Merging(Draft(S)) /\ Draft(S).inputs \subseteq S
<1>1. \A c \in S : Amount(c) \in Nat /\ Amount(c) >= 1 /\ Amount(c) <= Limit
  BY CoinsAre
<1>2. PICK a \in S, b \in S : a # b /\ TwoLargest(S) = {a, b}
  BY <1>1, TwoAreMerged
<1> DEFINE sum == Total({a, b})
<1>3. sum = Amount(a) + Amount(b)
  BY <1>1, <1>2, SmallTotals
<1>4. Draft(S) = [inputs |-> {a, b}, outputs |-> IF sum > Limit THEN <<Limit, sum - Limit>> ELSE <<sum>>]
  BY <1>2 DEF Draft
<1> HIDE DEF sum
<1>5. sum \in Nat /\ sum >= 1 /\ sum <= 2 * Limit /\ Limit \in Nat
  BY <1>1, <1>3, CoinsAre
<1>6. \E v \in 1..Limit : Draft(S).outputs = <<v>> \/ Draft(S).outputs = <<Limit, v>>
  <2>1. CASE sum > Limit
    <3>1. sum - Limit \in 1..Limit
      BY <1>5, <2>1
    <3> QED BY <1>4, <2>1, <3>1
  <2>2. CASE ~(sum > Limit)
    <3>1. sum \in 1..Limit
      BY <1>5, <2>2
    <3> QED BY <1>4, <2>2, <3>1
  <2> QED BY <2>1, <2>2
<1>7. IsFiniteSet({a, b}) /\ Cardinality({a, b}) = 2
  BY <1>2, TwoAndThree
<1>8. Draft(S).inputs = {a, b}
  BY <1>4
<1> QED BY <1>6, <1>7, <1>8 DEF Merging

-----------------------------------------------------------------------------
(* Steps that write no row.                                                  *)
Same == UNCHANGED <<rounds, supply, relayed, settled, era, need>>

LEMMA Kept ==
    ASSUME IRounds, Same, era = 0 => Read'
    PROVE  IRounds'
<1>1. UNCHANGED <<rounds, supply, relayed, settled, era, need>>
  BY DEF Same
<1>2. Unspent' = Unspent /\ Merged' = Merged /\ (Abundant' <=> Abundant) /\ Count' = Count
  BY <1>1 DEF Unspent, Taken, OutputsOf, Output, IsFinal, Merged, Abundant, Count
<1>3. Merges => Merges'
  BY <1>1 DEF Merges, Merging, Reach, Count
<1>4. Relays => Relays'
  BY <1>1 DEF Relays, IsFinal, Count
<1>5. Counted => Counted'
  BY <1>1, <1>2 DEF Counted, Output
<1>6. FewRounds => FewRounds'
  BY <1>1 DEF FewRounds
<1> QED BY <1>1, <1>3, <1>4, <1>5, <1>6 DEF IRounds, Settling

\* Nothing that was read is used.
LEMMA Forgotten ==
    ASSUME IRounds, Same, job'.pc \notin {"decide", "save"}
    PROVE  IRounds'
BY Kept DEF Read

\* Most steps write nothing, and forget what was read.
LEMMA PlainSteps ==
    ASSUME IRounds,
           \/ StartJob \/ VerifyRounds \/ ResumeRound \/ FoundInputs \/ ShortOfFunds
           \/ SignRound \/ PrepareRound \/ RestartObject
    PROVE  IRounds'
<1>1. CASE StartJob
  <2>1. Same /\ job'.pc \notin {"decide", "save"}
    BY <1>1 DEF StartJob, KeepAll, KeepRecords, poolState, AtRest, Same
  <2> QED BY <2>1, Forgotten
<1>2. CASE VerifyRounds
  <2>1. Same /\ job'.pc \notin {"decide", "save"}
    BY <1>2 DEF VerifyRounds, NodeFails, Raise, KeepAll, KeepRecords, poolState, AtRest, Same
  <2> QED BY <2>1, Forgotten
<1>3. CASE ResumeRound
  <2>1. Same /\ job'.pc \notin {"decide", "save"}
    BY <1>3 DEF ResumeRound, Raise, GoOn, KeepAll, KeepRecords, poolState, AtRest, Same
  <2> QED BY <2>1, Forgotten
<1>4. CASE FoundInputs
  <2>1. Same /\ job'.pc \notin {"decide", "save"}
    BY <1>4 DEF FoundInputs, Stopped, Finish, Raise, GoOn, KeepAll, KeepRecords, poolState, AtRest, Same
  <2> QED BY <2>1, Forgotten
<1>5. CASE ShortOfFunds
  <2>1. Same /\ job'.pc \notin {"decide", "save"}
    BY <1>5 DEF ShortOfFunds, Raise, KeepAll, KeepRecords, poolState, AtRest, Same
  <2> QED BY <2>1, Forgotten
<1>6. CASE SignRound
  <2>1. Same /\ job'.pc \notin {"decide", "save"}
    BY <1>6 DEF SignRound, Stopped, Raise, GoOn, KeepAll, KeepRecords, poolState, AtRest, Same
  <2> QED BY <2>1, Forgotten
<1>7. CASE PrepareRound
  <2>1. Same /\ job'.pc \notin {"decide", "save"}
    BY <1>7 DEF PrepareRound, Stopped, NodeFails, Raise, GoOn, KeepAll, KeepRecords, poolState, AtRest,
                Same
  <2> QED BY <2>1, Forgotten
<1>8. CASE RestartObject
  <2>1. Same /\ job'.pc \notin {"decide", "save"}
    BY <1>8 DEF RestartObject, KeepRecords, poolState, AtRest, Same
  <2> QED BY <2>1, Forgotten
<1> QED BY <1>1, <1>2, <1>3, <1>4, <1>5, <1>6, <1>7, <1>8

\* The operator's steps do not disturb what was read.
LEMMA OperatorSteps ==
    ASSUME IRounds, EndRequest \/ HaltDistribution \/ ResumeDistribution \/ UNCHANGED varsFunds
    PROVE  IRounds'
<1>1. Same /\ job' = job
  <2>1. CASE EndRequest
    BY <2>1 DEF EndRequest, poolState, Same
  <2>2. CASE HaltDistribution
    BY <2>2 DEF HaltDistribution, KeepRecords, poolState, Same
  <2>3. CASE ResumeDistribution
    <3>1. UNCHANGED job /\ KeepAll
      BY <2>3 DEF ResumeDistribution
    <3> QED BY <3>1 DEF KeepAll, KeepRecords, poolState, Same
  <2>4. CASE UNCHANGED varsFunds
    BY <2>4 DEF varsFunds, poolState, Same
  <2> QED BY <2>1, <2>2, <2>3, <2>4
<1>2. UNCHANGED <<rounds, supply, settled>>
  BY <1>1 DEF Same
<1>3. Unspent' = Unspent /\ (Abundant' <=> Abundant) /\ (Open' <=> Open) /\ Count' = Count
  BY <1>2 DEF Unspent, Taken, OutputsOf, Output, IsFinal, Abundant, Count, Open, Row, This
<1>4. Read => Read'
  BY <1>1, <1>2, <1>3 DEF Read, Reach, Merging, Output
<1> QED BY <1>1, <1>4, Kept DEF IRounds, Settling

\* The funds are read for the decision.
LEMMA ReadFundsStep ==
    ASSUME IFunds, IRounds, ReadFunds
    PROVE  IRounds'
<1>1. Same /\ (job'.pc = "rest" \/ job' = [pc |-> "decide", funds |-> Unspent])
  BY DEF ReadFunds, NodeFails, Raise, GoOn, KeepAll, KeepRecords, poolState, AtRest, Same
<1>2. CASE job'.pc = "rest"
  BY <1>1, <1>2, Forgotten
<1>3. CASE job' = [pc |-> "decide", funds |-> Unspent]
  <2>1. UNCHANGED <<rounds, supply, settled>>
    BY <1>1 DEF Same
  <2>2. Unspent' = Unspent /\ (Abundant' <=> Abundant) /\ Count' = Count
    BY <2>1 DEF Unspent, Taken, OutputsOf, Output, IsFinal, Abundant, Count
  <2>3. job'.pc = "decide" /\ job'.funds = Unspent
    BY <1>3
  <2>4. era = 0 => (Abundant => Output(Count, 1) \in Unspent)
    BY DEF IRounds, Settling, Counted
  <2>5. era = 0 => Read'
    BY <2>2, <2>3, <2>4 DEF Read, Output
  <2> QED BY <1>1, <2>5, Kept
<1> QED BY <1>1, <1>2, <1>3

\* A round that has no draft yet is not final, and three coins are there for it.
LEMMA ClaimedHasCoins ==
    ASSUME IFunds, IRounds, era = 0, Count > 0, rounds[Count].phase = "claimed"
    PROVE  /\ Unspent \subseteq Reach(Count) /\ Unspent \subseteq Nat
           /\ IsFiniteSet(Unspent) /\ Cardinality(Unspent) >= 3
           /\ \A c \in Unspent : Amount(c) \in 1..Limit
<1>1. Count \in Nat \ {0} /\ Count \in 1..Count /\ Count \in 1..MaxRounds /\ rounds # <<>>
  BY RowsAre
<1>2. ~IsFinal(Count)
  BY <1>1 DEF IRounds, Settling, Relays
<1>3. \A j \in DOMAIN rounds : IsFinal(j) => j < Count
  BY <1>1, <1>2, RowsAre
<1>4. Count <= Cardinality(supply) - 2
  BY <1>1 DEF IRounds, Settling, FewRounds, Count
<1>5. Cardinality(Unspent) = Cardinality(supply) - (Count - 1)
  BY <1>1, <1>2 DEF IRounds, Settling, Counted, Abundant, Merged
<1>6. /\ Unspent \subseteq Reach(Count) /\ IsFiniteSet(Unspent)
      /\ Cardinality(supply) \in Nat
      /\ \A c \in Unspent : c \in Nat /\ Amount(c) \in 1..Limit
  BY <1>1, <1>3, Known
<1> QED BY <1>1, <1>4, <1>5, <1>6

\* The funds are read again for the draft.
LEMMA BuildRoundStep ==
    ASSUME IFunds, IRounds, BuildRound
    PROVE  IRounds'
<1>1. Same /\ (job'.pc = "rest" \/ job' = [pc |-> "save", draft |-> Draft(Unspent)]) /\ job.pc = "build"
  BY DEF BuildRound, NodeFails, Raise, GoOn, KeepAll, KeepRecords, poolState, AtRest, Same, Working
<1>2. CASE job'.pc = "rest"
  BY <1>1, <1>2, Forgotten
<1>3. CASE job' = [pc |-> "save", draft |-> Draft(Unspent)]
  <2>1. UNCHANGED <<rounds, supply, settled>>
    BY <1>1 DEF Same
  <2>2. Count > 0 /\ rounds[Count].phase = "claimed"
    BY <1>1 DEF IFunds, HandlerKnows, Count
  <2>3. era = 0 => Merging(Draft(Unspent)) /\ Draft(Unspent).inputs \subseteq Reach(Count)
    <3> SUFFICES ASSUME era = 0
                 PROVE  Merging(Draft(Unspent)) /\ Draft(Unspent).inputs \subseteq Reach(Count)
      OBVIOUS
    <3>1. PICK S : S = Unspent
      OBVIOUS
    <3>2. /\ S \subseteq Reach(Count) /\ S \subseteq Nat /\ IsFiniteSet(S) /\ Cardinality(S) >= 3
          /\ \A c \in S : Amount(c) \in 1..Limit
      BY <2>2, <3>1, ClaimedHasCoins
    <3>3. Cardinality(S) >= 2
      BY <3>2, FS_CardinalityType
    <3>4. Merging(Draft(S)) /\ Draft(S).inputs \subseteq S
      BY <3>2, <3>3, DraftMerges
    <3> QED BY <3>1, <3>2, <3>4
  <2>4. job'.pc = "save" /\ job'.draft = Draft(Unspent)
    BY <1>3
  <2>5. Reach(Count)' = Reach(Count)
    BY <2>1 DEF Reach, Count
  <2>6. era = 0 => Read'
    BY <2>3, <2>4, <2>5 DEF Read, Merging
  <2> QED BY <1>1, <2>6, Kept
<1> QED BY <1>1, <1>2, <1>3

-----------------------------------------------------------------------------
(* Steps that write a row.                                                   *)
LEMMA RowRewritten ==
    ASSUME NEW row, IFunds, IRounds, Count > 0,
           row = [f \in RowFields |-> row[f]], row.phase \in Phases, row.phase # "claimed",
           rounds' = [rounds EXCEPT ![Count] = row],
           UNCHANGED <<supply, relayed, settled, era, need>>, job'.pc \notin {"decide", "save"},
           era = 0 => Merging(row) /\ row.inputs \subseteq Reach(Count),
           \/ era = 0 => ~IsFinal(Count)
           \/ row.inputs = rounds[Count].inputs /\ row.outputs = rounds[Count].outputs
    PROVE  IRounds'
<1>1. /\ Count' = Count /\ Count \in Nat /\ Count \in 1..Count /\ rounds'[Count] = row
      /\ \A k \in 1..Count : k # Count => rounds'[k] = rounds[k]
      /\ DOMAIN rounds' = DOMAIN rounds /\ DOMAIN rounds = 1..Count
  <2>1. /\ Len(rounds') = Len(rounds) /\ Len(rounds) \in Nat
        /\ rounds'[Len(rounds)] = row
        /\ \A k \in 1..Len(rounds) : k # Len(rounds) => rounds'[k] = rounds[k]
    BY RowWritten DEF IFunds, Count
  <2>2. DOMAIN rounds' = DOMAIN rounds
    OBVIOUS
  <2> QED BY <2>1, <2>2, RowsAre DEF Count
<1>2. \A k : IsFinal(k)' <=> IsFinal(k)
  BY DEF IsFinal
<1> SUFFICES ASSUME era = 0 PROVE Settling'
  BY DEF IRounds
<1>3. Merges'
  <2>1. ASSUME NEW k \in 1..Count, rounds'[k].phase # "claimed"
        PROVE  Merging(rounds'[k]) /\ rounds'[k].inputs \subseteq Reach(k)
    BY <1>1, <2>1 DEF IRounds, Settling, Merges
  <2>2. \A k : Reach(k)' = Reach(k)
    BY DEF Reach
  <2> QED BY <1>1, <2>1, <2>2 DEF Merges, Merging
<1>4. Relays'
  BY <1>1, <1>2 DEF IRounds, Settling, Relays
<1>5. \A k \in DOMAIN rounds : IsFinal(k) =>
          rounds'[k].inputs = rounds[k].inputs /\ rounds'[k].outputs = rounds[k].outputs
  BY <1>1
<1>6. Unspent' = Unspent
  <2>1. \A k \in DOMAIN rounds : IsFinal(k) => OutputsOf(k)' = OutputsOf(k)
    BY <1>5 DEF OutputsOf, Output
  <2>2. Taken' = Taken
    BY <1>1, <1>2, <1>5 DEF Taken
  <2> QED BY <1>1, <1>2, <2>1, <2>2 DEF Unspent
<1>7. (Abundant' <=> Abundant) /\ Merged' = Merged
  BY <1>1, <1>2, <1>5 DEF Abundant, Merged
<1>8. Counted'
  BY <1>1, <1>6, <1>7 DEF IRounds, Settling, Counted, Output
<1>9. FewRounds'
  <2>1. rounds # <<>>
    BY <1>1, RowsAre
  <2> QED BY <1>1, <2>1 DEF IRounds, Settling, FewRounds, Count
<1>10. Read'
  BY DEF Read
<1> QED BY <1>3, <1>4, <1>8, <1>9, <1>10 DEF Settling

\* A step of the handler writes nothing and returns.
LEMMA Ended == ASSUME IRounds, KeepRecords, job'.pc = "rest" PROVE IRounds'
<1>1. Same
  BY DEF KeepRecords, poolState, Same
<1> QED BY <1>1, Forgotten

\* The latest round while the handler works on it.
LEMMA InHand ==
    ASSUME IFunds, job.pc \in {"build", "save", "sign", "keep", "prepare", "raw", "observe", "send"}
    PROVE  /\ Count > 0 /\ Count \in 1..Count /\ Count \in 1..MaxRounds
           /\ rounds[Count] = [f \in RowFields |-> rounds[Count][f]]
           /\ job.pc \in {"build", "save"} => rounds[Count].phase = "claimed"
           /\ job.pc \notin {"build", "save"} => rounds[Count].phase \in {"signature-started", "raw-saved"}
<1>1. Count > 0 /\ Count \in Nat
  BY RowsAre DEF IFunds, HandlerKnows, Count
<1>2. Count \in 1..Count
  BY <1>1
<1>3. rounds[Count] = [f \in RowFields |-> rounds[Count][f]]
  BY <1>2 DEF IFunds, RowsTyped, Count
<1> QED BY <1>1, <1>2, <1>3, RowsAre DEF IFunds, HandlerKnows, Count

\* The draft that was built is saved.
LEMMA SaveRoundKeeps == ASSUME IFunds, IRounds, SaveRound PROVE IRounds'
<1>1. CASE KeepAll /\ job'.pc = "rest"
  BY <1>1, Ended DEF KeepAll
<1>2. CASE ~(KeepAll /\ job'.pc = "rest")
  <2> DEFINE row == [rounds[Count] EXCEPT !.phase = "signature-started",
                          !.inputs = job.draft.inputs, !.outputs = job.draft.outputs]
  <2>1. /\ job.pc = "save" /\ job'.pc = "sign"
        /\ rounds' = [rounds EXCEPT ![Count] = row]
        /\ UNCHANGED <<supply, relayed, settled, era, need>>
    BY <1>2 DEF SaveRound, Stopped, Raise, AtRest, Working, StillAsked, Write, Row, This, GoOn,
                KeepOther, poolState, Count
  <2>2. /\ Count > 0 /\ Count \in 1..MaxRounds /\ rounds[Count].phase = "claimed"
        /\ rounds[Count] = [f \in RowFields |-> rounds[Count][f]]
    BY <2>1, InHand
  <2>3. /\ row = [f \in RowFields |-> row[f]] /\ row.phase = "signature-started"
        /\ row.inputs = job.draft.inputs /\ row.outputs = job.draft.outputs
    BY <2>2 DEF RowFields
  <2> HIDE DEF row
  <2>4. era = 0 => Merging(row) /\ row.inputs \subseteq Reach(Count)
    BY <2>1, <2>3 DEF IRounds, Settling, Read, Merging
  <2>5. era = 0 => ~IsFinal(Count)
    BY <2>2 DEF IRounds, Settling, Relays
  <2>6. row.phase \in Phases /\ row.phase # "claimed"
    BY <2>3 DEF Phases
  <2> QED BY <2>1, <2>2, <2>3, <2>4, <2>5, <2>6, RowRewritten
<1> QED BY <1>1, <1>2

\* A signature, the signed transaction and the end of a round leave its coins as they are.
LEMMA LaterRowsKeep ==
    ASSUME IFunds, IRounds, KeepSignature \/ SaveRaw \/ ObserveRound
    PROVE  IRounds'
<1>1. ASSUME NEW row, job.pc \in {"keep", "raw", "observe"}, job'.pc \notin {"decide", "save"},
             rounds' = [rounds EXCEPT ![Count] = row],
             UNCHANGED <<supply, relayed, settled, era, need>>,
             row = [f \in RowFields |-> row[f]], row.phase \in Phases, row.phase # "claimed",
             row.inputs = rounds[Count].inputs, row.outputs = rounds[Count].outputs
      PROVE  IRounds'
  <2>1. /\ Count > 0 /\ Count \in 1..Count
        /\ rounds[Count].phase \in {"signature-started", "raw-saved"}
    BY <1>1, InHand
  <2>2. era = 0 => Merging(row) /\ row.inputs \subseteq Reach(Count)
    BY <1>1, <2>1 DEF IRounds, Settling, Merges, Merging
  <2> QED BY <1>1, <2>1, <2>2, RowRewritten
<1>2. CASE KeepSignature
  <2> DEFINE row == [rounds[Count] EXCEPT !.signed = TRUE]
  <2>1. /\ job.pc = "keep" /\ job'.pc = "prepare"
        /\ rounds' = [rounds EXCEPT ![Count] = row]
        /\ UNCHANGED <<supply, relayed, settled, era, need>>
    BY <1>2 DEF KeepSignature, Working, Write, Row, This, GoOn, KeepOther, poolState, Count
  <2>2. /\ rounds[Count] = [f \in RowFields |-> rounds[Count][f]]
        /\ rounds[Count].phase \in {"signature-started", "raw-saved"}
    BY <2>1, InHand
  <2>3. /\ row = [f \in RowFields |-> row[f]] /\ row.phase = rounds[Count].phase
        /\ row.inputs = rounds[Count].inputs /\ row.outputs = rounds[Count].outputs
    BY <2>2 DEF RowFields
  <2> HIDE DEF row
  <2>4. row.phase \in Phases /\ row.phase # "claimed"
    BY <2>2, <2>3 DEF Phases
  <2> QED BY <1>1, <2>1, <2>3, <2>4
<1>3. CASE SaveRaw /\ ~(KeepAll /\ job'.pc = "rest")
  <2> DEFINE row == [rounds[Count] EXCEPT !.phase = "raw-saved"]
  <2>1. /\ job.pc = "raw" /\ job'.pc = "observe"
        /\ rounds' = [rounds EXCEPT ![Count] = row]
        /\ UNCHANGED <<supply, relayed, settled, era, need>>
    BY <1>3 DEF SaveRaw, Stopped, Raise, AtRest, Working, Write, Row, This, GoOn, KeepOther,
                poolState, Count
  <2>2. rounds[Count] = [f \in RowFields |-> rounds[Count][f]]
    BY <2>1, InHand
  <2>3. /\ row = [f \in RowFields |-> row[f]] /\ row.phase = "raw-saved"
        /\ row.inputs = rounds[Count].inputs /\ row.outputs = rounds[Count].outputs
    BY <2>2 DEF RowFields
  <2> HIDE DEF row
  <2>4. row.phase \in Phases /\ row.phase # "claimed"
    BY <2>3 DEF Phases
  <2> QED BY <1>1, <2>1, <2>3, <2>4
<1>4. CASE ObserveRound /\ ~KeepRecords
  <2> DEFINE row == [rounds[Count] EXCEPT !.phase = "finalized", !.checkpoint = settled[Count]]
  <2>1. /\ job.pc = "observe" /\ job'.pc = "rest"
        /\ rounds' = [rounds EXCEPT ![Count] = row]
        /\ UNCHANGED <<supply, relayed, settled, era, need>>
    BY <1>4 DEF ObserveRound, NodeFails, Finish, AtRest, Working, Write, Row, This, GoOn, KeepAll,
                KeepOther, poolState, Count
  <2>2. rounds[Count] = [f \in RowFields |-> rounds[Count][f]]
    BY <2>1, InHand
  <2>3. /\ row = [f \in RowFields |-> row[f]] /\ row.phase = "finalized"
    BY <2>2, Zenon DEF RowFields
  <2>4. row.inputs = rounds[Count].inputs /\ row.outputs = rounds[Count].outputs
    BY <2>2 DEF RowFields
  <2> HIDE DEF row
  <2>5. row.phase \in Phases /\ row.phase # "claimed"
    BY <2>3 DEF Phases
  <2> QED BY <1>1, <2>1, <2>3, <2>4, <2>5
<1>5. CASE KeepRecords /\ job'.pc \in {"rest", "send"}
  <2>1. Same
    BY <1>5 DEF KeepRecords, poolState, Same
  <2> QED BY <1>5, <2>1, Forgotten
<1>6. CASE ObserveRound
  <2>1. job'.pc \in {"rest", "send"}
    BY <1>6 DEF ObserveRound, NodeFails, Raise, Finish, GoOn, AtRest
  <2> QED BY <1>4, <1>5, <1>6, <2>1
<1> QED BY <1>2, <1>3, <1>5, <1>6 DEF KeepAll

\* Only what was saved is sent.
LEMMA SendRoundKeeps == ASSUME IFunds, IRounds, SendRound PROVE IRounds'
<1>1. /\ job.pc = "send" /\ job'.pc = "rest"
      /\ UNCHANGED <<rounds, supply, settled, era, need>>
      /\ relayed' \subseteq relayed \cup {Count} /\ relayed \subseteq relayed'
  BY DEF SendRound, Stopped, Raise, Finish, KeepAll, KeepRecords, poolState, AtRest, Working, This, Count
<1>2. Count \in 1..Count /\ rounds[Count].phase \in {"signature-started", "raw-saved"}
  BY <1>1, InHand
<1> SUFFICES ASSUME era = 0 PROVE Settling'
  BY <1>1 DEF IRounds
<1>3. Relays'
  BY <1>1, <1>2 DEF IRounds, Settling, Relays, IsFinal, Count
<1>4. Merges' /\ FewRounds'
  BY <1>1 DEF IRounds, Settling, Merges, Merging, Reach, Count, FewRounds
<1>5. Unspent' = Unspent /\ Merged' = Merged /\ (Abundant' <=> Abundant) /\ Count' = Count
  BY <1>1 DEF Unspent, Taken, OutputsOf, Output, IsFinal, Merged, Abundant, Count
<1>6. Counted'
  BY <1>1, <1>5 DEF IRounds, Settling, Counted, Output
<1>7. Read'
  BY <1>1 DEF Read
<1> QED BY <1>3, <1>4, <1>6, <1>7 DEF Settling

-----------------------------------------------------------------------------
(* A round is begun; a round becomes final; a coin is deposited.             *)

\* Between rounds every round is final.
LEMMA AllFinal ==
    ASSUME IFunds, IRounds, era = 0, ~Open
    PROVE  /\ \A k \in 1..Count : IsFinal(k)
           /\ Abundant => Amount(Output(Count, 1)) = Limit
<1>1. Count > 0 => rounds[Count].phase = "finalized"
  BY RowsAre DEF Open, Row, This, Count
<1>2. \A k \in 1..Count : IsFinal(k)
  BY <1>1, RowsAre
<1>3. ASSUME Abundant PROVE Amount(Output(Count, 1)) = Limit
  <2>1. Count \in DOMAIN rounds /\ IsFinal(Count) /\ Len(rounds[Count].outputs) = 2
    BY <1>3, RowsAre DEF Abundant
  <2>2. Count \in Nat \ {0} /\ Merging(rounds[Count])
    BY <2>1, FinalRound
  <2> QED BY <2>1, <2>2, OutputsAre
<1> QED BY <1>2, <1>3

\* A round is begun only with three coins or more, none of which suffices alone.
LEMMA ClaimRoundKeeps == ASSUME IFunds, IRounds, ClaimRound PROVE IRounds'
<1> DEFINE row == [phase |-> "claimed", inputs |-> {}, outputs |-> <<>>,
                   signed |-> FALSE, checkpoint |-> Never]
<1>1. CASE KeepRecords /\ job'.pc = "rest"
  BY <1>1, Ended
<1>2. CASE ~(KeepRecords /\ job'.pc = "rest")
  <2>1. /\ job.pc = "decide" /\ ~Open /\ SelectInputs(job.funds) = {} /\ Total(job.funds) >= need
        /\ Len(rounds) < MaxRounds /\ rounds' = Append(rounds, row) /\ job'.pc = "build"
        /\ UNCHANGED <<need, supply, relayed, settled, era>>
    BY <1>2 DEF ClaimRound, Stopped, Finish, Raise, AtRest, Working, KeepAll, KeepOther, poolState, GoOn
  <2>2. row.phase = "claimed" /\ row = [f \in RowFields |-> row[f]] /\ row.phase \in Phases
    BY DEF RowFields, Phases
  <2> HIDE DEF row
  <2>3. /\ Count' = Count + 1 /\ Count \in Nat /\ rounds'[Count + 1] = row
        /\ \A k \in 1..Count : rounds'[k] = rounds[k]
        /\ DOMAIN rounds = 1..Count /\ DOMAIN rounds' = 1..(Count + 1)
    <3>1. /\ Len(rounds') = Len(rounds) + 1 /\ Len(rounds) \in Nat
          /\ rounds'[Len(rounds) + 1] = row
          /\ \A k \in 1..Len(rounds) : rounds'[k] = rounds[k]
          /\ RowsTyped'
      BY <2>1, <2>2, RowAppended DEF IFunds
    <3>2. DOMAIN rounds' = 1..Len(rounds')
      BY <3>1 DEF RowsTyped
    <3> QED BY <3>1, <3>2, RowsAre DEF Count
  <2> SUFFICES ASSUME era = 0 PROVE Settling'
    BY <2>1 DEF IRounds
  <2>4. Count + 1 \in 1..MaxRounds /\ Count + 1 \in Nat \ {0} /\ Count + 1 \notin 1..Count
    BY <2>1, <2>3, RowsAre DEF Count
  <2>5. ~IsFinal(Count + 1) /\ \A k \in 1..Count : IsFinal(k)
    BY <2>1, <2>4, AllFinal DEF IRounds, Settling, Relays
  <2>6. \A k : IsFinal(k)' <=> IsFinal(k)
    BY <2>1 DEF IsFinal
  <2>7. /\ IsFiniteSet(Unspent) /\ Cardinality(Unspent) \in Nat /\ Cardinality(supply) \in Nat
        /\ \A c \in Unspent : c \in Nat /\ Amount(c) \in 1..Limit
    <3>1. \A j \in DOMAIN rounds : IsFinal(j) => j < Count + 1
      BY <2>3
    <3> QED BY <2>4, <3>1, Known
  <2>8. Cardinality(Unspent) >= 3 /\ ~Abundant
    <3>1. job.funds \subseteq Unspent /\ (Abundant => Output(Count, 1) \in job.funds)
      BY <2>1 DEF IRounds, Settling, Read
    <3>2. PICK U, S : U = Unspent /\ S = job.funds
      OBVIOUS
    <3>3. IsFiniteSet(U) /\ S \in SUBSET U
      BY <2>7, <3>1, <3>2
    <3>4. IsFiniteSet(S) /\ Cardinality(S) <= Cardinality(U)
      BY <3>3, FS_Subset
    <3>5. S \subseteq Nat /\ \A c \in S : Amount(c) \in 1..Limit
      BY <2>7, <3>1, <3>2
    <3>6. need \in 1..Limit /\ SelectInputs(S) = {} /\ Total(S) >= need
      BY <2>1, <3>2 DEF IRounds
    <3>7. Cardinality(S) >= 3 /\ \A c \in S : Amount(c) # Limit
      BY <3>4, <3>5, <3>6, ThreeCoins
    <3>8. ~Abundant
      BY <2>1, <3>1, <3>2, <3>7, AllFinal
    <3>9. Cardinality(S) \in Nat
      BY <3>4, FS_CardinalityType
    <3> QED BY <2>7, <3>2, <3>4, <3>7, <3>8, <3>9
  <2>9. Cardinality(Unspent) = Cardinality(supply) - Count
    BY <2>3, <2>5, <2>8 DEF IRounds, Settling, Counted, Merged
  <2>10. Unspent' = Unspent
    <3>1. \A k \in 1..Count : OutputsOf(k)' = OutputsOf(k) /\ rounds'[k].inputs = rounds[k].inputs
      BY <2>3 DEF OutputsOf, Output
    <3>2. {j \in DOMAIN rounds : IsFinal(j)}' = {j \in DOMAIN rounds : IsFinal(j)}
      BY <2>3, <2>5, <2>6
    <3>3. Taken' = Taken
      BY <2>3, <3>1, <3>2 DEF Taken
    <3> QED BY <2>1, <2>3, <3>1, <3>2, <3>3 DEF Unspent
  <2>11. Merges'
    <3>1. ASSUME NEW k \in 1..(Count + 1), rounds'[k].phase # "claimed"
          PROVE  Merging(rounds'[k]) /\ rounds'[k].inputs \subseteq Reach(k)
      <4>1. k \in 1..Count
        BY <2>2, <2>3, <3>1
      <4> QED BY <2>3, <3>1, <4>1 DEF IRounds, Settling, Merges
    <3>2. \A k : Reach(k)' = Reach(k)
      BY <2>1 DEF Reach
    <3> QED BY <2>3, <3>1, <3>2 DEF Merges, Merging
  <2>12. Relays'
    BY <2>1, <2>3, <2>6 DEF IRounds, Settling, Relays
  <2>13. Counted'
    <3>1. settled'[Count + 1] = Never
      BY <2>1, <2>5 DEF IsFinal
    <3>2. ~Abundant' /\ Merged' = Count
      BY <2>3, <3>1 DEF Abundant, Merged, IsFinal
    <3> QED BY <2>1, <2>9, <2>10, <3>2 DEF Counted
  <2>14. FewRounds'
    BY <2>1, <2>3, <2>7, <2>8, <2>9 DEF FewRounds, Count
  <2>15. Read'
    BY <2>1 DEF Read
  <2> QED BY <2>11, <2>12, <2>13, <2>14, <2>15 DEF Settling
<1> QED BY <1>1, <1>2

\* The latest round becomes final: two coins are taken, and one or two made.
LEMMA SettleRoundKeeps ==
    ASSUME IFunds, IRounds, NEW r \in relayed, SettleRound(r)
    PROVE  IRounds'
<1>1. /\ ~IsFinal(r) /\ rounds[r].inputs \subseteq Unspent
      /\ settled' = [settled EXCEPT ![r] = era]
      /\ UNCHANGED <<rounds, job, supply, relayed, era, need>>
  BY DEF SettleRound
<1> SUFFICES ASSUME era = 0 PROVE Settling'
  BY <1>1 DEF IRounds
<1>2. /\ r = Count /\ Count \in Nat \ {0} /\ Count \in 1..Count /\ Count \in 1..MaxRounds
      /\ rounds[Count].phase # "claimed" /\ rounds[Count].phase # "finalized"
      /\ DOMAIN rounds = 1..Count /\ rounds # <<>>
  <2>1. r \in 1..Count /\ rounds[r].phase # "claimed"
    BY DEF IRounds, Settling, Relays
  <2> QED BY <1>1, <2>1, RowsAre
<1>3. Merging(rounds[Count]) /\ rounds[Count].inputs \subseteq Unspent
  BY <1>1, <1>2 DEF IRounds, Settling, Merges
<1>4. /\ settled'[Count] # Never
      /\ \A k \in 1..MaxRounds : IsFinal(k)' <=> (k = Count \/ IsFinal(k))
  <2>1. settled \in [1..MaxRounds -> Nat \cup {Never}] /\ era # Never
    BY ConsolidationAssumption DEF IFunds, HistoryTyped
  <2> QED BY <1>1, <1>2, <2>1 DEF IsFinal
<1>5. \A j \in DOMAIN rounds : IsFinal(j) => j < Count
  BY <1>1, <1>2
<1>6. /\ Unspent \subseteq Reach(Count) /\ Taken \subseteq Reach(Count) /\ supply \subseteq 1..Deposited
      /\ IsFiniteSet(Unspent) /\ Cardinality(Unspent) \in Nat /\ Cardinality(supply) \in Nat
  BY <1>2, <1>5, Known
<1>7. \A k : OutputsOf(k)' = OutputsOf(k)
  BY <1>1 DEF OutputsOf, Output
<1> DEFINE Inputs == rounds[Count].inputs
<1>8. OutputsOf(Count) \cap Reach(Count) = {}
  <2>1. OutputsOf(Count) \subseteq (Deposited + 2 * Count - 1)..(Deposited + 2 * Count)
    BY <1>2, <1>3, OutputsAre
  <2> QED BY <1>2, <1>6, <2>1, CoinsAre DEF Reach
<1>9. Unspent' = (Unspent \ Inputs) \cup OutputsOf(Count)
  <2>1. {k \in DOMAIN rounds : IsFinal(k)}' = {k \in DOMAIN rounds : IsFinal(k)} \cup {Count}
    <3>1. \A k \in DOMAIN rounds : k \in 1..MaxRounds
      BY <1>2, RowsAre
    <3>2. \A k \in DOMAIN rounds : IsFinal(k)' <=> (k = Count \/ IsFinal(k))
      BY <1>4, <3>1
    <3> QED BY <1>1, <1>2, <3>2
  <2>2. Taken' = Taken \cup Inputs
    BY <1>1, <2>1 DEF Taken
  <2>3. Unspent' = (supply \cup (UNION {OutputsOf(k) : k \in {j \in DOMAIN rounds : IsFinal(j)}})
                      \cup OutputsOf(Count)) \ (Taken \cup Inputs)
    BY <1>1, <1>7, <2>1, <2>2 DEF Unspent
  <2>4. OutputsOf(Count) \cap (Taken \cup Inputs) = {}
    BY <1>3, <1>6, <1>8
  <2> QED BY <2>3, <2>4 DEF Unspent
<1>10. Cardinality(Unspent \ Inputs) = Cardinality(Unspent) - 2 /\ IsFiniteSet(Unspent \ Inputs)
  <2>1. PICK U, V : U = Unspent /\ V = Inputs
    OBVIOUS
  <2>2. IsFiniteSet(U) /\ IsFiniteSet(V) /\ V \subseteq U /\ Cardinality(V) = 2
    BY <1>3, <1>6, <2>1 DEF Merging
  <2>3. Cardinality(U \ V) = Cardinality(U) - Cardinality(U \cap V) /\ IsFiniteSet(U \ V)
    BY <2>2, FS_Difference
  <2>4. U \cap V = V
    BY <2>2
  <2> QED BY <2>1, <2>2, <2>3, <2>4
<1>11. Cardinality(Unspent) = Cardinality(supply) - (Count - 1)
  BY <1>1, <1>2 DEF IRounds, Settling, Counted, Abundant, Merged
<1>12. Count' = Count /\ Merged' = Count /\ (Abundant' <=> Len(rounds[Count].outputs) = 2)
  BY <1>1, <1>2, <1>4 DEF Count, Merged, Abundant, IsFinal
<1>13. Counted'
  <2>1. CASE OutputsOf(Count) = {Output(Count, 1)} /\ Len(rounds[Count].outputs) = 1
    <3>1. PICK W, c : W = Unspent \ Inputs /\ c = Output(Count, 1)
      OBVIOUS
    <3>2. c \notin W
      BY <1>6, <1>8, <2>1, <3>1
    <3>3. Cardinality(W \cup {c}) = Cardinality(W) + 1
      BY <1>10, <3>1, <3>2, FS_AddElement
    <3>4. Unspent' = W \cup {c}
      BY <1>9, <2>1, <3>1
    <3>5. Cardinality(Unspent') = Cardinality(supply) - Count
      BY <1>2, <1>6, <1>10, <1>11, <3>1, <3>3, <3>4
    <3>6. ~Abundant'
      BY <1>12, <2>1
    <3> QED BY <1>1, <1>12, <3>5, <3>6 DEF Counted
  <2>2. CASE OutputsOf(Count) = {Output(Count, 1), Output(Count, 2)} /\ Len(rounds[Count].outputs) = 2
    <3>1. Output(Count, 1) \in Unspent'
      BY <1>9, <2>2
    <3>2. Abundant'
      BY <1>12, <2>2
    <3>3. Output(Count, 1)' = Output(Count, 1)
      BY <1>12 DEF Output
    <3> QED BY <3>1, <3>2, <3>3 DEF Counted
  <2> QED BY <1>2, <1>3, <2>1, <2>2, OutputsAre
<1>14. Merges' /\ FewRounds'
  BY <1>1 DEF IRounds, Settling, Merges, Merging, Reach, Count, FewRounds
<1>15. Relays'
  BY <1>1, <1>2, <1>4, <1>12 DEF IRounds, Settling, Relays
<1>16. Read'
  <2>1. Open'
    BY <1>1, <1>2 DEF Open, Row, This, Count
  <2>2. Reach(Count)' = Reach(Count)
    BY <1>1 DEF Reach, Count
  <2> QED BY <1>1, <2>1, <2>2 DEF IRounds, Settling, Read, Merging
<1> QED BY <1>13, <1>14, <1>15, <1>16 DEF Settling

\* New funds only help.
LEMMA DepositPieceKeeps ==
    ASSUME IFunds, IRounds, NEW c \in Piece, DepositPiece(c)
    PROVE  IRounds'
<1>1. /\ c \notin supply /\ supply' = supply \cup {c}
      /\ UNCHANGED <<rounds, job, relayed, settled, era, need>>
  BY DEF DepositPiece
<1>2. supply' \subseteq Piece
  BY <1>1 DEF IRounds
<1> SUFFICES ASSUME era = 0 PROVE Settling'
  BY <1>1, <1>2 DEF IRounds
<1>3. Count \in Nat /\ Count + 1 \in Nat \ {0} /\ DOMAIN rounds = 1..Count
  BY RowsAre
<1>4. \A j \in DOMAIN rounds : IsFinal(j) => j < Count + 1
  BY <1>3
<1>5. /\ Unspent \subseteq Reach(Count + 1) /\ Taken \subseteq Reach(Count + 1)
      /\ IsFiniteSet(Unspent) /\ Cardinality(Unspent) \in Nat
      /\ IsFiniteSet(supply) /\ Cardinality(supply) \in Nat
  BY <1>3, <1>4, Known
<1>6. c \notin Reach(Count + 1)
  BY <1>1, CoinsAre DEF Reach
<1>7. Unspent' = Unspent \cup {c}
  <2>1. \A k : (OutputsOf(k)' = OutputsOf(k)) /\ (IsFinal(k)' <=> IsFinal(k))
    BY <1>1 DEF OutputsOf, Output, IsFinal
  <2>2. Taken' = Taken
    BY <1>1, <2>1 DEF Taken
  <2>3. Unspent' = ((supply \cup {c}) \cup UNION {OutputsOf(k) : k \in {j \in DOMAIN rounds : IsFinal(j)}})
                      \ Taken
    BY <1>1, <2>1, <2>2 DEF Unspent
  <2> QED BY <1>5, <1>6, <2>3 DEF Unspent
<1>8. Cardinality(Unspent') = Cardinality(Unspent) + 1 /\ Cardinality(supply') = Cardinality(supply) + 1
  <2>1. PICK U, S : U = Unspent /\ S = supply
    OBVIOUS
  <2>2. IsFiniteSet(U) /\ IsFiniteSet(S) /\ c \notin U /\ c \notin S
    BY <1>1, <1>5, <1>6, <2>1
  <2>3. Cardinality(U \cup {c}) = Cardinality(U) + 1 /\ Cardinality(S \cup {c}) = Cardinality(S) + 1
    BY <2>2, FS_AddElement
  <2> QED BY <1>1, <1>7, <2>1, <2>3
<1>9. Count' = Count /\ Merged' = Merged /\ (Abundant' <=> Abundant) /\ (Open' <=> Open)
  BY <1>1 DEF Count, Merged, Abundant, IsFinal, Open, Row, This
<1>10. Merged \in Nat
  BY <1>3 DEF Merged
<1>11. Counted'
  <2>1. Output(Count, 1)' = Output(Count, 1)
    BY <1>9 DEF Output
  <2>2. CASE Abundant
    BY <1>7, <1>9, <2>1, <2>2 DEF IRounds, Settling, Counted
  <2>3. CASE ~Abundant
    <3>1. Cardinality(Unspent) = Cardinality(supply) - Merged
      BY <2>3 DEF IRounds, Settling, Counted
    <3>2. Cardinality(Unspent') = Cardinality(supply') - Merged'
      BY <1>5, <1>8, <1>9, <1>10, <3>1
    <3> QED BY <1>9, <2>3, <3>2 DEF Counted
  <2> QED BY <2>2, <2>3
<1>12. \A k : Reach(k) \subseteq Reach(k)'
  BY <1>1 DEF Reach
<1>13. Merges'
  BY <1>1, <1>9, <1>12 DEF IRounds, Settling, Merges, Merging
<1>14. Relays'
  BY <1>1, <1>9 DEF IRounds, Settling, Relays, IsFinal
<1>15. Read'
  <2>1. Output(Count, 1)' = Output(Count, 1) /\ Reach(Count) \subseteq Reach(Count)'
    BY <1>1, <1>9, <1>12 DEF Output, Reach
  <2> QED BY <1>1, <1>7, <1>9, <2>1 DEF IRounds, Settling, Read, Merging
<1>16. FewRounds'
  BY <1>1, <1>3, <1>5, <1>8 DEF IRounds, Settling, FewRounds, Count
<1> QED BY <1>11, <1>13, <1>14, <1>15, <1>16 DEF Settling

\* After a reorganisation of final history nothing is claimed.
LEMMA UndoRoundsKeeps ==
    ASSUME IFunds, IRounds, NEW lost, UndoRounds(lost)
    PROVE  IRounds'
<1>1. UNCHANGED <<supply, need>> /\ era' = era + 1 /\ era \in Nat
  BY DEF UndoRounds, IFunds, HistoryTyped
<1>2. era' # 0
  BY <1>1
<1> QED BY <1>1, <1>2 DEF IRounds

\* The invariant holds initially.
LEMMA CoinsInit == InitFunds => IRounds
<1> SUFFICES ASSUME InitFunds PROVE IRounds
  OBVIOUS
<1>1. /\ need \in Needs /\ supply \subseteq Piece /\ rounds = <<>> /\ relayed = {} /\ job.pc = "rest"
      /\ settled = [k \in 1..MaxRounds |-> Never]
  BY DEF InitFunds, AtRest
<1>2. Count = 0 /\ DOMAIN rounds = {}
  BY <1>1 DEF Count
<1>3. Merges /\ Relays /\ Read /\ FewRounds /\ ~Abundant
  BY <1>1, <1>2 DEF Merges, Relays, Read, FewRounds, Abundant, IsFinal
<1>4. Unspent = supply
  BY <1>2 DEF Unspent, Taken
<1>5. Merged = 0
  BY <1>2 DEF Merged
<1>6. Cardinality(supply) \in Nat
  <2>1. IsFiniteSet(Piece) /\ supply \in SUBSET Piece
    BY <1>1, CoinsAre
  <2>2. IsFiniteSet(supply)
    BY <2>1, FS_Subset
  <2> QED BY <2>2, FS_CardinalityType
<1>7. Counted
  BY <1>3, <1>4, <1>5, <1>6 DEF Counted
<1>8. need \in 1..Limit
  BY <1>1, ConsolidationAssumption
<1> QED BY <1>1, <1>3, <1>7, <1>8 DEF IRounds, Settling

(* Consolidation comes to an end: as long as nothing final is lost, a request *)
(* whose coins number n takes at most n - 2 rounds.                          *)
THEOREM FewRoundsEnough == SpecFunds => []FewRounds
<1>1. IFunds /\ IRounds /\ [NextFunds]_varsFunds => IRounds'
  <2> SUFFICES ASSUME IFunds, IRounds, [NextFunds]_varsFunds PROVE IRounds'
    OBVIOUS
  <2>1. CASE StartJob \/ VerifyRounds \/ RestartObject
    BY <2>1, PlainSteps
  <2>2. CASE RoundStep
    BY <2>2, PlainSteps, ReadFundsStep, BuildRoundStep, ClaimRoundKeeps, SaveRoundKeeps, LaterRowsKeep,
       SendRoundKeeps DEF RoundStep
  <2>3. CASE EndRequest \/ HaltDistribution \/ ResumeDistribution \/ UNCHANGED varsFunds
    BY <2>3, OperatorSteps
  <2>4. CASE \E c \in Piece : DepositPiece(c)
    BY <2>4, DepositPieceKeeps
  <2>5. CASE \E k \in relayed : SettleRound(k)
    BY <2>5, SettleRoundKeeps
  <2>6. CASE \E lost \in SUBSET (1..MaxRounds) : UndoRounds(lost)
    BY <2>6, UndoRoundsKeeps
  <2> QED BY <2>1, <2>2, <2>3, <2>4, <2>5, <2>6 DEF NextFunds
<1>2. IRounds => FewRounds
  BY DEF IRounds, Settling, FewRounds
<1> QED BY CoinsInit, FundsInvariant, <1>1, <1>2, PTL DEF SpecFunds
=============================================================================
