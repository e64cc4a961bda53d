----------------------------- MODULE WalletProofs -----------------------------
(***************************************************************************)
(* Proofs about what the wallet keeps itself, for all values of the         *)
(* constants: the submitter's journal (Submission), the owner's store       *)
(* (OwnerStore) and, at the end, what is read of the pool's history         *)
(* (HistorySync), which share no state.                                     *)
(*                                                                          *)
(* Submission, for any number of processes, operations, attempts and        *)
(* blocks.  The invariant ties what a process holds between two steps to    *)
(* the journal: the row it sends for, the row it replaces, and what it has  *)
(* seen executed for good.                                                  *)
(***************************************************************************)
EXTENDS Submission, OwnerStore, HistorySync, FiniteSetTheorems, SequenceTheorems,
        WellFoundedInduction, TLAPS

Row == [op : Operation, nonce : Nat, fee : Nat,
        state : {"prepared", "pending", "unknown"}, hash : BOOLEAN]
Intent == [op : Operation, nonce : Nat, fee : Nat]
Transaction == [op : Operation, nonce : Nat, fee : Nat, row : Nat]
Block == [op : Operation \cup {NoAttempt}, row : Nat, ok : BOOLEAN]
Partial(S) == UNION {[D -> S] : D \in SUBSET Nat}

Call == [pc : {"idle", "quote", "persist", "send", "sent", "unsure", "observe"},
         call : {"none", "submit", "retry", "replace"},
         op : Operation \cup {NoAttempt}, base : Nat \cup {NoAttempt},
         intent : Intent \cup {NoAttempt}, row : Nat \cup {NoAttempt},
         seen : Partial(Row), preflight : {"none", "executed", "conflict", "ready"},
         outer : Partial({"pending", "success", "failed", "unconfirmed"}),
         executed : BOOLEAN]

TypeSubmission ==
    /\ rows \in Seq(Row) /\ network \subseteq Transaction
    /\ mined \in Seq(Block) /\ finalized \in 0..Len(mined)
    /\ process \in [Process -> Call]

\* A transaction is the one its row announced, and a nonce has one operation.
Journaled ==
    /\ \A a, b \in DOMAIN rows : rows[a].nonce = rows[b].nonce => rows[a].op = rows[b].op
    /\ \A t \in network :
          /\ t.row \in DOMAIN rows
          /\ rows[t.row].op = t.op /\ rows[t.row].nonce = t.nonce

\* What a process relies on between two of its steps.
Holds(p) ==
    LET c == process[p]
    IN /\ c.pc \in {"persist", "send", "sent", "unsure"} => c.intent \in Intent
       /\ c.pc \in {"send", "sent", "unsure"} =>
             /\ c.row \in DOMAIN rows
             /\ rows[c.row].op = c.intent.op /\ rows[c.row].nonce = c.intent.nonce
       /\ c.pc \in {"quote", "observe"} => c.op \in Operation
       /\ c.pc = "observe" \/ (c.pc = "quote" /\ c.call = "replace") => c.base \in DOMAIN rows
       /\ c.executed => ExecutedIn(FinalChain, c.op)

ISubmission ==
    /\ TypeSubmission
    /\ Journaled
    /\ \A p \in Process : Holds(p)
    /\ ExecutedIsFinal

-----------------------------------------------------------------------------
\* A set of positions in a sequence that is not empty has a last one.
LEMMA LastPosition ==
    ASSUME NEW n \in Nat, NEW S \in SUBSET (1..n), S # {}
    PROVE  Max(S) \in S
PROOF
<1> DEFINE T == {k \in Nat : n - k \in S}
<1>1. T \subseteq Nat /\ T # {}
  <2>1. PICK a \in S : TRUE
    OBVIOUS
  <2>2. n - a \in Nat /\ n - (n - a) = a
    BY <2>1
  <2> QED BY <2>1, <2>2
<1>2. PICK k \in T : \A l \in T : ~(<<l, k>> \in OpToRel(<, Nat))
  BY ONLY <1>1, NatLessThanWellFounded, WFMin
<1>3. \A l \in T : ~(l < k)
  BY <1>1, <1>2 DEF OpToRel
<1>4. \A x \in S : n - k >= x
  <2> SUFFICES ASSUME NEW x \in S PROVE n - k >= x
    OBVIOUS
  <2>1. n - x \in T
    <3>1. n - x \in Nat /\ n - (n - x) = x
      OBVIOUS
    <3> QED BY <3>1
  <2> QED BY <1>1, <1>3, <2>1
<1>5. \E x \in S : \A y \in S : x >= y
  BY <1>1, <1>4
<1> QED BY <1>5 DEF Max

\* A prefix of a sequence keeps its elements.
LEMMA Prefix ==
    ASSUME NEW S, NEW s, NEW n \in Nat, \A i \in 1..n : s[i] \in S
    PROVE  LET t == SubSeq(s, 1, n)
           IN /\ t \in Seq(S) /\ Len(t) = n /\ DOMAIN t = 1..n
              /\ \A i \in 1..n : t[i] = s[i]
PROOF BY SubSeqProperties, LenProperties

\* The finalized chain is the beginning of the canonical one.
LEMMA FinalPart ==
    ASSUME TypeSubmission
    PROVE  /\ FinalChain \in Seq(Block) /\ Len(FinalChain) = finalized
           /\ DOMAIN FinalChain = 1..finalized
           /\ \A n \in 1..finalized : FinalChain[n] = mined[n]
PROOF
<1>1. finalized \in Nat /\ \A n \in 1..finalized : mined[n] \in Block
  BY DEF TypeSubmission
<1> QED BY <1>1, Prefix DEF FinalChain

\* A nonce is a number.
LEMMA NonceType ==
    ASSUME TypeSubmission
    PROVE  Nonce \in Nat
PROOF
<1> DEFINE own == {n \in DOMAIN mined : mined[n].row # 0}
<1>1. DOMAIN mined = 1..Len(mined) /\ Len(mined) \in Nat
  BY LenProperties DEF TypeSubmission
<1>2. IsFiniteSet(DOMAIN mined)
  BY <1>1, FS_Interval
<1>3. IsFiniteSet(own)
  BY <1>2, FS_Subset
<1> QED BY <1>3, FS_CardinalityType DEF Nonce

\* What is executed for good stays so in every step that types allow.
LEMMA FinalStays ==
    ASSUME TypeSubmission, TypeSubmission',
           \/ UNCHANGED <<mined, finalized>>
           \/ finalized' = finalized /\ \A n \in 1..finalized : mined'[n] = mined[n]
           \/ mined' = mined /\ finalized <= finalized',
           NEW op, ExecutedIn(FinalChain, op)
    PROVE  ExecutedIn(FinalChain, op)'
PROOF
<1>1. PICK n \in 1..finalized : mined[n].ok /\ mined[n].op = op
  BY FinalPart DEF ExecutedIn
<1>2. n \in 1..finalized' /\ mined'[n] = mined[n]
  BY <1>1 DEF TypeSubmission
<1>3. DOMAIN FinalChain' = 1..finalized' /\ \A k \in 1..finalized' : FinalChain'[k] = mined'[k]
  <2>1. PICK m, f : m = mined' /\ f = finalized'
    OBVIOUS
  <2>2. f \in Nat /\ \A k \in 1..f : m[k] \in Block
    BY <2>1 DEF TypeSubmission
  <2>3. DOMAIN SubSeq(m, 1, f) = 1..f /\ \A k \in 1..f : SubSeq(m, 1, f)[k] = m[k]
    BY <2>2, Prefix
  <2> QED BY <2>1, <2>3 DEF FinalChain
<1> QED BY <1>1, <1>2, <1>3 DEF ExecutedIn
-----------------------------------------------------------------------------
\* A resting process is a state of a process.
LEMMA RestingType == Resting \in Call
PROOF
<1>1. ASSUME NEW S PROVE <<>> \in Partial(S)
  <2>1. <<>> \in [1..0 -> S] /\ 1..0 \in SUBSET Nat
    BY EmptySeq, LenProperties
  <2> QED BY <2>1 DEF Partial
<1> QED BY <1>1 DEF Resting, Call

\* The invariant holds initially.
LEMMA SubmissionInitially == InitSubmission => ISubmission
PROOF
<1> SUFFICES ASSUME InitSubmission PROVE ISubmission
  OBVIOUS
<1>3. TypeSubmission
  BY RestingType, EmptySeq DEF InitSubmission, TypeSubmission
<1>4. Journaled
  BY DEF InitSubmission, Journaled
<1>5. \A p \in Process : Holds(p)
  BY DEF InitSubmission, Holds, Resting
<1> QED BY <1>3, <1>4, <1>5 DEF ISubmission, InitSubmission, ExecutedIsFinal

\* A process that does nothing keeps what it relies on, if the journal's rows
\* keep their operation and nonce, and the finalized chain what is in it.
LEMMA HoldsStays ==
    ASSUME NEW p \in Process, Holds(p), process'[p] = process[p],
           \A a \in DOMAIN rows : /\ a \in DOMAIN rows'
                                  /\ rows'[a].op = rows[a].op /\ rows'[a].nonce = rows[a].nonce,
           \A op : ExecutedIn(FinalChain, op) => ExecutedIn(FinalChain, op)'
    PROVE  Holds(p)'
PROOF
<1> USE DEF Holds
<1>1. process[p].executed => ExecutedIn(FinalChain, process[p].op)'
  <2>1. PICK op : op = process[p].op
    OBVIOUS
  <2>2. process[p].executed => ExecutedIn(FinalChain, op)'
    BY <2>1
  <2>3. process'[p].op = op
    BY <2>1
  <2> QED BY <2>2, <2>3 DEF ExecutedIn
<1> QED BY <1>1

\* The chain moves; journal and processes stay.
LEMMA ChainStep ==
    ASSUME ISubmission, UNCHANGED <<rows, network, process, told>>,
           mined' \in Seq(Block), finalized' \in 0..Len(mined'),
           \/ finalized' = finalized /\ \A n \in 1..finalized : mined'[n] = mined[n]
           \/ mined' = mined /\ finalized <= finalized'
    PROVE  ISubmission'
PROOF
<1>1. TypeSubmission'
  BY DEF ISubmission, TypeSubmission
<1>2. \A op : ExecutedIn(FinalChain, op) => ExecutedIn(FinalChain, op)'
  BY <1>1, FinalStays DEF ISubmission
<1>3. \A p \in Process : Holds(p)'
  BY <1>2, HoldsStays DEF ISubmission
<1>4. Journaled'
  BY DEF ISubmission, Journaled
<1>5. ExecutedIsFinal'
  BY <1>2 DEF ISubmission, ExecutedIsFinal
<1> QED BY <1>1, <1>3, <1>4, <1>5 DEF ISubmission

\* One process moves; the chain stays, and the journal's rows keep their
\* operation and nonce.
LEMMA CallStep ==
    ASSUME ISubmission, UNCHANGED <<mined, finalized>>, NEW p \in Process,
           rows' \in Seq(Row), network' \subseteq Transaction,
           NEW c \in Call, process' = [process EXCEPT ![p] = c],
           \A a \in DOMAIN rows : /\ a \in DOMAIN rows'
                                  /\ rows'[a].op = rows[a].op /\ rows'[a].nonce = rows[a].nonce,
           Journaled', Holds(p)', ExecutedIsFinal'
    PROVE  ISubmission'
PROOF
<1>1. TypeSubmission'
  BY DEF ISubmission, TypeSubmission
<1>2. \A op : ExecutedIn(FinalChain, op) => ExecutedIn(FinalChain, op)'
  BY <1>1, FinalStays DEF ISubmission
<1>3. ASSUME NEW q \in Process PROVE Holds(q)'
  <2>1. CASE q = p
    BY <2>1
  <2>2. CASE q # p
    <3>1. process'[q] = process[q]
      BY <2>2 DEF ISubmission, TypeSubmission
    <3> QED BY <3>1, <1>2, HoldsStays DEF ISubmission
  <2> QED BY <2>1, <2>2
<1> QED BY <1>1, <1>3 DEF ISubmission

-----------------------------------------------------------------------------
\* The blocks of an account, and of others, come and go.
LEMMA ChainKept ==
    ASSUME ISubmission, MineTx \/ MineForeign \/ FinalizeMined \/ Unmine
    PROVE  ISubmission'
PROOF
<1>1. /\ mined \in Seq(Block) /\ finalized \in 0..Len(mined)
      /\ Len(mined) \in Nat /\ network \subseteq Transaction
  BY LenProperties DEF ISubmission, TypeSubmission
<1>2. ASSUME NEW b \in Block, mined' = Append(mined, b), finalized' = finalized
      PROVE  /\ mined' \in Seq(Block) /\ finalized' \in 0..Len(mined')
             /\ \A n \in 1..finalized : mined'[n] = mined[n]
  <2>1. mined' \in Seq(Block) /\ Len(mined') = Len(mined) + 1
        /\ \A n \in 1..Len(mined) : mined'[n] = mined[n]
    BY <1>1, <1>2, AppendProperties
  <2> QED BY <1>1, <1>2, <2>1
<1>3. CASE MineTx
  <2>1. PICK t \in network, ok \in BOOLEAN : mined' = Append(mined, [op |-> t.op, row |-> t.row, ok |-> ok])
    BY <1>3 DEF MineTx
  <2>2. [op |-> t.op, row |-> t.row, ok |-> ok] \in Block
    BY <1>1 DEF Transaction, Block
  <2>3. UNCHANGED <<rows, network, finalized, process, told>>
    BY <1>3 DEF MineTx
  <2>4. /\ mined' \in Seq(Block) /\ finalized' \in 0..Len(mined')
        /\ \A n \in 1..finalized : mined'[n] = mined[n]
    BY <1>2, <2>1, <2>2, <2>3
  <2> QED BY <2>3, <2>4, ChainStep
<1>4. CASE MineForeign
  <2>1. PICK op \in Operation \cup {NoAttempt} : mined' = Append(mined, [op |-> op, row |-> 0, ok |-> TRUE])
    BY <1>4 DEF MineForeign
  <2>2. [op |-> op, row |-> 0, ok |-> TRUE] \in Block
    BY DEF Block
  <2>3. UNCHANGED <<rows, network, finalized, process, told>>
    BY <1>4 DEF MineForeign
  <2>4. /\ mined' \in Seq(Block) /\ finalized' \in 0..Len(mined')
        /\ \A n \in 1..finalized : mined'[n] = mined[n]
    BY <1>2, <2>1, <2>2, <2>3
  <2> QED BY <2>3, <2>4, ChainStep
<1>5. CASE FinalizeMined
  <2>1. finalized' = Len(mined) /\ UNCHANGED <<rows, network, mined, process, told>>
    BY <1>5 DEF FinalizeMined
  <2>2. mined' \in Seq(Block) /\ finalized' \in 0..Len(mined') /\ finalized <= finalized'
    BY <1>1, <2>1
  <2> QED BY <2>1, <2>2, ChainStep
<1>6. CASE Unmine
  <2>1. mined' = FinalChain /\ UNCHANGED <<rows, network, finalized, process, told>>
    BY <1>6 DEF Unmine
  <2>2. FinalChain \in Seq(Block) /\ Len(FinalChain) = finalized
        /\ \A n \in 1..finalized : FinalChain[n] = mined[n]
    BY FinalPart DEF ISubmission
  <2>3. mined' \in Seq(Block) /\ finalized' \in 0..Len(mined')
        /\ \A n \in 1..finalized : mined'[n] = mined[n]
    BY <1>1, <2>1, <2>2
  <2> QED BY <2>1, <2>3, ChainStep
<1> QED BY <1>3, <1>4, <1>5, <1>6

\* Nothing is claimed of a resting process.
LEMMA RestingHolds ==
    ASSUME NEW p \in Process, process'[p] = Resting
    PROVE  Holds(p)'
PROOF BY DEF Holds, Resting

\* Steps that change a process and nothing else, but what it has told.
LEMMA QuietStep ==
    ASSUME ISubmission, UNCHANGED <<rows, network, mined, finalized>>, NEW p \in Process,
           NEW c \in Call, process' = [process EXCEPT ![p] = c],
           Holds(p)', ExecutedIsFinal'
    PROVE  ISubmission'
PROOF
<1>1. rows' \in Seq(Row) /\ network' \subseteq Transaction
  BY DEF ISubmission, TypeSubmission
<1>2. Journaled'
  BY DEF ISubmission, Journaled
<1>3. \A a \in DOMAIN rows : /\ a \in DOMAIN rows'
                             /\ rows'[a].op = rows[a].op /\ rows'[a].nonce = rows[a].nonce
  OBVIOUS
<1> QED BY <1>1, <1>2, <1>3, CallStep

\* Without a change of the chain, what was told stays true.
LEMMA ToldStays ==
    ASSUME ISubmission, UNCHANGED <<mined, finalized, told>>
    PROVE  ExecutedIsFinal'
PROOF
<1>1. FinalChain' = FinalChain
  BY DEF FinalChain
<1> QED BY <1>1 DEF ISubmission, ExecutedIsFinal, ExecutedIn

\* The start of a submission keeps the invariant.
LEMMA SubmitKept ==
    ASSUME ISubmission, NEW p \in Process, Submit(p)
    PROVE  ISubmission'
PROOF
<1>1. PICK op \in Operation :
         process' = [process EXCEPT ![p] = [Resting EXCEPT !.pc = "quote", !.call = "submit", !.op = op]]
  BY DEF Submit
<1> DEFINE c == [Resting EXCEPT !.pc = "quote", !.call = "submit", !.op = op]
<1>2. c \in Call /\ c.pc = "quote" /\ c.call = "submit" /\ c.op = op /\ c.executed = FALSE
  BY RestingType DEF Call, Resting
<1>3. process'[p] = c
  BY <1>1 DEF ISubmission, TypeSubmission
<1>4. Holds(p)'
  BY <1>2, <1>3 DEF Holds
<1>5. UNCHANGED <<rows, network, mined, finalized, told>> /\ ExecutedIsFinal'
  BY ToldStays DEF Submit
<1> HIDE DEF c
<1> QED BY <1>1, <1>2, <1>4, <1>5, QuietStep DEF c

\* The quote keeps the invariant.
LEMMA QuoteKept ==
    ASSUME ISubmission, NEW p \in Process, Quote(p)
    PROVE  ISubmission'
PROOF
<1>1. process[p] \in Call /\ process[p].pc = "quote" /\ Holds(p) /\ Nonce \in Nat
      /\ rows \in Seq(Row)
  BY NonceType DEF Quote, ISubmission, TypeSubmission
<1>2. PICK intent : /\ process' = [process EXCEPT ![p].pc = "persist", ![p].intent = intent]
                    /\ intent \in Intent
  <2>1. CASE process[p].call = "replace"
    <3>1. rows[process[p].base] \in Row /\ process[p].op \in Operation
      BY <1>1, <2>1, LenProperties, ElementOfSeq DEF Holds
    <3>2. [op |-> process[p].op, nonce |-> rows[process[p].base].nonce,
           fee |-> rows[process[p].base].fee + 1] \in Intent
      BY <3>1 DEF Row, Intent
    <3> QED BY <2>1, <3>2 DEF Quote
  <2>2. CASE process[p].call # "replace"
    <3>1. PendingNonces \subseteq Nat
      BY <1>1, SubmissionAssumption DEF PendingNonces
    <3>2. process[p].op \in Operation
      BY <1>1 DEF Holds
    <3>3. [op : {process[p].op}, nonce : PendingNonces, fee : {1}] \subseteq Intent
      <4> DEFINE o == process[p].op
      <4>1. ASSUME NEW i \in [op : {o}, nonce : PendingNonces, fee : {1}]
            PROVE  i \in Intent
        <5>1. i = [op |-> i.op, nonce |-> i.nonce, fee |-> i.fee]
          OBVIOUS
        <5>2. i.op = o /\ i.nonce \in PendingNonces /\ i.fee = 1
          OBVIOUS
        <5>3. i.op \in Operation
          BY ONLY <3>2, <5>2
        <5>4. i.nonce \in Nat
          BY ONLY <3>1, <5>2
        <5>5. i.fee \in Nat
          BY ONLY <5>2
        <5> QED BY <5>1, <5>3, <5>4, <5>5 DEF Intent
      <4> QED BY <4>1
    <3> QED BY <2>2, <3>3 DEF Quote
  <2> QED BY <2>1, <2>2
<1> DEFINE c == [process[p] EXCEPT !.pc = "persist", !.intent = intent]
<1>3. c \in Call /\ c.pc = "persist" /\ c.intent = intent
      /\ c.op = process[p].op /\ c.executed = process[p].executed
  BY <1>1, <1>2 DEF Call
<1>4. process' = [process EXCEPT ![p] = c]
  BY <1>2
<1>5. process'[p] = c
  BY <1>4 DEF ISubmission, TypeSubmission
<1>6. UNCHANGED <<rows, network, mined, finalized, told>> /\ ExecutedIsFinal'
  BY ToldStays DEF Quote
<1> HIDE DEF c
<1>7. Holds(p)'
  BY <1>1, <1>2, <1>3, <1>5, <1>6 DEF Holds, FinalChain, ExecutedIn
<1> QED BY <1>3, <1>4, <1>6, <1>7, QuietStep

\* The saving of the transaction keeps the invariant.
LEMMA PersistKept ==
    ASSUME ISubmission, NEW p \in Process, Persist(p)
    PROVE  ISubmission'
PROOF
<1> DEFINE intent == process[p].intent
           row == Prepared(intent)
<1>1. /\ process[p] \in Call /\ Holds(p) /\ intent \in Intent
      /\ rows \in Seq(Row) /\ Len(rows) \in Nat /\ DOMAIN rows = 1..Len(rows)
  <2>1. process[p] \in Call /\ Holds(p) /\ rows \in Seq(Row)
    BY DEF ISubmission, TypeSubmission
  <2> QED BY <2>1, LenProperties DEF Persist, Holds
<1>2. row \in Row /\ row.op = intent.op /\ row.nonce = intent.nonce
  BY <1>1 DEF Prepared, Row, Intent
<1>3. /\ rows' = Append(rows, row) /\ NonceFree(intent)
      /\ process' = [process EXCEPT ![p].pc = "send", ![p].row = Len(rows')]
      /\ UNCHANGED <<network, mined, finalized, told>>
  BY DEF Persist
<1> HIDE DEF row, intent
<1>4. /\ rows' \in Seq(Row) /\ Len(rows') = Len(rows) + 1
      /\ \A a \in 1..Len(rows) : rows'[a] = rows[a]
      /\ rows'[Len(rows) + 1] = row
  BY <1>1, <1>2, <1>3, AppendProperties
<1>5. DOMAIN rows' = 1..(Len(rows) + 1)
  BY <1>4, LenProperties
<1>13. PICK n \in Nat : n = Len(rows) + 1
  BY <1>1
<1>15. PICK c : c = [process[p] EXCEPT !.pc = "send", !.row = n]
  OBVIOUS
<1>6. c \in Call /\ c.pc = "send" /\ c.intent = intent /\ c.row = n
      /\ c.op = process[p].op /\ c.executed = process[p].executed
  BY <1>1, <1>15 DEF Call, intent
<1>14. process' = [process EXCEPT ![p] = c]
  BY <1>3, <1>4, <1>13, <1>15
<1>7. process'[p] = c
  BY <1>14 DEF ISubmission, TypeSubmission
<1>8. Holds(p)'
  <2>1. n \in DOMAIN rows' /\ rows'[n].op = intent.op /\ rows'[n].nonce = intent.nonce
    BY <1>1, <1>2, <1>4, <1>5, <1>13
  <2>2. c.executed => ExecutedIn(FinalChain, c.op)'
    BY <1>1, <1>3, <1>6 DEF Holds, FinalChain, ExecutedIn
  <2> QED BY <1>1, <1>6, <1>7, <2>1, <2>2 DEF Holds, ExecutedIn
<1>9. Journaled'
  <2>1. ASSUME NEW a \in DOMAIN rows', NEW b \in DOMAIN rows', rows'[a].nonce = rows'[b].nonce
        PROVE  rows'[a].op = rows'[b].op
    <3>1. CASE a \in 1..Len(rows) /\ b \in 1..Len(rows)
      BY <1>1, <1>4, <2>1, <3>1 DEF ISubmission, Journaled
    <3>2. CASE a \in 1..Len(rows) /\ b = Len(rows) + 1
      BY <1>1, <1>2, <1>3, <1>4, <2>1, <3>2 DEF NonceFree
    <3>3. CASE a = Len(rows) + 1 /\ b \in 1..Len(rows)
      BY <1>1, <1>2, <1>3, <1>4, <2>1, <3>3 DEF NonceFree
    <3>4. CASE a = Len(rows) + 1 /\ b = Len(rows) + 1
      BY <3>4
    <3> QED BY <1>1, <1>5, <3>1, <3>2, <3>3, <3>4
  <2>2. ASSUME NEW t \in network'
        PROVE  t.row \in DOMAIN rows' /\ rows'[t.row].op = t.op /\ rows'[t.row].nonce = t.nonce
    BY <1>1, <1>3, <1>4, <1>5 DEF ISubmission, Journaled
  <2> QED BY <2>1, <2>2 DEF Journaled
<1>10. ExecutedIsFinal'
  BY <1>3, ToldStays
<1>11. network' \subseteq Transaction
  BY <1>3 DEF ISubmission, TypeSubmission
<1>12. \A a \in DOMAIN rows : /\ a \in DOMAIN rows'
                              /\ rows'[a].op = rows[a].op /\ rows'[a].nonce = rows[a].nonce
  BY <1>1, <1>4, <1>5
<1> QED BY <1>14, <1>3, <1>4, <1>6, <1>8, <1>9, <1>10, <1>11, <1>12, CallStep

\* The sending keeps the invariant.
LEMMA SendKept ==
    ASSUME ISubmission, NEW p \in Process, SendTx(p)
    PROVE  ISubmission'
PROOF
<1> DEFINE intent == process[p].intent
           tx == [op |-> intent.op, nonce |-> intent.nonce, fee |-> intent.fee, row |-> process[p].row]
<1>1. /\ process[p] \in Call /\ Holds(p) /\ intent \in Intent /\ rows \in Seq(Row)
      /\ process[p].row \in DOMAIN rows
      /\ rows[process[p].row].op = intent.op /\ rows[process[p].row].nonce = intent.nonce
  <2>1. process[p] \in Call /\ Holds(p) /\ rows \in Seq(Row)
    BY DEF ISubmission, TypeSubmission
  <2> QED BY <2>1 DEF SendTx, Holds
<1>2. tx \in Transaction /\ tx.row \in DOMAIN rows
      /\ rows[tx.row].op = tx.op /\ rows[tx.row].nonce = tx.nonce
  <2>1. process[p].row \in Nat
    BY <1>1, LenProperties
  <2> QED BY <1>1, <2>1 DEF Intent, Transaction
<1>3. PICK pc \in {"sent", "unsure"} : process' = [process EXCEPT ![p].pc = pc]
  BY DEF SendTx
<1>4. network' \in {network, network \cup {tx}} /\ UNCHANGED <<rows, mined, finalized, told>>
  BY DEF SendTx
<1> HIDE DEF tx
<1> DEFINE c == [process[p] EXCEPT !.pc = pc]
<1>5. c \in Call /\ c.pc = pc /\ c.row = process[p].row /\ c.intent = intent
      /\ c.op = process[p].op /\ c.executed = process[p].executed
  BY <1>1 DEF Call
<1>6. process' = [process EXCEPT ![p] = c]
  BY <1>3
<1> HIDE DEF c
<1>7. process'[p] = c
  BY <1>6 DEF ISubmission, TypeSubmission
<1>8. Holds(p)'
  BY <1>1, <1>4, <1>5, <1>7 DEF Holds, FinalChain, ExecutedIn
<1>9. Journaled'
  BY <1>2, <1>4 DEF ISubmission, Journaled
<1>10. ExecutedIsFinal'
  BY <1>4, ToldStays
<1>11. network' \subseteq Transaction /\ rows' \in Seq(Row)
  BY <1>1, <1>2, <1>4 DEF ISubmission, TypeSubmission
<1>12. \A a \in DOMAIN rows : /\ a \in DOMAIN rows'
                              /\ rows'[a].op = rows[a].op /\ rows'[a].nonce = rows[a].nonce
  BY <1>4
<1> QED BY <1>4, <1>5, <1>6, <1>8, <1>9, <1>10, <1>11, <1>12, CallStep

\* The record of the sending keeps the invariant.
LEMMA RecordKept ==
    ASSUME ISubmission, NEW p \in Process, Record(p)
    PROVE  ISubmission'
PROOF
<1> DEFINE r == process[p].row
<1>1. process[p] \in Call /\ Holds(p) /\ rows \in Seq(Row) /\ r \in DOMAIN rows /\ rows[r] \in Row
  <2>1. process[p] \in Call /\ Holds(p) /\ rows \in Seq(Row)
    BY DEF ISubmission, TypeSubmission
  <2> QED BY <2>1, LenProperties DEF Record, Holds
<1>2. PICK state \in {"pending", "unknown"}, hash \in BOOLEAN :
         rows' = [rows EXCEPT ![r] = [rows[r] EXCEPT !.state = state, !.hash = hash]]
  <2>1. PICK heard \in BOOLEAN :
           rows' = [rows EXCEPT ![r].state = IF heard THEN "pending" ELSE "unknown", ![r].hash = heard]
    BY DEF Record
  <2>2. rows' = [rows EXCEPT ![r] = [rows[r] EXCEPT !.state = IF heard THEN "pending" ELSE "unknown",
                                                   !.hash = heard]]
    BY <1>1, <2>1
  <2> QED BY <2>2
<1> DEFINE row == [rows[r] EXCEPT !.state = state, !.hash = hash]
<1>3. row \in Row /\ row.op = rows[r].op /\ row.nonce = rows[r].nonce
  BY <1>1 DEF Row
<1>4. /\ process' = [process EXCEPT ![p] = Resting]
      /\ UNCHANGED <<network, mined, finalized, told>>
  BY DEF Record
<1>5. rows' = [rows EXCEPT ![r] = row]
  BY <1>2
<1> HIDE DEF row, r
<1>6. rows' \in Seq(Row) /\ Len(rows') = Len(rows)
      /\ \A a \in DOMAIN rows : rows'[a] = IF a = r THEN row ELSE rows[a]
  <2>1. r \in 1..Len(rows) /\ DOMAIN rows = 1..Len(rows)
    BY <1>1, LenProperties
  <2> QED BY <1>1, <1>3, <1>5, <2>1, ExceptSeq
<1>7. DOMAIN rows' = DOMAIN rows
  BY <1>1, <1>6, LenProperties
<1>8. \A a \in DOMAIN rows : /\ a \in DOMAIN rows'
                             /\ rows'[a].op = rows[a].op /\ rows'[a].nonce = rows[a].nonce
  BY <1>3, <1>6, <1>7
<1>9. Journaled'
  <2>1. ASSUME NEW a \in DOMAIN rows', NEW b \in DOMAIN rows', rows'[a].nonce = rows'[b].nonce
        PROVE  rows'[a].op = rows'[b].op
    BY <1>7, <1>8, <2>1 DEF ISubmission, Journaled
  <2>2. ASSUME NEW t \in network'
        PROVE  t.row \in DOMAIN rows' /\ rows'[t.row].op = t.op /\ rows'[t.row].nonce = t.nonce
    BY <1>4, <1>7, <1>8 DEF ISubmission, Journaled
  <2> QED BY <2>1, <2>2 DEF Journaled
<1>10. process'[p] = Resting
  BY <1>4 DEF ISubmission, TypeSubmission
<1>11. Holds(p)' /\ ExecutedIsFinal' /\ network' \subseteq Transaction
  BY <1>4, <1>10, RestingHolds, ToldStays DEF ISubmission, TypeSubmission
<1> QED BY <1>4, <1>6, <1>8, <1>9, <1>11, RestingType, CallStep

\* A failure in between keeps the invariant.
LEMMA BreakKept ==
    ASSUME ISubmission, NEW p \in Process, Break(p)
    PROVE  ISubmission'
PROOF
<1>1. /\ process' = [process EXCEPT ![p] = Resting]
      /\ UNCHANGED <<rows, network, mined, finalized, told>>
  BY DEF Break
<1>2. process'[p] = Resting
  BY <1>1 DEF ISubmission, TypeSubmission
<1> QED BY <1>1, <1>2, RestingHolds, RestingType, ToldStays, QuietStep, Zenon

\* An inspection keeps the invariant.
LEMMA InspectKept ==
    ASSUME ISubmission, NEW p \in Process, Inspect(p)
    PROVE  ISubmission'
PROOF
<1>1. PICK op \in Operation, call \in {"retry", "replace"} :
         /\ RowsOf(op) # {}
         /\ process' = [process EXCEPT ![p] =
               [Resting EXCEPT !.pc = "observe", !.call = call, !.op = op, !.base = Max(RowsOf(op)),
                   !.preflight = Preflight(op), !.seen = [a \in RowsOf(op) |-> rows[a]]]]
  BY Zenon DEF Inspect
<1>2. /\ rows \in Seq(Row) /\ Len(rows) \in Nat /\ DOMAIN rows = 1..Len(rows)
      /\ \A a \in DOMAIN rows : rows[a] \in Row
  BY LenProperties, ElementOfSeq DEF ISubmission, TypeSubmission
<1>3. RowsOf(op) \in SUBSET (1..Len(rows))
  BY <1>2 DEF RowsOf
<1>4. PICK last : last = Max(RowsOf(op)) /\ last \in DOMAIN rows /\ last \in Nat
  BY <1>1, <1>2, <1>3, LastPosition
<1>5. PICK seen \in Partial(Row) : seen = [a \in RowsOf(op) |-> rows[a]]
  <2>1. RowsOf(op) \in SUBSET Nat /\ \A a \in RowsOf(op) : rows[a] \in Row
    BY <1>2, <1>3
  <2>2. [a \in RowsOf(op) |-> rows[a]] \in [RowsOf(op) -> Row]
    BY <2>1
  <2> QED BY <2>1, <2>2 DEF Partial
<1>6. PICK ready \in {"executed", "conflict", "ready"} : ready = Preflight(op)
  BY DEF Preflight
<1>7. PICK c : c = [Resting EXCEPT !.pc = "observe", !.call = call, !.op = op, !.base = last,
                        !.preflight = ready, !.seen = seen]
  OBVIOUS
<1>8. c \in Call /\ c.pc = "observe" /\ c.op = op /\ c.base = last /\ c.executed = FALSE
  BY <1>4, <1>7, RestingType DEF Call, Resting
<1>9. process' = [process EXCEPT ![p] = c]
  BY <1>1, <1>4, <1>5, <1>6, <1>7
<1>10. process'[p] = c
  BY <1>9 DEF ISubmission, TypeSubmission
<1>11. UNCHANGED <<rows, network, mined, finalized, told>>
  BY DEF Inspect
<1>12. Holds(p)'
  BY <1>4, <1>8, <1>10, <1>11 DEF Holds
<1> QED BY <1>8, <1>9, <1>11, <1>12, ToldStays, QuietStep, Zenon

\* An observation of the finalized chain keeps the invariant.
LEMMA ObserveKept ==
    ASSUME ISubmission, NEW p \in Process, Observe(p)
    PROVE  ISubmission'
PROOF
<1>1. process[p] \in Call /\ Holds(p) /\ process[p].pc = "observe"
  BY DEF ISubmission, TypeSubmission, Observe
<1>2. PICK a \in Hashed(process[p].seen), result \in {"pending", "success", "failed", "unconfirmed"} :
         process' = [process EXCEPT ![p].outer = [b \in DOMAIN @ \cup {a} |->
                                       IF b = a THEN result ELSE @[b]],
                                    ![p].executed = @ \/ ExecutedFinally(process[p].op)]
  BY DEF Observe
<1> DEFINE result4 == {"pending", "success", "failed", "unconfirmed"}
           old == process[p].outer
<1>3. PICK outer \in Partial(result4) :
         outer = [b \in DOMAIN old \cup {a} |-> IF b = a THEN result ELSE old[b]]
  <2>1. process[p].seen \in Partial(Row) /\ old \in Partial(result4)
    BY <1>1 DEF Call
  <2>2. a \in Nat
    BY <2>1 DEF Hashed, Partial
  <2>3. PICK D \in SUBSET Nat : old \in [D -> result4]
    BY <2>1 DEF Partial
  <2>4. [b \in DOMAIN old \cup {a} |-> IF b = a THEN result ELSE old[b]] \in [D \cup {a} -> result4]
    BY <2>3
  <2>5. D \cup {a} \in SUBSET Nat
    BY <2>2
  <2> QED BY <2>4, <2>5 DEF Partial
<1>4. PICK executed \in BOOLEAN : executed = (process[p].executed \/ ExecutedFinally(process[p].op))
  OBVIOUS
<1>5. PICK c : c = [process[p] EXCEPT !.outer = outer, !.executed = executed]
  OBVIOUS
<1>6. c \in Call /\ c.pc = "observe" /\ c.op = process[p].op /\ c.base = process[p].base
      /\ c.executed = executed
  BY <1>1, <1>5 DEF Call
<1>7. process' = [process EXCEPT ![p] = c]
  <2>1. process \in [Process -> Call]
    BY DEF ISubmission, TypeSubmission
  <2> QED BY <1>2, <1>3, <1>4, <1>5, <2>1
<1>8. process'[p] = c
  BY <1>7 DEF ISubmission, TypeSubmission
<1>9. UNCHANGED <<rows, network, mined, finalized, told>>
  BY DEF Observe
<1>10. Holds(p)'
  <2>1. executed => ExecutedIn(FinalChain, c.op)'
    BY <1>1, <1>4, <1>6, <1>9 DEF Holds, ExecutedFinally, ExecutedIn, FinalChain
  <2> QED BY <1>1, <1>6, <1>8, <1>9, <2>1 DEF Holds, ExecutedIn
<1> QED BY <1>6, <1>7, <1>9, <1>10, ToldStays, QuietStep

\* Only what was seen in a finalized block is told.
LEMMA VerdictKept ==
    ASSUME ISubmission, NEW p \in Process, GiveVerdict(p)
    PROVE  ISubmission'
PROOF
<1>1. process[p] \in Call /\ Holds(p) /\ process[p].pc = "observe"
  BY DEF ISubmission, TypeSubmission, GiveVerdict
<1>2. PICK c : /\ c = IF Goes(process[p])
                      THEN [Resting EXCEPT !.pc = "quote", !.call = process[p].call,
                                           !.op = process[p].op, !.base = process[p].base]
                      ELSE Resting
               /\ process' = [process EXCEPT ![p] = c]
  BY DEF GiveVerdict
<1>3. /\ c \in Call /\ c.pc \in {"quote", "idle"} /\ c.executed = FALSE
      /\ c.pc = "quote" => c.op = process[p].op /\ c.base = process[p].base
  <2>1. CASE c = Resting
    BY <2>1, RestingType DEF Resting
  <2>2. CASE c = [Resting EXCEPT !.pc = "quote", !.call = process[p].call,
                                 !.op = process[p].op, !.base = process[p].base]
    BY <1>1, <2>2, RestingType DEF Call, Resting
  <2> QED BY <1>2, <2>1, <2>2
<1>4. process'[p] = c
  BY <1>2 DEF ISubmission, TypeSubmission
<1>5. UNCHANGED <<rows, network, mined, finalized>>
  BY DEF GiveVerdict
<1>6. Holds(p)'
  BY <1>1, <1>3, <1>4, <1>5 DEF Holds
<1>7. ExecutedIsFinal'
  <2>1. \A op \in told' : ExecutedIn(FinalChain, op)
    <3>1. CASE Status(process[p]) = "executed"
      <4>1. ExecutedIn(FinalChain, process[p].op)
        BY <1>1, <3>1 DEF Status, ExecutedFinally, Holds
      <4>2. told' = told \cup {process[p].op}
        BY <3>1 DEF GiveVerdict
      <4> QED BY <4>1, <4>2 DEF ISubmission, ExecutedIsFinal
    <3>2. CASE Status(process[p]) # "executed"
      BY <3>2 DEF GiveVerdict, ISubmission, ExecutedIsFinal
    <3> QED BY <3>1, <3>2
  <2>2. FinalChain' = FinalChain
    BY <1>5 DEF FinalChain
  <2> QED BY <2>1, <2>2 DEF ExecutedIsFinal, ExecutedIn
<1> QED BY <1>2, <1>3, <1>5, <1>6, <1>7, QuietStep

\* Every step keeps the invariant.
LEMMA SubmissionKept == ISubmission /\ [NextSubmission]_varsSubmission => ISubmission'
PROOF
<1> SUFFICES ASSUME ISubmission, [NextSubmission]_varsSubmission
             PROVE  ISubmission'
  OBVIOUS
<1>1. CASE MineTx \/ MineForeign \/ FinalizeMined \/ Unmine
  BY <1>1, ChainKept
<1>2. ASSUME NEW p \in Process, ProcessStep(p) PROVE ISubmission'
  BY <1>2, SubmitKept, QuoteKept, PersistKept, SendKept, RecordKept, BreakKept,
     InspectKept, ObserveKept, VerdictKept DEF ProcessStep
<1>3. CASE UNCHANGED varsSubmission
  <2>1. UNCHANGED <<rows, network, mined, finalized, process, told>>
    BY <1>3 DEF varsSubmission
  <2>2. mined' \in Seq(Block) /\ finalized' \in 0..Len(mined') /\ finalized <= finalized'
    BY <2>1 DEF ISubmission, TypeSubmission
  <2> QED BY <2>1, <2>2, ChainStep
<1> QED BY <1>1, <1>2, <1>3 DEF NextSubmission

-----------------------------------------------------------------------------
\* A nonce is only ever used for one operation, whatever the node forgets and
\* however many processes quote, journal and send at the same time (appendPrepared).
THEOREM OneOperationPerNonce == SpecSubmission => []NonceOneOperation
PROOF
<1>1. ISubmission => NonceOneOperation
  BY DEF ISubmission, Journaled, NonceOneOperation
<1> QED BY <1>1, SubmissionInitially, SubmissionKept, PTL DEF SpecSubmission

\* What inspect calls executed is in the finalized chain and stays there, however
\* its reads were interleaved with blocks and reorganisations (observeAttempt).
THEOREM ToldOnlyFinal == SpecSubmission => []ExecutedIsFinal
PROOF
<1>1. ISubmission => ExecutedIsFinal
  BY DEF ISubmission
<1> QED BY <1>1, SubmissionInitially, SubmissionKept, PTL DEF SpecSubmission

\* A verdict that lets a retry go on has seen every attempt fail.
LEMMA FailedIsKnown ==
    ASSUME ISubmission, NEW p \in Process, GiveVerdict(p), Retries(p)
    PROVE  /\ DOMAIN process[p].outer = DOMAIN process[p].seen
           /\ \A a \in DOMAIN process[p].outer : process[p].outer[a] = "failed"
PROOF
<1>1. process'[p] = IF Goes(process[p])
                    THEN [Resting EXCEPT !.pc = "quote", !.call = process[p].call,
                                         !.op = process[p].op, !.base = process[p].base]
                    ELSE Resting
  BY DEF GiveVerdict, ISubmission, TypeSubmission
<1>2. Goes(process[p])
  BY <1>1 DEF Retries, Resting
<1>3. Status(process[p]) = "failed"
  BY <1>2 DEF Goes, Retries
<1>4. ~Unknown(process[p]) /\ \A a \in DOMAIN process[p].outer : process[p].outer[a] = "failed"
  BY <1>3 DEF Status
<1>5. Hashed(process[p].seen) = DOMAIN process[p].seen
  BY <1>4 DEF Unknown, Hashed
<1>6. DOMAIN process[p].outer = Hashed(process[p].seen)
  BY DEF GiveVerdict
<1> QED BY <1>4, <1>5, <1>6

\* No retry while an attempt it knows of may still be sent, pending or unanswered
\* (inspect, retry).
THEOREM RetriesKnowAll == SpecSubmission => RetryKnowsAll
PROOF
<1> DEFINE Known == \A p \in Process : Retries(p) =>
                       \A t \in network : t.row \in DOMAIN process[p].seen =>
                          t.row \in DOMAIN process[p].outer /\ process[p].outer[t.row] = "failed"
<1>1. ASSUME ISubmission, NextSubmission, NEW p \in Process, Retries(p)
      PROVE  GiveVerdict(p)
  <2>1. process \in [Process -> Call] /\ process[p].pc = "observe" /\ process'[p].pc = "quote"
    BY <1>1 DEF ISubmission, TypeSubmission, Retries
  <2>2. process' # process
    BY <2>1
  <2>3. PICK q \in Process : ProcessStep(q)
    BY <1>1, <2>2 DEF NextSubmission, MineTx, MineForeign, FinalizeMined, Unmine
  <2>4. \A o \in Process \ {q} : process'[o] = process[o]
    <3>1. CASE Submit(q)
      BY <2>1, <3>1 DEF Submit
    <3>5. CASE Quote(q)
      BY <2>1, <3>5 DEF Quote
    <3>6. CASE Persist(q)
      BY <2>1, <3>6 DEF Persist
    <3>2. CASE SendTx(q)
      BY <2>1, <3>2 DEF SendTx
    <3>7. CASE Record(q)
      <4>1. process' = [process EXCEPT ![q] = Resting]
        BY <3>7 DEF Record
      <4> QED BY <2>1, <4>1
    <3>8. CASE Break(q)
      <4>1. process' = [process EXCEPT ![q] = Resting]
        BY <3>8, Zenon DEF Break
      <4> QED BY <2>1, <4>1
    <3>3. CASE Inspect(q) \/ GiveVerdict(q)
      BY <2>1, <3>3 DEF Inspect, GiveVerdict
    <3>4. CASE Observe(q)
      BY <2>1, <3>4 DEF Observe
    <3> QED BY <2>3, <3>1, <3>2, <3>3, <3>4, <3>5, <3>6, <3>7, <3>8 DEF ProcessStep
  <2>5. q = p
    BY <2>1, <2>4
  <2>6. ~Submit(p) /\ ~Quote(p) /\ ~Persist(p) /\ ~SendTx(p) /\ ~Record(p) /\ ~Inspect(p)
    BY <2>1 DEF Submit, Quote, Persist, SendTx, Record, Inspect
  <2>7. ~Break(p)
    BY <2>1 DEF Break, Resting
  <2>8. ~Observe(p)
    <3> SUFFICES ASSUME Observe(p) PROVE FALSE
      OBVIOUS
    <3>1. PICK x, y : process' = [process EXCEPT ![p].outer = x, ![p].executed = y]
      BY DEF Observe
    <3>2. process'[p] = [process[p] EXCEPT !.outer = x, !.executed = y] /\ process[p] \in Call
      BY <2>1, <3>1
    <3>3. process'[p].pc = process[p].pc
      BY <3>2 DEF Call
    <3> QED BY <2>1, <3>3
  <2> QED BY <2>3, <2>5, <2>6, <2>7, <2>8 DEF ProcessStep
<1>2. ISubmission /\ [NextSubmission]_varsSubmission => [Known]_varsSubmission
  <2> SUFFICES ASSUME ISubmission, NextSubmission PROVE Known
    OBVIOUS
  <2> SUFFICES ASSUME NEW p \in Process, Retries(p), NEW t \in network,
                      t.row \in DOMAIN process[p].seen
               PROVE  t.row \in DOMAIN process[p].outer /\ process[p].outer[t.row] = "failed"
    OBVIOUS
  <2> QED BY <1>1, FailedIsKnown
<1> QED BY <1>2, SubmissionInitially, SubmissionKept, PTL DEF SpecSubmission, RetryKnowsAll

-----------------------------------------------------------------------------
(***************************************************************************)
(* The owner's store.  A command acts on what it read without the lock, so  *)
(* the invariant says what of that still holds when it writes: nothing but  *)
(* the revision it compares, and that nobody else knows of an operation     *)
(* that is being made.  A loss of power brings the synchronized directory   *)
(* back, so what holds of the store holds of that one too.                  *)
(***************************************************************************)

Sync == [complete : BOOLEAN, coins : SUBSET Coin]
OwnerState ==
    [keys : Nat, ready : BOOLEAN, sync : Sync, revision : Nat,
     ops : [LocalOp -> OpRecord \cup {Absent}], pays : [LocalOp -> PayRecord \cup {Absent}]]

\* The steps of each command, and what may follow a save of it.
StepOf(cmd, step) ==
    \/ cmd = "key" /\ step \in {"saveKey", "fsync"}
    \/ cmd = "sync" /\ step \in {"look", "saveSync", "fsync"}
    \/ cmd = "create" /\ step \in {"look", "saveSync", "choose", "saveFixed", "fsync"}
    \/ cmd = "prepare" /\ step \in {"look", "saveSync", "choose", "saveFixed", "load", "saveProof",
                                    "reload", "saveDraft", "fsync"}
    \/ cmd = "prove" /\ step \in {"record", "saveProof", "fsync"}
    \/ cmd = "authorize" /\ step \in {"record", "saveSignature", "fsync"}
    \/ cmd = "abandon" /\ step \in {"drop", "fsync"}
    \/ cmd = "backup" /\ step \in {"copy"}
    \/ cmd = "payAuthorize" /\ step \in {"load", "saveProof", "reload", "saveDraft", "reserve",
                                         "sign", "recover", "saveSigned", "fsync"}
    \/ cmd = "resume" /\ step \in {"recover", "saveSigned", "attempt", "saveAttempt", "fsync"}
    \/ cmd = "discard" /\ step \in {"inspect", "ask", "drop", "reread", "removePay", "fsync"}
Storewide == {"key", "sync", "backup"}
NextOf(cmd, next) ==
    \/ next = "done"
    \/ cmd \in {"create", "prepare"} /\ next = "choose"
    \/ cmd = "prepare" /\ next \in {"load", "reload"}
    \/ cmd = "payAuthorize" /\ next \in {"reload", "reserve"}
    \/ cmd = "resume" /\ next = "attempt"
    \/ cmd = "discard" /\ next = "reread"

\* A task is the record of its four fields.
IsTask(t) == t = [cmd |-> t.cmd, step |-> t.step, op |-> t.op, seen |-> t.seen]

TypeOwner ==
    /\ file \in OwnerState /\ durable \in OwnerState
    /\ lock \in Proc \cup {Absent, Left}
    /\ backup \in OwnerState \cup {Absent}
    /\ command = [p \in Proc |-> command[p]]
    /\ \A p \in Proc : IsTask(command[p])
    /\ drawn \subseteq LocalOp
    /\ reported \subseteq ({"key"} \X Nat) \cup ({"authorized", "signed"} \X LocalOp)

\* What is reported saved, and is in the state f.
Authorized(f, o) == f.ops[o] # Absent /\ f.ops[o].phase = "authorized"
NotUnsigned(f, o) == f.pays[o] # Absent => f.pays[o].signed
KeepsReported(f) ==
    /\ \A k \in Nat : <<"key", k>> \in reported => f.keys >= k
    /\ \A o \in LocalOp : <<"authorized", o>> \in reported => Authorized(f, o)
    /\ \A o \in LocalOp : <<"signed", o>> \in reported => NotUnsigned(f, o)

Apart(f) ==
    \A o, x \in LocalOp : o # x /\ f.ops[o] # Absent /\ f.ops[x] # Absent =>
        f.ops[o].input # f.ops[x].input

\* Neither an operation nor the choice of an input ignores what was spent before a restore.
SeesSpent(f) ==
    /\ \A o \in LocalOp : f.ops[o] # Absent /\ o \notin restored.ops =>
          f.ops[o].input \notin restored.spent
    /\ Usable(f) => f.sync.coins \cap restored.spent = {}

Blank(f, o) == f.ops[o] = Absent /\ f.pays[o] = Absent

\* An operation that was never drawn is nowhere.
UndrawnUnknown ==
    \A o \in LocalOp \ drawn :
        /\ Blank(file, o) /\ Blank(durable, o)
        /\ backup # Absent => Blank(backup, o)
        /\ <<"signed", o>> \notin reported
        /\ \A p \in Proc : command[p].step # "idle" => command[p].op # o

\* A new operation, before its first save; others may only have asked for it.
Making(t) ==
    /\ t.cmd \in {"create", "prepare"}
    /\ \/ t.step \in {"look", "saveSync", "choose", "saveFixed"}
       \/ t.step = "fsync" /\ t.seen = "choose"
Asking == {"idle", "record", "load", "recover", "inspect", "drop"}
Alone(p) ==
    Making(command[p]) =>
        /\ Blank(file, command[p].op)
        /\ <<"signed", command[p].op>> \notin reported
        /\ \A q \in Proc \ {p} : command[q].op = command[p].op => command[q].step \in Asking

\* What command p has read of the progress is there until the revision changes.
Progress(t) ==
    /\ t.seen.revision \in Nat /\ t.seen.revision <= file.revision
    /\ t.seen.pay \in PayRecord
    /\ t.seen.revision = file.revision => t.seen.pay = file.pays[t.op]

OnPath(t) ==
    /\ StepOf(t.cmd, t.step)
    /\ t.op \in LocalOp \cup {Absent}
    /\ t.cmd \in Storewide <=> t.op = Absent

SavedOf(t) ==
    /\ NextOf(t.cmd, t.seen)
    /\ t.cmd = "authorize" => Authorized(file, t.op)
    /\ t.cmd = "payAuthorize" /\ t.seen = "done" => NotUnsigned(file, t.op)

Founded(p) ==
    LET t == command[p] IN
    /\ t.step # "idle" => OnPath(t)
    /\ t.step = "fsync" <=> lock = p
    /\ t.step = "fsync" => SavedOf(t)
    /\ t.step = "saveSync" => /\ t.seen.sync \in Sync
                              /\ t.seen.sync.coins \cap restored.spent = {}
    /\ t.step \in {"saveProof", "saveSignature"} => t.seen \in OpRecord
    /\ t.step = "saveFixed" => t.seen.input \in t.seen.sync.coins
    /\ t.step \in {"saveDraft", "saveSigned", "saveAttempt"} => Progress(t)
    /\ t.step = "removePay" => t.seen.revision \in Nat

Good(f) == Apart(f) /\ SeesSpent(f) /\ KeepsReported(f)

IOwner ==
    /\ TypeOwner
    /\ Good(file) /\ Good(durable)
    /\ backup # Absent => Apart(backup)
    /\ restored.spent \subseteq spent
    /\ UndrawnUnknown
    /\ \A p \in Proc : Founded(p) /\ Alone(p)

-----------------------------------------------------------------------------
\* Process p has a new task t.
Stepped(p, t) ==
    /\ command' = [q \in Proc |-> command'[q]]
    /\ command'[p] = t /\ IsTask(t)
    /\ \A q \in Proc \ {p} : command'[q] = command[q]

Task(cmd, step, op, seen) == [cmd |-> cmd, step |-> step, op |-> op, seen |-> seen]

\* A step of a command changes its step and what it has seen.
LEMMA GoIs ==
    ASSUME TypeOwner, NEW p \in Proc, NEW step, NEW seen, Go(p, step, seen)
    PROVE  Stepped(p, Task(command[p].cmd, step, command[p].op, seen))
<1>1. command = [q \in Proc |-> command[q]] /\ IsTask(command[p])
  BY DEF TypeOwner
<1>2. command' = [command EXCEPT ![p] = Task(command[p].cmd, step, command[p].op, seen)]
  <2>1. [command[p] EXCEPT !.step = step, !.seen = seen]
          = Task(command[p].cmd, step, command[p].op, seen)
    <3>1. PICK cmd, s, o, x : command[p] = [cmd |-> cmd, step |-> s, op |-> o, seen |-> x]
      BY <1>1 DEF IsTask
    <3> DEFINE r == [cmd |-> cmd, step |-> s, op |-> o, seen |-> x]
           m == [cmd |-> cmd, step |-> step, op |-> o, seen |-> x]
    <3>2. [r EXCEPT !.step = step] = m
      OBVIOUS
    <3>3. [m EXCEPT !.seen = seen] = [cmd |-> cmd, step |-> step, op |-> o, seen |-> seen]
      OBVIOUS
    <3>4. r.cmd = cmd /\ r.op = o
      OBVIOUS
    <3> HIDE DEF r, m
    <3>5. [r EXCEPT !.step = step, !.seen = seen] = [[r EXCEPT !.step = step] EXCEPT !.seen = seen]
      BY <3>1 DEF r
    <3>6. command[p] = r
      BY <3>1 DEF r
    <3> QED BY <3>2, <3>3, <3>4, <3>5, <3>6 DEF Task
  <2>2. command' = [command EXCEPT ![p] = [command[p] EXCEPT !.step = step, !.seen = seen]]
    BY <1>1 DEF Go
  <2> QED BY <2>1, <2>2
<1>3. IsTask(Task(command[p].cmd, step, command[p].op, seen))
  BY DEF IsTask, Task
<1> QED BY <1>1, <1>2, <1>3 DEF Stepped

\* A command ends, or another begins.
LEMMA TaskIs ==
    ASSUME TypeOwner, NEW p \in Proc, NEW t, IsTask(t), command' = [command EXCEPT ![p] = t]
    PROVE  Stepped(p, t)
<1>1. command = [q \in Proc |-> command[q]]
  BY DEF TypeOwner
<1> QED BY <1>1 DEF Stepped

\* The task of a process at rest.
LEMMA RestIs == IsTask(AtRest) /\ AtRest.step = "idle" /\ ~Making(AtRest)
BY DEF AtRest, IsTask, Making

\* No other process is making the operation of p.
NotBeingMade(p) == \A q \in Proc \ {p} : Making(command[q]) => command[q].op # command[p].op

\* A command that is past its first step, or found its operation, is not alone with it.
LEMMA NotBeingMadeIf ==
    ASSUME IOwner, NEW p \in Proc,
           command[p].step \notin Asking \/ ~Blank(file, command[p].op)
    PROVE  NotBeingMade(p)
BY DEF IOwner, Alone, NotBeingMade

\* What a running command is.
LEMMA RunningIs ==
    ASSUME IOwner, NEW p \in Proc, command[p].step # "idle"
    PROVE  /\ OnPath(command[p]) /\ Founded(p) /\ Alone(p) /\ IsTask(command[p])
           /\ command[p].op \in LocalOp \cup {Absent}
           /\ command[p].cmd \notin Storewide => command[p].op \in LocalOp \cap drawn
           /\ (command[p].step = "fsync") <=> lock = p
<1>1. OnPath(command[p]) /\ Founded(p) /\ Alone(p) /\ IsTask(command[p])
  BY DEF IOwner, Founded, TypeOwner
<1>2. command[p].op \in LocalOp \cup {Absent} /\ (command[p].cmd \notin Storewide => command[p].op # Absent)
  BY <1>1 DEF OnPath
<1>3. command[p].op \in LocalOp => command[p].op \in drawn
  BY DEF IOwner, UndrawnUnknown
<1> QED BY <1>1, <1>2, <1>3 DEF Founded

-----------------------------------------------------------------------------
\* What a task must fulfil that the next step relies on.
Equipped(t) ==
    /\ t.step = "saveSync" => /\ t.seen.sync \in Sync
                              /\ t.seen.sync.coins \cap restored.spent = {}
    /\ t.step \in {"saveProof", "saveSignature"} => t.seen \in OpRecord
    /\ t.step = "saveFixed" => t.seen.input \in t.seen.sync.coins
    /\ t.step \in {"saveDraft", "saveSigned", "saveAttempt"} => Progress(t)
    /\ t.step = "removePay" => t.seen.revision \in Nat

\* A step that leaves the store alone.
LEMMA QuietKeeps ==
    ASSUME IOwner, NEW p \in Proc, NEW t, Stepped(p, t),
           UNCHANGED <<file, durable, lock, drawn, reported, restored>>, spent \subseteq spent',
           backup' \in {backup, file},
           lock # p, t.step # "fsync",
           t.step # "idle" => OnPath(t) /\ command[p].step # "idle" /\ t.op = command[p].op,
           Equipped(t),
           Making(t) => Making(command[p]),
           t.step \notin Asking => NotBeingMade(p)
    PROVE  IOwner'
<1>1. TypeOwner'
  <2>1. \A q \in Proc : IsTask(command'[q])
    BY DEF IOwner, TypeOwner, Stepped
  <2> QED BY <2>1 DEF IOwner, TypeOwner, Stepped
<1>2. Good(file)' /\ Good(durable)' /\ (backup # Absent => Apart(backup))'
  BY DEF IOwner, Good, Apart, SeesSpent, KeepsReported
<1>3. (restored.spent \subseteq spent)'
  BY DEF IOwner
<1>4. UndrawnUnknown'
  <2>1. t.step # "idle" => \A o \in LocalOp \ drawn : t.op # o
    BY DEF IOwner, UndrawnUnknown
  <2> QED BY <2>1 DEF IOwner, UndrawnUnknown, Stepped
<1>5. ASSUME NEW q \in Proc
      PROVE  Founded(q)'
  <2>1. CASE q = p
    BY <2>1 DEF Stepped, Founded, Equipped, Progress
  <2>2. CASE q # p
    <3>1. command'[q] = command[q] /\ Founded(q)
      BY <2>2 DEF Stepped, IOwner
    <3> QED BY <3>1 DEF Founded, SavedOf, Progress
  <2> QED BY <2>1, <2>2
<1>6. ASSUME NEW q \in Proc
      PROVE  Alone(q)'
  <2> SUFFICES ASSUME Making(command'[q]) PROVE Alone(q)'
    BY DEF Alone
  <2>1. Making(command[q]) /\ command'[q].op = command[q].op
    <3>1. CASE q = p
      BY <3>1 DEF Stepped, Making
    <3>2. CASE q # p
      BY <3>2 DEF Stepped
    <3> QED BY <3>1, <3>2
  <2>2. Alone(q)
    BY DEF IOwner
  <2>3. ASSUME NEW r \in Proc \ {q}, command'[r].op = command'[q].op
        PROVE  command'[r].step \in Asking
    <3>1. CASE r = p
      <4>1. command'[r] = t /\ (t.step \notin Asking => NotBeingMade(p))
        BY <3>1 DEF Stepped
      <4>2. t.step \notin Asking => t.op = command[p].op
        BY DEF Asking
      <4> QED BY <2>1, <2>3, <3>1, <4>1, <4>2 DEF NotBeingMade
    <3>2. CASE r # p
      BY <2>1, <2>2, <2>3, <3>2 DEF Stepped, Alone
    <3> QED BY <3>1, <3>2
  <2> QED BY <2>1, <2>2, <2>3 DEF Alone
<1> QED BY <1>1, <1>2, <1>3, <1>4, <1>5, <1>6 DEF IOwner

\* What a save makes of the store: it concerns one operation, and its revision tells.
Saved(p, f) ==
    /\ f \in OwnerState /\ Good(f)
    /\ \A o \in LocalOp : o # command[p].op => f.ops[o] = file.ops[o] /\ f.pays[o] = file.pays[o]
    /\ file.revision <= f.revision
    /\ f.revision = file.revision => f.pays = file.pays

\* A save under the lock.
LEMMA SaveKeeps ==
    ASSUME IOwner, NEW p \in Proc, NEW f, NEW next, Replace(p, f, next),
           lock = Absent, command[p].step # "idle", command[p].cmd # "backup",
           NotBeingMade(p), Saved(p, f),
           NextOf(command[p].cmd, next),
           command[p].cmd = "authorize" => Authorized(f, command[p].op),
           command[p].cmd = "payAuthorize" /\ next = "done" => NotUnsigned(f, command[p].op),
           next = "choose" => Making(command[p]) /\ Blank(f, command[p].op)
    PROVE  IOwner'
<1>0. PICK t : t = Task(command[p].cmd, "fsync", command[p].op, next)
  OBVIOUS
<1>1. /\ Stepped(p, t) /\ t.step = "fsync" /\ t.cmd = command[p].cmd /\ t.op = command[p].op
      /\ t.seen = next
  BY <1>0, GoIs DEF Replace, IOwner, Task
<1>2. /\ file' = f /\ lock' = p
      /\ UNCHANGED <<durable, backup, drawn, reported, restored, spent>>
  BY DEF Replace, counted, outside, ghosts
<1>3. OnPath(command[p]) /\ command[p].op \in LocalOp \cup {Absent}
  BY RunningIs
<1>4. TypeOwner'
  <2>1. \A q \in Proc : IsTask(command'[q])
    BY <1>1 DEF IOwner, TypeOwner, Stepped
  <2> QED BY <1>1, <1>2, <2>1 DEF IOwner, TypeOwner, Stepped, Saved
<1>5. Good(file)' /\ Good(durable)' /\ (backup # Absent => Apart(backup))'
  BY <1>2 DEF IOwner, Saved, Good, Apart, SeesSpent, KeepsReported
<1>6. (restored.spent \subseteq spent)'
  BY <1>2 DEF IOwner
<1>7. UndrawnUnknown'
  <2>1. \A o \in LocalOp \ drawn : command[p].op # o
    BY DEF IOwner, UndrawnUnknown
  <2>2. \A o \in LocalOp \ drawn : Blank(f, o)
    BY <2>1 DEF IOwner, UndrawnUnknown, Saved, Blank
  <2>3. \A q \in Proc : command'[q].step # "idle" =>
            command[q].step # "idle" /\ command'[q].op = command[q].op
    BY <1>1 DEF Stepped
  <2> QED BY <1>2, <2>2, <2>3 DEF IOwner, UndrawnUnknown
<1>8. ASSUME NEW q \in Proc
      PROVE  Founded(q)'
  <2>1. CASE q = p
    <3>1. OnPath(t)
      BY <1>1, <1>3 DEF OnPath, StepOf
    <3>2. command'[q] = t /\ SavedOf(t)'
      BY <1>1, <1>2, <2>1 DEF Stepped, SavedOf
    <3> QED BY <1>1, <1>2, <2>1, <3>1, <3>2 DEF Founded
  <2>2. CASE q # p
    <3>1. command'[q] = command[q] /\ Founded(q) /\ lock # q
      BY <1>1, <2>2, OwnerAssumption DEF Stepped, IOwner
    <3>2. command[q].step \in {"saveDraft", "saveSigned", "saveAttempt"} => Progress(command[q])'
      <4> SUFFICES ASSUME command[q].step \in {"saveDraft", "saveSigned", "saveAttempt"}
                   PROVE  Progress(command[q])'
        OBVIOUS
      <4>1. Progress(command[q])
        BY <3>1 DEF Founded
      <4>2. file.revision \in Nat /\ f.revision \in Nat
        BY DEF IOwner, TypeOwner, Saved, OwnerState
      <4> QED BY <1>2, <3>1, <4>1, <4>2 DEF Progress, Saved
    <3> QED BY <1>2, <2>2, <3>1, <3>2 DEF Founded
  <2> QED BY <2>1, <2>2
<1>9. ASSUME NEW q \in Proc
      PROVE  Alone(q)'
  <2> SUFFICES ASSUME Making(command'[q]) PROVE Alone(q)'
    BY DEF Alone
  <2>1. /\ Making(command[q]) /\ command'[q].op = command[q].op
        /\ Blank(f, command[q].op)
    <3>1. CASE q = p
      BY <1>1, <3>1 DEF Stepped, Making
    <3>2. CASE q # p
      <4>1. command'[q] = command[q] /\ command[q].op # command[p].op
        BY <1>1, <3>2 DEF Stepped, NotBeingMade
      <4>2. command[q].op \in LocalOp
        <5>1. command[q].step # "idle" /\ command[q].cmd \notin Storewide
          BY <4>1 DEF Making, Storewide
        <5> QED BY <5>1, RunningIs
      <4> QED BY <4>1, <4>2 DEF IOwner, Alone, Saved, Blank
    <3> QED BY <3>1, <3>2
  <2>2. Alone(q)
    BY DEF IOwner
  <2>3. ASSUME NEW r \in Proc \ {q}, command'[r].op = command'[q].op
        PROVE  command'[r].step \in Asking
    <3>1. CASE r = p
      BY <1>1, <2>1, <2>3, <3>1 DEF Stepped, NotBeingMade
    <3>2. CASE r # p
      BY <1>1, <2>1, <2>2, <2>3, <3>2 DEF Stepped, Alone
    <3> QED BY <3>1, <3>2
  <2> QED BY <1>2, <2>1, <2>2, <2>3 DEF Alone
<1> QED BY <1>4, <1>5, <1>6, <1>7, <1>8, <1>9 DEF IOwner

-----------------------------------------------------------------------------
(* The steps without the lock.                                               *)

\* A process that gave up has no task.
LEMMA GiveUpKeeps ==
    ASSUME IOwner, NEW p \in Proc, GiveUp(p)
    PROVE  IOwner'
<1>1. Stepped(p, AtRest)
  BY TaskIs, RestIs DEF GiveUp, IOwner
<1>2. lock # p
  BY DEF GiveUp, IOwner, Founded
<1> QED BY <1>1, <1>2, RestIs, QuietKeeps DEF GiveUp, quiet, counted, outside, ghosts, Equipped, Asking

\* A step that goes on to a next one, without the lock.
LEMMA GoKeeps ==
    ASSUME IOwner, NEW p \in Proc, NEW step, NEW seen, Go(p, step, seen),
           UNCHANGED <<file, durable, lock, backup, drawn, reported, restored, spent>>,
           command[p].step \notin {"idle", "fsync"}, step \notin {"idle", "fsync"},
           StepOf(command[p].cmd, step),
           Equipped(Task(command[p].cmd, step, command[p].op, seen)),
           step \in {"look", "saveSync", "choose", "saveFixed"} =>
               Making(command[p]) \/ command[p].cmd = "sync",
           NotBeingMade(p)
    PROVE  IOwner'
<1> DEFINE t == Task(command[p].cmd, step, command[p].op, seen)
<1>1. Stepped(p, t)
  BY GoIs DEF IOwner
<1>2. /\ t.cmd = command[p].cmd /\ t.op = command[p].op /\ t.step = step
  BY DEF Task
<1>3. lock # p /\ OnPath(command[p])
  BY RunningIs
<1>4. OnPath(t)
  BY <1>2, <1>3 DEF OnPath
<1>5. Making(t) => Making(command[p])
  BY <1>2 DEF Making
<1> HIDE DEF t
<1> QED BY <1>1, <1>2, <1>3, <1>4, <1>5, QuietKeeps DEF t

\* sync reads the history from the chain, which shows what is spent.
LEMMA LookKeeps ==
    ASSUME IOwner, NEW p \in Proc, Look(p)
    PROVE  IOwner'
<1>1. command[p].step = "look" /\ OnPath(command[p])
  BY RunningIs DEF Look
<1>2. PICK complete \in BOOLEAN :
          Go(p, "saveSync", [keys |-> file.keys,
                             sync |-> [complete |-> complete,
                                       coins |-> IF complete THEN Coin \ spent ELSE {}]])
  BY DEF Look
<1>3. PICK x : x = [keys |-> file.keys,
                    sync |-> [complete |-> complete,
                              coins |-> IF complete THEN Coin \ spent ELSE {}]]
  OBVIOUS
<1>4. x.sync \in Sync /\ x.sync.coins \cap restored.spent = {}
  BY <1>3 DEF Sync, IOwner
<1>5. Equipped(Task(command[p].cmd, "saveSync", command[p].op, x))
  BY <1>4 DEF Equipped, Task
<1>6. StepOf(command[p].cmd, "saveSync")
  BY <1>1 DEF OnPath, StepOf
<1>7. Making(command[p]) \/ command[p].cmd = "sync"
  BY <1>1 DEF OnPath, StepOf, Making
<1>8. NotBeingMade(p)
  BY <1>1, NotBeingMadeIf DEF Asking
<1> QED BY <1>1, <1>2, <1>3, <1>5, <1>6, <1>7, <1>8, GoKeeps DEF Look, quiet, counted, outside, ghosts

\* create selects one of the coins of the synchronization it read.
LEMMA ChooseKeeps ==
    ASSUME IOwner, NEW p \in Proc, Choose(p)
    PROVE  IOwner'
<1>1. command[p].step = "choose" /\ OnPath(command[p])
  BY RunningIs DEF Choose
<1>2. PICK i \in file.sync.coins \ Held(file) : Go(p, "saveFixed", [sync |-> file.sync, input |-> i])
  BY DEF Choose
<1>3. Equipped(Task(command[p].cmd, "saveFixed", command[p].op, [sync |-> file.sync, input |-> i]))
  BY DEF Equipped, Task
<1>4. StepOf(command[p].cmd, "saveFixed") /\ Making(command[p])
  BY <1>1 DEF OnPath, StepOf, Making
<1>5. NotBeingMade(p)
  BY <1>1, NotBeingMadeIf DEF Asking
<1> QED BY <1>1, <1>2, <1>3, <1>4, <1>5, GoKeeps DEF Choose, quiet, counted, outside, ghosts

\* prove and authorize read an operation of the store.
LEMMA ReadRecordKeeps ==
    ASSUME IOwner, NEW p \in Proc, ReadRecord(p)
    PROVE  IOwner'
<1>1. command[p].step = "record" /\ OnPath(command[p])
  BY RunningIs DEF ReadRecord
<1>2. command[p].cmd \in {"prove", "authorize"} /\ command[p].op \in LocalOp
  BY <1>1, RunningIs DEF OnPath, StepOf, Storewide
<1>3. PICK x : x = file.ops[command[p].op]
  OBVIOUS
<1>4. x \in OpRecord
  BY <1>2, <1>3 DEF ReadRecord, IOwner, TypeOwner, OwnerState
<1>5. PICK step : step = IF command[p].cmd = "authorize" THEN "saveSignature" ELSE "saveProof"
  OBVIOUS
<1>6. Go(p, step, x)
  BY <1>3, <1>5 DEF ReadRecord
<1>7. Equipped(Task(command[p].cmd, step, command[p].op, x)) /\ StepOf(command[p].cmd, step)
  BY <1>2, <1>4, <1>5 DEF Equipped, Task, StepOf
<1>8. NotBeingMade(p)
  BY <1>3, NotBeingMadeIf DEF ReadRecord, Blank
<1> QED BY <1>1, <1>5, <1>6, <1>7, <1>8, GoKeeps DEF ReadRecord, quiet, counted, outside, ghosts

\* loadPreparedCliPay finds a Pay and its operation.
LEMMA LoadKeeps ==
    ASSUME IOwner, NEW p \in Proc, Load(p)
    PROVE  IOwner'
<1> DEFINE o == command[p].op
<1>1. command[p].step = "load" /\ OnPath(command[p])
  BY RunningIs DEF Load
<1>2. command[p].cmd \in {"prepare", "payAuthorize"} /\ o \in LocalOp /\ lock # p
  BY <1>1, RunningIs DEF OnPath, StepOf, Storewide
<1>3. NotBeingMade(p)
  BY NotBeingMadeIf DEF Load, Blank
<1>4. UNCHANGED <<file, durable, lock, backup, drawn, reported, restored, spent>>
  BY DEF Load, quiet, counted, outside, ghosts
<1>5. CASE command' = [command EXCEPT ![p] = AtRest]
  <2>1. Stepped(p, AtRest)
    BY <1>5, TaskIs, RestIs DEF IOwner
  <2> QED BY <1>2, <1>4, <2>1, RestIs, QuietKeeps DEF Equipped, Asking
<1>6. CASE command[p].cmd # "prepare" /\ Go(p, "reserve", Absent)
  <2>1. Equipped(Task(command[p].cmd, "reserve", o, Absent)) /\ StepOf(command[p].cmd, "reserve")
    BY <1>2, <1>6 DEF Equipped, Task, StepOf
  <2> QED BY <1>1, <1>3, <1>4, <1>6, <2>1, GoKeeps
<1>7. CASE file.ops[o] # Absent /\ Go(p, "saveProof", file.ops[o])
  <2>1. file.ops[o] \in OpRecord
    BY <1>2, <1>7 DEF IOwner, TypeOwner, OwnerState
  <2>2. Equipped(Task(command[p].cmd, "saveProof", o, file.ops[o])) /\ StepOf(command[p].cmd, "saveProof")
    BY <1>2, <2>1 DEF Equipped, Task, StepOf
  <2> QED BY <1>1, <1>3, <1>4, <1>7, <2>2, GoKeeps
<1>8. CASE Go(p, "reload", Absent)
  <2>1. Equipped(Task(command[p].cmd, "reload", o, Absent)) /\ StepOf(command[p].cmd, "reload")
    BY <1>2 DEF Equipped, Task, StepOf
  <2> QED BY <1>1, <1>3, <1>4, <1>8, <2>1, GoKeeps
<1> QED BY <1>5, <1>6, <1>7, <1>8 DEF Load

\* What a command reads of a Pay, with the revision, is what is there.
LEMMA ProgressRead ==
    ASSUME IOwner, NEW o \in LocalOp, file.pays[o] # Absent, NEW cmd, NEW step
    PROVE  Equipped(Task(cmd, step, o, [revision |-> file.revision, pay |-> file.pays[o]]))
             \/ step \in {"saveSync", "saveProof", "saveSignature", "saveFixed"}
<1>1. file.pays[o] \in PayRecord /\ file.revision \in Nat
  BY DEF IOwner, TypeOwner, OwnerState
<1> QED BY <1>1 DEF Equipped, Task, Progress

\* A command that goes on with a Pay, and with what it read of it.
LEMMA PayGoesOn ==
    ASSUME IOwner, NEW p \in Proc, NEW step, NEW next, command[p].step = step,
           \/ step = "reload" /\ next = "saveDraft"
           \/ step = "recover" /\ next = "saveSigned"
           \/ step = "attempt" /\ next = "saveAttempt",
           file.pays[command[p].op] # Absent,
           Go(p, next, [revision |-> file.revision, pay |-> file.pays[command[p].op]]),
           UNCHANGED <<file, durable, lock, backup, drawn, reported, restored, spent>>
    PROVE  IOwner'
<1>1. OnPath(command[p])
  BY RunningIs
<1>2. command[p].op \in LocalOp /\ StepOf(command[p].cmd, next)
  BY <1>1, RunningIs DEF OnPath, StepOf, Storewide
<1>3. PICK x : x = [revision |-> file.revision, pay |-> file.pays[command[p].op]]
  OBVIOUS
<1>4. Equipped(Task(command[p].cmd, next, command[p].op, x))
  BY <1>2, <1>3, ProgressRead
<1>5. NotBeingMade(p)
  BY NotBeingMadeIf DEF Blank
<1> QED BY <1>2, <1>3, <1>4, <1>5, GoKeeps

\* A command that goes on with nothing in hand.
LEMMA PlainlyGoesOn ==
    ASSUME IOwner, NEW p \in Proc, NEW step, NEW seen, Go(p, step, seen),
           command[p].step \notin {"idle", "fsync"},
           step \in {"sign", "recover", "ask", "drop", "reread"},
           StepOf(command[p].cmd, step), NotBeingMade(p),
           UNCHANGED <<file, durable, lock, backup, drawn, reported, restored, spent>>
    PROVE  IOwner'
<1>1. Equipped(Task(command[p].cmd, step, command[p].op, seen))
  BY DEF Equipped, Task
<1> QED BY <1>1, GoKeeps

\* The steps of a Pay with the service, and those of its removal.
LEMMA PayStepsKeep ==
    ASSUME IOwner, NEW p \in Proc,
           Reload(p) \/ Reserve(p) \/ SignPay(p) \/ Recover(p) \/ NoteAttempt(p)
             \/ InspectPay(p) \/ Ask(p) \/ RereadProgress(p)
    PROVE  IOwner'
<1>1. CASE Reload(p)
  BY <1>1, PayGoesOn DEF Reload, quiet, counted, outside, ghosts
<1>2. CASE Recover(p)
  BY <1>2, PayGoesOn DEF Recover, quiet, counted, outside, ghosts
<1>3. CASE NoteAttempt(p)
  BY <1>3, PayGoesOn DEF NoteAttempt, quiet, counted, outside, ghosts
<1>4. CASE Reserve(p)
  <2>1. command[p].step = "reserve" /\ StepOf(command[p].cmd, "sign")
    BY <1>4, RunningIs DEF Reserve, OnPath, StepOf
  <2>2. NotBeingMade(p)
    BY <2>1, NotBeingMadeIf DEF Asking
  <2> QED BY <1>4, <2>1, <2>2, PlainlyGoesOn DEF Reserve, counted, ghosts
<1>5. CASE SignPay(p)
  <2>1. command[p].step = "sign" /\ StepOf(command[p].cmd, "recover")
    BY <1>5, RunningIs DEF SignPay, OnPath, StepOf
  <2>2. NotBeingMade(p)
    BY <2>1, NotBeingMadeIf DEF Asking
  <2> QED BY <1>5, <2>1, <2>2, PlainlyGoesOn DEF SignPay, counted, ghosts
<1>6. CASE InspectPay(p)
  <2>1. command[p].step = "inspect" /\ StepOf(command[p].cmd, "ask")
    BY <1>6, RunningIs DEF InspectPay, OnPath, StepOf
  <2>2. NotBeingMade(p)
    BY <1>6, NotBeingMadeIf DEF InspectPay, Blank
  <2> QED BY <1>6, <2>1, <2>2, PlainlyGoesOn DEF InspectPay, quiet, counted, outside, ghosts
<1>7. CASE Ask(p)
  <2>1. command[p].step = "ask" /\ StepOf(command[p].cmd, "drop") /\ StepOf(command[p].cmd, "reread")
    BY <1>7, RunningIs DEF Ask, OnPath, StepOf
  <2>2. NotBeingMade(p)
    BY <2>1, NotBeingMadeIf DEF Asking
  <2>3. PICK step \in {"drop", "reread"} : Go(p, step, Absent)
    BY <1>7 DEF Ask
  <2> QED BY <1>7, <2>1, <2>2, <2>3, PlainlyGoesOn DEF Ask, quiet, counted, outside, ghosts
<1>8. CASE RereadProgress(p)
  <2>1. command[p].step = "reread" /\ StepOf(command[p].cmd, "removePay")
    BY <1>8, RunningIs DEF RereadProgress, OnPath, StepOf
  <2>2. NotBeingMade(p)
    BY <2>1, NotBeingMadeIf DEF Asking
  <2>3. PICK x : x = [revision |-> file.revision]
    OBVIOUS
  <2>4. Equipped(Task(command[p].cmd, "removePay", command[p].op, x))
    BY <2>3 DEF Equipped, Task, IOwner, TypeOwner, OwnerState
  <2> QED BY <1>8, <2>1, <2>2, <2>3, <2>4, GoKeeps DEF RereadProgress, quiet, counted, outside, ghosts
<1> QED BY <1>1, <1>2, <1>3, <1>4, <1>5, <1>6, <1>7, <1>8

-----------------------------------------------------------------------------
(* The saves.                                                                *)

\* A command that may save is not alone with its operation, unless it makes it.
LEMMA SavingIs ==
    ASSUME IOwner, NEW p \in Proc, NEW step \in Saves, Saving(p, step)
    PROVE  /\ lock = Absent /\ command[p].step = step /\ OnPath(command[p])
           /\ command[p].cmd \notin Storewide => command[p].op \in LocalOp
           /\ step # "drop" => NotBeingMade(p)
           /\ file \in OwnerState /\ Good(file)
           /\ Equipped(command[p])
<1>1. command[p].step = step /\ step \notin {"idle", "fsync"} /\ lock = Absent
  BY DEF Saving, Saves
<1>2. step # "drop" => NotBeingMade(p)
  BY <1>1, NotBeingMadeIf DEF Asking, Saves
<1>3. Equipped(command[p])
  BY DEF IOwner, Founded, Equipped
<1> QED BY <1>1, <1>2, <1>3, RunningIs DEF IOwner, TypeOwner

\* What is reported saved remains, if what was authorized and signed does.
LEMMA ReportedStays ==
    ASSUME NEW f \in OwnerState, NEW g \in OwnerState, KeepsReported(f), f.keys <= g.keys,
           \A o \in LocalOp : Authorized(f, o) => Authorized(g, o),
           \A o \in LocalOp : <<"signed", o>> \in reported /\ NotUnsigned(f, o) => NotUnsigned(g, o)
    PROVE  KeepsReported(g)
<1>1. f.keys \in Nat /\ g.keys \in Nat
  BY DEF OwnerState
<1> QED BY <1>1 DEF KeepsReported

\* A revision of the progress changes the entry of one Pay.
Revised(f, n, o, entry) == [f EXCEPT !.revision = n, !.pays[o] = entry]
LEMMA RevisionIs ==
    ASSUME NEW f \in OwnerState, NEW o \in LocalOp, NEW n \in Nat,
           NEW entry \in PayRecord \cup {Absent}, NEW g, g = Revised(f, n, o, entry)
    PROVE  /\ g \in OwnerState /\ g.keys = f.keys /\ g.ops = f.ops /\ g.sync = f.sync
           /\ g.ready = f.ready /\ g.revision = n /\ g.pays[o] = entry
           /\ \A x \in LocalOp \ {o} : g.pays[x] = f.pays[x]
<1>1. PICK h : h = [f EXCEPT !.revision = n]
  OBVIOUS
<1>2. /\ h \in OwnerState /\ h.keys = f.keys /\ h.ops = f.ops /\ h.sync = f.sync
      /\ h.ready = f.ready /\ h.revision = n /\ h.pays = f.pays
  BY <1>1 DEF OwnerState
<1>3. PICK w : w = [h.pays EXCEPT ![o] = entry]
  OBVIOUS
<1>4. w \in [LocalOp -> PayRecord \cup {Absent}] /\ w[o] = entry
        /\ \A x \in LocalOp \ {o} : w[x] = f.pays[x]
  BY <1>2, <1>3 DEF OwnerState
<1>5. g = [h EXCEPT !.pays = w]
  BY <1>1, <1>3 DEF Revised
<1>6. /\ g \in OwnerState /\ g.keys = f.keys /\ g.ops = f.ops /\ g.sync = f.sync
      /\ g.ready = f.ready /\ g.revision = n /\ g.pays = w
  BY <1>2, <1>4, <1>5 DEF OwnerState
<1> QED BY <1>4, <1>6

\* A receipt key is added.
LEMMA SaveKeyKeeps ==
    ASSUME IOwner, NEW p \in Proc, SaveKey(p)
    PROVE  IOwner'
<1>1. "saveKey" \in Saves /\ Saving(p, "saveKey")
  BY DEF SaveKey, Saves
<1>2. PICK f : f = [file EXCEPT !.keys = @ + 1]
  OBVIOUS
<1>3. /\ f \in OwnerState /\ file.keys <= f.keys /\ f.ops = file.ops /\ f.pays = file.pays
      /\ f.sync = file.sync /\ f.ready = file.ready /\ f.revision = file.revision
  BY <1>1, <1>2, SavingIs DEF OwnerState
<1>4. Good(f)
  BY <1>1, <1>3, SavingIs, ReportedStays DEF Good, Apart, SeesSpent, Usable, Authorized, NotUnsigned
<1>5. Saved(p, f)
  <2>1. file.revision \in Nat
    BY <1>1, SavingIs DEF OwnerState
  <2> QED BY <1>3, <1>4, <2>1 DEF Saved
<1>6. command[p].cmd = "key"
  BY <1>1, SavingIs DEF OnPath, StepOf
<1>7. Replace(p, f, "done")
  BY <1>2 DEF SaveKey
<1> QED BY <1>1, <1>5, <1>6, <1>7, SavingIs, SaveKeeps DEF NextOf

\* A synchronization, which the same keys were read for.
LEMMA SaveSyncKeeps ==
    ASSUME IOwner, NEW p \in Proc, SaveSync(p)
    PROVE  IOwner'
<1>1. "saveSync" \in Saves /\ Saving(p, "saveSync")
  BY DEF SaveSync, Saves
<1>2. PICK f : f = Synced(file, command[p])
  OBVIOUS
<1>3. PICK s \in Sync : s = command[p].seen.sync /\ s.coins \cap restored.spent = {}
  BY <1>1, SavingIs DEF Equipped
<1>4. /\ f \in OwnerState /\ f.keys = file.keys /\ f.ops = file.ops /\ f.pays = file.pays
      /\ f.sync = s /\ f.revision = file.revision
  BY <1>1, <1>2, <1>3, SavingIs DEF Synced, OwnerState, Sync
<1>5. Good(f)
  <2>1. KeepsReported(f)
    BY <1>1, <1>4, SavingIs DEF Good, KeepsReported, Authorized, NotUnsigned
  <2> QED BY <1>1, <1>3, <1>4, <2>1, SavingIs DEF Good, Apart, SeesSpent
<1>6. Saved(p, f)
  <2>1. file.revision \in Nat
    BY <1>1, SavingIs DEF OwnerState
  <2> QED BY <1>4, <1>5, <2>1 DEF Saved
<1>7. command[p].cmd \in {"sync", "create", "prepare"}
  BY <1>1, SavingIs DEF OnPath, StepOf
<1>8. PICK next : next = IF command[p].cmd = "sync" THEN "done" ELSE "choose"
  OBVIOUS
<1>9. Replace(p, f, next)
  BY <1>2, <1>8 DEF SaveSync
<1>10. next = "choose" => Making(command[p]) /\ Blank(f, command[p].op)
  <2>1. next = "choose" => Making(command[p])
    BY <1>1, <1>7, <1>8, SavingIs DEF Making
  <2> QED BY <1>4, <2>1 DEF IOwner, Alone, Blank
<1>11. NextOf(command[p].cmd, next)
  BY <1>7, <1>8 DEF NextOf
<1> QED BY <1>1, <1>6, <1>7, <1>9, <1>10, <1>11, SavingIs, SaveKeeps

\* A new operation, on an input that is still free.
LEMMA SaveFixedKeeps ==
    ASSUME IOwner, NEW p \in Proc, SaveFixed(p)
    PROVE  IOwner'
<1> DEFINE t == command[p]
           o == t.op
<1>1. "saveFixed" \in Saves /\ Saving(p, "saveFixed")
  BY DEF SaveFixed, Saves
<1>2. /\ t.cmd \in {"create", "prepare"} /\ o \in LocalOp /\ Making(t)
  BY <1>1, SavingIs DEF OnPath, StepOf, Making, Storewide
<1>3. /\ Usable(file) /\ file.sync = t.seen.sync /\ t.seen.input \notin Held(file)
      /\ t.seen.input \in file.sync.coins /\ Blank(file, o) /\ <<"signed", o>> \notin reported
  BY <1>1, <1>2, SavingIs DEF SaveFixed, Creatable, Equipped, IOwner, Alone
<1>4. PICK i : i = t.seen.input
  OBVIOUS
<1>5. i \in Coin /\ i \notin restored.spent
  BY <1>1, <1>3, <1>4, SavingIs DEF OwnerState, Sync, Good, SeesSpent
<1>6. PICK record : record = [phase |-> "fixed", input |-> i, proof |-> 0]
  OBVIOUS
<1>7. record \in OpRecord /\ record.input = i
  BY <1>5, <1>6 DEF OpRecord
<1>8. PICK f : f = [file EXCEPT !.ops[o] = record]
  OBVIOUS
<1>9. /\ f \in OwnerState /\ f.keys = file.keys /\ f.pays = file.pays
      /\ f.sync = file.sync /\ f.ready = file.ready /\ f.revision = file.revision
      /\ f.ops = [file.ops EXCEPT ![o] = record]
  BY <1>1, <1>7, <1>8, SavingIs DEF OwnerState
<1>10. f.ops[o] = record /\ \A x \in LocalOp \ {o} : f.ops[x] = file.ops[x]
  BY <1>1, <1>2, <1>9, SavingIs DEF OwnerState
<1>11. Apart(f)
  <2>1. \A x \in LocalOp : file.ops[x] # Absent => file.ops[x].input # i
    BY <1>3, <1>4 DEF Held
  <2>2. Apart(file)
    BY <1>1, SavingIs DEF Good
  <2> QED BY <1>7, <1>10, <2>1, <2>2 DEF Apart
<1>12. SeesSpent(f)
  BY <1>1, <1>5, <1>7, <1>9, <1>10, SavingIs DEF Good, SeesSpent, Usable
<1>13. \A x \in LocalOp : Authorized(file, x) => Authorized(f, x)
  BY <1>3, <1>10 DEF Authorized, Blank
<1>14. KeepsReported(f)
  BY <1>1, <1>9, <1>13, SavingIs DEF Good, KeepsReported, NotUnsigned
<1>15. file.revision \in Nat /\ file.pays \in [LocalOp -> PayRecord \cup {Absent}]
  BY <1>1, SavingIs DEF OwnerState
<1>16. CASE t.cmd = "create"
  <2>1. Replace(p, f, "done")
    BY <1>4, <1>6, <1>8, <1>16 DEF SaveFixed
  <2>2. Saved(p, f)
    BY <1>9, <1>10, <1>11, <1>12, <1>14, <1>15 DEF Saved, Good
  <2> QED BY <1>1, <1>16, <2>1, <2>2, SavingIs, SaveKeeps DEF NextOf
<1>17. CASE t.cmd = "prepare"
  <2>1. PICK entry : entry = [draft |-> "fixed", input |-> i, signed |-> FALSE, attempted |-> FALSE]
    OBVIOUS
  <2>2. entry \in PayRecord
    BY <1>5, <2>1 DEF PayRecord
  <2>3. PICK g : g = [f EXCEPT !.revision = @ + 1, !.pays[o] = entry]
    OBVIOUS
  <2>4. Replace(p, g, "load")
    BY <1>4, <1>6, <1>8, <1>17, <2>1, <2>3 DEF SaveFixed
  <2>5. /\ g \in OwnerState /\ g.keys = f.keys /\ g.ops = f.ops /\ g.sync = f.sync
        /\ g.ready = f.ready /\ g.revision = f.revision + 1
        /\ \A x \in LocalOp \ {o} : g.pays[x] = file.pays[x]
    <3>1. PICK n \in Nat : n = f.revision + 1
      BY <1>9, <1>15
    <3>2. g = Revised(f, n, o, entry)
      BY <2>3, <3>1 DEF Revised
    <3>3. o \in LocalOp /\ f \in OwnerState
      BY <1>2, <1>9
    <3> HIDE DEF o
    <3> QED BY <1>9, <2>2, <3>1, <3>2, <3>3, RevisionIs
  <2>6. KeepsReported(g)
    BY <1>3, <1>9, <1>14, <2>5 DEF KeepsReported, Authorized, NotUnsigned
  <2>7. Good(g)
    BY <1>11, <1>12, <2>5, <2>6 DEF Good, Apart, SeesSpent, Usable
  <2>8. Saved(p, g)
    BY <1>9, <1>10, <1>15, <2>5, <2>7 DEF Saved
  <2> QED BY <1>1, <1>17, <2>4, <2>8, SavingIs, SaveKeeps DEF NextOf
<1> QED BY <1>2, <1>16, <1>17

\* A save that changes one operation, without its input.
LEMMA OperationSaved ==
    ASSUME IOwner, NEW p \in Proc, NEW o \in LocalOp, o = command[p].op, file.ops[o] # Absent,
           NEW entry \in OpRecord \cup {Absent},
           entry # Absent => entry.input = file.ops[o].input,
           Authorized(file, o) => entry # Absent /\ entry.phase = "authorized",
           NEW f, f = [file EXCEPT !.ops[o] = entry]
    PROVE  Saved(p, f) /\ f.ops[o] = entry
<1>1. file \in OwnerState /\ Good(file)
  BY DEF IOwner, TypeOwner
<1>2. /\ f \in OwnerState /\ f.keys = file.keys /\ f.pays = file.pays
      /\ f.sync = file.sync /\ f.ready = file.ready /\ f.revision = file.revision
      /\ f.ops = [file.ops EXCEPT ![o] = entry]
  BY <1>1 DEF OwnerState
<1>3. f.ops[o] = entry /\ \A x \in LocalOp \ {o} : f.ops[x] = file.ops[x]
  BY <1>1, <1>2 DEF OwnerState
<1>4. \A x \in LocalOp : f.ops[x] # Absent => file.ops[x] # Absent /\ f.ops[x].input = file.ops[x].input
  BY <1>3
<1>5. Apart(f) /\ SeesSpent(f)
  BY <1>1, <1>2, <1>4 DEF Good, Apart, SeesSpent, Usable
<1>6. KeepsReported(f)
  <2>1. \A x \in LocalOp : Authorized(file, x) => Authorized(f, x)
    BY <1>3 DEF Authorized
  <2> QED BY <1>1, <1>2, <2>1 DEF Good, KeepsReported, NotUnsigned
<1>7. file.revision \in Nat
  BY <1>1 DEF OwnerState
<1> QED BY <1>2, <1>3, <1>5, <1>6, <1>7 DEF Saved, Good

\* Fresh proofs leave the input, and an authorization.
LEMMA ProvedIs ==
    ASSUME NEW old \in OpRecord
    PROVE  /\ Proved(old) \in OpRecord /\ Proved(old).input = old.input
           /\ old.phase = "authorized" => Proved(old).phase = "authorized"
<1>1. PICK phase : phase = IF old.phase = "authorized" THEN old.phase ELSE "proved"
  OBVIOUS
<1>2. PICK middle : middle = [old EXCEPT !.phase = phase]
  OBVIOUS
<1>3. /\ middle \in OpRecord /\ middle.phase = phase /\ middle.input = old.input
      /\ middle.proof = old.proof
  BY <1>1, <1>2 DEF OpRecord
<1>4. PICK entry : entry = [middle EXCEPT !.proof = old.proof + 1]
  OBVIOUS
<1>5. entry \in OpRecord /\ entry.phase = phase /\ entry.input = old.input
  BY <1>3, <1>4 DEF OpRecord
<1>6. entry = Proved(old)
  BY <1>1, <1>2, <1>4 DEF Proved
<1> QED BY <1>1, <1>5, <1>6

\* Proofs for the record that was read: what is authorized stays so.
LEMMA SaveProofKeeps ==
    ASSUME IOwner, NEW p \in Proc, SaveProof(p)
    PROVE  IOwner'
<1>1. "saveProof" \in Saves /\ Saving(p, "saveProof")
  BY DEF SaveProof, Saves
<1>2. command[p].cmd \in {"prove", "prepare", "payAuthorize"}
  BY <1>1, SavingIs DEF OnPath, StepOf
<1>3. PICK o \in LocalOp : o = command[p].op
  BY <1>1, <1>2, SavingIs DEF Storewide
<1>4. PICK old \in OpRecord : old = file.ops[o] /\ old # Absent
  BY <1>1, <1>3, SavingIs, NoRecordAssumption DEF SaveProof, Equipped
<1>5. PICK entry : entry = Proved(old)
  OBVIOUS
<1>6. /\ entry \in OpRecord /\ entry.input = old.input
      /\ old.phase = "authorized" => entry.phase = "authorized"
  BY <1>5, ProvedIs
<1>10. PICK f : f = [file EXCEPT !.ops[o] = entry]
  OBVIOUS
<1>11. Saved(p, f)
  BY <1>3, <1>4, <1>6, <1>10, NoRecordAssumption, OperationSaved DEF Authorized
<1>12. PICK next : next = IF command[p].cmd = "prove" THEN "done" ELSE "reload"
  OBVIOUS
<1>13. Replace(p, f, next)
  BY <1>3, <1>4, <1>5, <1>10, <1>12 DEF SaveProof
<1>14. /\ NextOf(command[p].cmd, next) /\ command[p].cmd # "authorize" /\ next # "choose"
       /\ ~(command[p].cmd = "payAuthorize" /\ next = "done")
  BY <1>2, <1>12 DEF NextOf
<1>15. lock = Absent /\ command[p].step # "idle" /\ command[p].cmd # "backup" /\ NotBeingMade(p)
  BY <1>1, <1>2, SavingIs
<1> QED BY <1>11, <1>13, <1>14, <1>15, SaveKeeps

\* The authorization of the record that was read.
LEMMA SaveSignatureKeeps ==
    ASSUME IOwner, NEW p \in Proc, SaveSignature(p)
    PROVE  IOwner'
<1>1. "saveSignature" \in Saves /\ Saving(p, "saveSignature")
  BY DEF SaveSignature, Saves
<1>2. command[p].cmd = "authorize"
  BY <1>1, SavingIs DEF OnPath, StepOf
<1>3. PICK o \in LocalOp : o = command[p].op
  BY <1>1, <1>2, SavingIs DEF Storewide
<1>4. PICK old \in OpRecord : old = file.ops[o] /\ old # Absent
  BY <1>1, <1>3, SavingIs, NoRecordAssumption DEF SaveSignature, Equipped
<1>5. PICK entry : entry = [old EXCEPT !.phase = "authorized"]
  OBVIOUS
<1>6. entry \in OpRecord /\ entry.phase = "authorized" /\ entry.input = old.input /\ entry # Absent
  BY <1>5, NoRecordAssumption DEF OpRecord
<1>7. PICK f : f = [file EXCEPT !.ops[o] = entry]
  OBVIOUS
<1>8. Saved(p, f) /\ Authorized(f, o)
  BY <1>3, <1>4, <1>6, <1>7, OperationSaved DEF Authorized
<1>9. Replace(p, f, "done")
  <2>1. Replace(p, [file EXCEPT !.ops[o].phase = "authorized"], "done")
    BY <1>3 DEF SaveSignature
  <2>2. [file EXCEPT !.ops[o].phase = "authorized"]
          = [file EXCEPT !.ops[o] = [file.ops[o] EXCEPT !.phase = "authorized"]]
    OBVIOUS
  <2> QED BY <1>4, <1>5, <1>7, <2>1, <2>2
<1> QED BY <1>1, <1>2, <1>3, <1>8, <1>9, SavingIs, SaveKeeps DEF NextOf

\* An operation goes, unless it is authorized.
LEMMA DropKeeps ==
    ASSUME IOwner, NEW p \in Proc, Drop(p)
    PROVE  IOwner'
<1>1. "drop" \in Saves /\ Saving(p, "drop")
  BY DEF Drop, Saves
<1>2. command[p].cmd \in {"abandon", "discard"}
  BY <1>1, SavingIs DEF OnPath, StepOf
<1>3. PICK o \in LocalOp : o = command[p].op
  BY <1>1, <1>2, SavingIs DEF Storewide
<1>4. file.ops[o] # Absent /\ file.ops[o].phase # "authorized"
  BY <1>3 DEF Drop, Abandonable
<1>5. PICK f : f = [file EXCEPT !.ops[o] = Absent]
  OBVIOUS
<1>6. Saved(p, f)
  BY <1>3, <1>4, <1>5, OperationSaved DEF Authorized
<1>7. NotBeingMade(p)
  BY <1>3, <1>4, NotBeingMadeIf DEF Blank
<1>8. PICK next : next = IF command[p].cmd = "abandon" THEN "done" ELSE "reread"
  OBVIOUS
<1>9. Replace(p, f, next)
  BY <1>3, <1>5, <1>8 DEF Drop
<1>10. NextOf(command[p].cmd, next) /\ next # "choose"
  BY <1>2, <1>8 DEF NextOf
<1> QED BY <1>1, <1>2, <1>6, <1>7, <1>9, <1>10, SavingIs, SaveKeeps

\* A save of a Pay changes its entry, and takes no signatures away.
LEMMA PaySaved ==
    ASSUME IOwner, NEW p \in Proc, NEW o \in LocalOp, o = command[p].op,
           NEW entry \in PayRecord \cup {Absent},
           NotUnsigned(file, o) => (entry # Absent => entry.signed),
           NEW f, f = Revised(file, file.revision + 1, o, entry)
    PROVE  Saved(p, f) /\ f.pays[o] = entry
<1>1. file \in OwnerState /\ Good(file)
  BY DEF IOwner, TypeOwner
<1>2. PICK n \in Nat : n = file.revision + 1 /\ file.revision \in Nat
  BY <1>1 DEF OwnerState
<1>3. /\ f \in OwnerState /\ f.keys = file.keys /\ f.ops = file.ops /\ f.sync = file.sync
      /\ f.ready = file.ready /\ f.revision = n /\ f.pays[o] = entry
      /\ \A x \in LocalOp \ {o} : f.pays[x] = file.pays[x]
  <2>1. f = Revised(file, n, o, entry) /\ file \in OwnerState
    BY <1>1, <1>2
  <2> QED BY <2>1, RevisionIs
<1>4. Apart(f) /\ SeesSpent(f)
  BY <1>1, <1>3 DEF Good, Apart, SeesSpent, Usable
<1>5. KeepsReported(f)
  <2>1. \A x \in LocalOp : NotUnsigned(file, x) => NotUnsigned(f, x)
    BY <1>3 DEF NotUnsigned
  <2> QED BY <1>1, <1>3, <2>1 DEF Good, KeepsReported, Authorized
<1> QED BY <1>2, <1>3, <1>4, <1>5 DEF Saved, Good

\* A save of what was read of a Pay, with one thing more.
LEMMA SavePayKeeps ==
    ASSUME IOwner, NEW p \in Proc, NEW step \in {"saveDraft", "saveSigned", "saveAttempt"},
           NEW entry, NEW next, SavePay(p, step, entry, next),
           command[p].seen.pay \in PayRecord => entry \in PayRecord,
           command[p].seen.pay \in PayRecord /\ command[p].seen.pay.signed => entry.signed,
           NextOf(command[p].cmd, next), next # "choose",
           command[p].cmd = "payAuthorize" /\ next = "done" => entry.signed
    PROVE  IOwner'
<1>1. step \in Saves /\ Saving(p, step)
  BY DEF SavePay, Saves
<1>2. command[p].cmd \in {"prepare", "payAuthorize", "resume"}
  BY <1>1, SavingIs DEF OnPath, StepOf
<1>3. PICK o \in LocalOp : o = command[p].op
  BY <1>1, <1>2, SavingIs DEF Storewide
<1>4. command[p].seen.pay \in PayRecord /\ command[p].seen.pay = file.pays[o]
        /\ command[p].seen.revision = file.revision
  BY <1>1, <1>3, SavingIs DEF SavePay, Current, Equipped, Progress
<1>5. entry \in PayRecord /\ (file.pays[o].signed => entry.signed) /\ file.pays[o] # Absent
  BY <1>4, NoRecordAssumption
<1>6. PICK f : f = Revised(file, file.revision + 1, o, entry)
  OBVIOUS
<1>7. Saved(p, f) /\ f.pays[o] = entry
  BY <1>3, <1>5, <1>6, PaySaved DEF NotUnsigned
<1>8. Replace(p, f, next)
  BY <1>3, <1>4, <1>6 DEF SavePay, Revised
<1>9. command[p].cmd = "payAuthorize" /\ next = "done" => NotUnsigned(f, command[p].op)
  BY <1>3, <1>7 DEF NotUnsigned
<1> QED BY <1>1, <1>2, <1>7, <1>8, <1>9, SavingIs, SaveKeeps

\* What is known of a Pay's entry with one more field set.
LEMMA EntryIs ==
    ASSUME NEW pay \in PayRecord
    PROVE  /\ [pay EXCEPT !.draft = "proved"] \in PayRecord
           /\ [pay EXCEPT !.draft = "proved"].signed = pay.signed
           /\ [pay EXCEPT !.signed = TRUE] \in PayRecord
           /\ [pay EXCEPT !.signed = TRUE].signed
           /\ [pay EXCEPT !.attempted = TRUE] \in PayRecord
           /\ [pay EXCEPT !.attempted = TRUE].signed = pay.signed
BY DEF PayRecord

\* A draft with its proof, the signatures, and the attempts.
LEMMA PaySavesKeep ==
    ASSUME IOwner, NEW p \in Proc, SaveDraft(p) \/ SaveSigned(p) \/ SaveAttempt(p)
    PROVE  IOwner'
<1>1. CASE SaveDraft(p)
  <2>1. PICK next : next = IF command[p].cmd = "prepare" THEN "done" ELSE "reserve"
    OBVIOUS
  <2>2. PICK entry : entry = [command[p].seen.pay EXCEPT !.draft = "proved"]
    OBVIOUS
  <2>3. SavePay(p, "saveDraft", entry, next)
    BY <1>1, <2>1, <2>2 DEF SaveDraft
  <2>4. command[p].cmd \in {"prepare", "payAuthorize"}
    BY <2>3, SavingIs DEF SavePay, Saves, OnPath, StepOf
  <2>5. command[p].seen.pay \in PayRecord =>
            entry \in PayRecord /\ entry.signed = command[p].seen.pay.signed
    BY <2>2, EntryIs
  <2>6. NextOf(command[p].cmd, next) /\ next # "choose"
          /\ ~(command[p].cmd = "payAuthorize" /\ next = "done")
    BY <2>1, <2>4 DEF NextOf
  <2> QED BY <2>3, <2>5, <2>6, SavePayKeeps
<1>2. CASE SaveSigned(p)
  <2>1. PICK next : next = IF command[p].cmd = "resume" THEN "attempt" ELSE "done"
    OBVIOUS
  <2>2. PICK entry : entry = [command[p].seen.pay EXCEPT !.signed = TRUE]
    OBVIOUS
  <2>3. SavePay(p, "saveSigned", entry, next)
    BY <1>2, <2>1, <2>2 DEF SaveSigned
  <2>4. command[p].seen.pay \in PayRecord
    BY <2>3, SavingIs DEF SavePay, Saves, Equipped, Progress
  <2>5. entry \in PayRecord /\ entry.signed
    BY <2>2, <2>4, EntryIs
  <2>6. NextOf(command[p].cmd, next) /\ next # "choose"
    BY <2>1 DEF NextOf
  <2> QED BY <2>3, <2>5, <2>6, SavePayKeeps
<1>3. CASE SaveAttempt(p)
  <2>1. PICK entry : entry = [command[p].seen.pay EXCEPT !.attempted = TRUE]
    OBVIOUS
  <2>2. SavePay(p, "saveAttempt", entry, "done")
    BY <1>3, <2>1 DEF SaveAttempt
  <2>3. command[p].cmd = "resume"
    BY <2>2, SavingIs DEF SavePay, Saves, OnPath, StepOf
  <2>4. command[p].seen.pay \in PayRecord =>
            entry \in PayRecord /\ entry.signed = command[p].seen.pay.signed
    BY <2>1, EntryIs
  <2> QED BY <2>2, <2>3, <2>4, SavePayKeeps DEF NextOf
<1> QED BY <1>1, <1>2, <1>3

\* The entry of a Pay is removed.
LEMMA RemovePayKeeps ==
    ASSUME IOwner, NEW p \in Proc, RemovePay(p)
    PROVE  IOwner'
<1>1. "removePay" \in Saves /\ Saving(p, "removePay")
  BY DEF RemovePay, SavePay, Saves
<1>2. command[p].cmd = "discard"
  BY <1>1, SavingIs DEF OnPath, StepOf
<1>3. PICK o \in LocalOp : o = command[p].op
  BY <1>1, <1>2, SavingIs DEF Storewide
<1>4. PICK f : f = Revised(file, file.revision + 1, o, Absent)
  OBVIOUS
<1>5. Saved(p, f)
  BY <1>3, <1>4, PaySaved
<1>6. Replace(p, f, "done")
  BY <1>3, <1>4 DEF RemovePay, SavePay, Current, Revised
<1> QED BY <1>1, <1>2, <1>5, <1>6, SavingIs, SaveKeeps DEF NextOf

-----------------------------------------------------------------------------
(* The lock is removed, and what runs around the store.                      *)

\* What a command reports saved is in the store.
LEMMA ReportIs ==
    ASSUME IOwner, NEW p \in Proc, command[p].step = "fsync", command[p].seen = "done"
    PROVE  \A fact \in Report(command[p]) :
             \/ fact = <<"key", file.keys>>
             \/ /\ fact = <<"authorized", command[p].op>> /\ command[p].op \in LocalOp
                /\ Authorized(file, command[p].op)
             \/ /\ fact = <<"signed", command[p].op>> /\ command[p].op \in LocalOp
                /\ NotUnsigned(file, command[p].op)
<1>1. SavedOf(command[p])
  BY DEF IOwner, Founded
<1>2. command[p].cmd \notin Storewide => command[p].op \in LocalOp
  BY RunningIs
<1> QED BY <1>1, <1>2 DEF SavedOf, Report, Storewide

\* The lock is removed, after the directory was synchronized or not.
LEMMA UnlockKeeps ==
    ASSUME IOwner, NEW p \in Proc, NEW t, Stepped(p, t), lock = p, lock' = Absent,
           UNCHANGED <<file, backup, drawn, restored, spent>>,
           NEW facts, facts \subseteq Report(command[p]), reported' = reported \cup facts,
           facts # {} => command[p].seen = "done",
           durable' = file \/ (durable' = durable /\ facts = {}),
           \/ t = AtRest
           \/ /\ t = Task(command[p].cmd, command[p].seen, command[p].op, Absent)
              /\ command[p].seen # "done"
    PROVE  IOwner'
<1>1. /\ command[p].step = "fsync" /\ OnPath(command[p]) /\ SavedOf(command[p])
      /\ command[p].op \in LocalOp \cup {Absent}
  <2>1. command[p].step = "fsync"
    BY DEF IOwner, Founded
  <2> QED BY <2>1, RunningIs DEF Founded
<1>2. t.step # "idle" =>
          /\ t.cmd = command[p].cmd /\ t.op = command[p].op /\ t.step = command[p].seen
          /\ t.step \in {"choose", "load", "reload", "reserve", "attempt", "reread"}
          /\ OnPath(t)
  <2>1. CASE t = AtRest
    BY <2>1, RestIs
  <2>2. CASE t # AtRest
    <3>1. t.cmd = command[p].cmd /\ t.op = command[p].op /\ t.step = command[p].seen
      BY <2>2 DEF Task
    <3>2. NextOf(t.cmd, t.step) /\ t.step # "done"
      BY <1>1, <2>2, <3>1 DEF SavedOf
    <3>3. t.step \in {"choose", "load", "reload", "reserve", "attempt", "reread"} /\ StepOf(t.cmd, t.step)
      BY <3>2 DEF NextOf, StepOf
    <3> QED BY <1>1, <3>1, <3>3 DEF OnPath
  <2> QED BY <2>1, <2>2
<1>3. NotBeingMade(p)
  BY <1>1, NotBeingMadeIf DEF Asking
<1>4. \A fact \in facts :
             \/ fact = <<"key", file.keys>>
             \/ /\ fact = <<"authorized", command[p].op>> /\ command[p].op \in LocalOp
                /\ Authorized(file, command[p].op)
             \/ /\ fact = <<"signed", command[p].op>> /\ command[p].op \in LocalOp
                /\ NotUnsigned(file, command[p].op)
  BY <1>1, ReportIs
<1>5. file \in OwnerState /\ file.keys \in Nat
  BY DEF IOwner, TypeOwner, OwnerState
<1>6. TypeOwner'
  <2>1. \A q \in Proc : IsTask(command'[q])
    BY DEF IOwner, TypeOwner, Stepped
  <2>2. reported' \subseteq ({"key"} \X Nat) \cup ({"authorized", "signed"} \X LocalOp)
    BY <1>4, <1>5 DEF IOwner, TypeOwner
  <2> QED BY <2>1, <2>2 DEF IOwner, TypeOwner, Stepped
<1>7. Good(file)' /\ Good(durable)' /\ (backup # Absent => Apart(backup))'
  <2>1. KeepsReported(file)'
    <3>1. ASSUME NEW k \in Nat, <<"key", k>> \in reported'
          PROVE  file.keys >= k
      BY <1>4, <1>5, <3>1 DEF IOwner, Good, KeepsReported
    <3>2. ASSUME NEW o \in LocalOp, <<"authorized", o>> \in reported'
          PROVE  Authorized(file, o)
      BY <1>4, <3>2 DEF IOwner, Good, KeepsReported
    <3>3. ASSUME NEW o \in LocalOp, <<"signed", o>> \in reported'
          PROVE  NotUnsigned(file, o)
      BY <1>4, <3>3 DEF IOwner, Good, KeepsReported
    <3> QED BY <3>1, <3>2, <3>3 DEF KeepsReported, Authorized, NotUnsigned
  <2>2. Good(file)'
    BY <2>1 DEF IOwner, Good, Apart, SeesSpent
  <2>3. Good(durable)'
    <3>1. CASE durable' = file
      BY <2>2, <3>1 DEF Good, Apart, SeesSpent, KeepsReported, Authorized, NotUnsigned, Usable
    <3>2. CASE durable' = durable /\ facts = {}
      BY <3>2 DEF IOwner, Good, Apart, SeesSpent, KeepsReported
    <3> QED BY <3>1, <3>2
  <2> QED BY <2>2, <2>3 DEF IOwner, Apart
<1>8. (restored.spent \subseteq spent)'
  BY DEF IOwner
<1>9. \A o \in LocalOp : <<"signed", o>> \in reported' /\ <<"signed", o>> \notin reported =>
          o = command[p].op
  BY <1>4
<1>10. UndrawnUnknown'
  <2>1. \A o \in LocalOp \ drawn : command[p].op # o
    BY <1>1 DEF IOwner, UndrawnUnknown
  <2>2. \A q \in Proc : command'[q].step # "idle" =>
            command[q].step # "idle" /\ command'[q].op = command[q].op
    BY <1>1, <1>2 DEF Stepped
  <2>3. \A o \in LocalOp \ drawn : <<"signed", o>> \notin reported'
    BY <1>9, <2>1 DEF IOwner, UndrawnUnknown
  <2>4. \A o \in LocalOp \ drawn : Blank(durable, o)'
    BY DEF IOwner, UndrawnUnknown, Blank
  <2>5. \A o \in LocalOp \ drawn : Blank(file, o)' /\ (backup # Absent => Blank(backup, o))'
    BY DEF IOwner, UndrawnUnknown, Blank
  <2> QED BY <2>2, <2>3, <2>4, <2>5 DEF IOwner, UndrawnUnknown
<1>11. ASSUME NEW q \in Proc
       PROVE  Founded(q)'
  <2>1. CASE q = p
    BY <1>2, <2>1, OwnerAssumption DEF Stepped, Founded
  <2>2. CASE q # p
    <3>1. command'[q] = command[q] /\ Founded(q)
      BY <2>2 DEF Stepped, IOwner
    <3> QED BY <2>2, <3>1, OwnerAssumption DEF Founded, Progress
  <2> QED BY <2>1, <2>2
<1>12. ASSUME NEW q \in Proc
       PROVE  Alone(q)'
  <2> SUFFICES ASSUME Making(command'[q]) PROVE Alone(q)'
    BY DEF Alone
  <2>1. Making(command[q]) /\ command'[q].op = command[q].op
    <3>1. CASE q = p
      BY <1>1, <1>2, <3>1 DEF Stepped, Making
    <3>2. CASE q # p
      BY <3>2 DEF Stepped
    <3> QED BY <3>1, <3>2
  <2>2. Alone(q)
    BY DEF IOwner
  <2>3. <<"signed", command[q].op>> \notin reported'
    <3>1. CASE q = p
      <4>1. command[p].cmd # "payAuthorize"
        BY <2>1, <3>1 DEF Making
      <4>2. <<"signed", command[p].op>> \notin facts
        BY <4>1 DEF Report
      <4> QED BY <2>1, <2>2, <3>1, <4>2 DEF Alone
    <3>2. CASE q # p
      <4>1. command[q].op # command[p].op
        BY <1>3, <2>1, <3>2 DEF NotBeingMade
      <4> QED BY <1>4, <2>1, <2>2, <4>1 DEF Alone
    <3> QED BY <3>1, <3>2
  <2>4. ASSUME NEW r \in Proc \ {q}, command'[r].op = command'[q].op
        PROVE  command'[r].step \in Asking
    <3>1. CASE r = p
      BY <1>2, <1>3, <2>1, <2>4, <3>1 DEF Stepped, NotBeingMade, Asking
    <3>2. CASE r # p
      BY <2>1, <2>2, <2>4, <3>2 DEF Stepped, Alone
    <3> QED BY <3>1, <3>2
  <2> QED BY <2>1, <2>2, <2>3, <2>4 DEF Alone, Blank
<1> QED BY <1>6, <1>7, <1>8, <1>10, <1>11, <1>12 DEF IOwner

\* The end of a save, and an error in it.
LEMMA SettleKeeps ==
    ASSUME IOwner, NEW p \in Proc, Settle(p) \/ GiveUpLocked(p)
    PROVE  IOwner'
<1>1. CASE Settle(p)
  <2>1. CASE command[p].seen = "done"
    <3>1. Stepped(p, AtRest)
      BY <1>1, <2>1, TaskIs, RestIs DEF Settle, IOwner
    <3>2. PICK facts : facts = Report(command[p])
      OBVIOUS
    <3> QED BY <1>1, <2>1, <3>1, <3>2, UnlockKeeps DEF Settle, counted, outside
  <2>2. CASE command[p].seen # "done"
    <3>1. Stepped(p, Task(command[p].cmd, command[p].seen, command[p].op, Absent))
      BY <1>1, <2>2, GoIs DEF Settle, IOwner
    <3>2. reported' = reported \cup {} /\ {} \subseteq Report(command[p])
      BY <1>1, <2>2 DEF Settle
    <3> QED BY <1>1, <2>2, <3>1, <3>2, UnlockKeeps DEF Settle, counted, outside
  <2> QED BY <2>1, <2>2
<1>2. CASE GiveUpLocked(p)
  <2>1. Stepped(p, AtRest)
    BY <1>2, TaskIs, RestIs DEF GiveUpLocked, IOwner
  <2>2. reported' = reported \cup {} /\ {} \subseteq Report(command[p])
    BY <1>2 DEF GiveUpLocked, ghosts
  <2> QED BY <1>2, <2>1, <2>2, UnlockKeeps DEF GiveUpLocked, counted, outside, ghosts
<1> QED BY <1>1, <1>2

\* The backup is the store as it is.
LEMMA BackupKeeps ==
    ASSUME IOwner, NEW p \in Proc, Backup(p)
    PROVE  IOwner'
<1>1. Stepped(p, AtRest)
  BY TaskIs, RestIs DEF Backup, IOwner
<1>2. "copy" \in Saves /\ lock # p
  BY OwnerAssumption DEF Backup, Saving, Saves
<1> QED BY <1>1, <1>2, RestIs, QuietKeeps DEF Backup, counted, outside, ghosts, Equipped, Asking

\* A command starts: a new operation is nobody else's, as it was drawn at random.
LEMMA StartKeeps ==
    ASSUME IOwner, NEW p \in Proc, Start(p)
    PROVE  IOwner'
<1>1. PICK cmd \in DOMAIN FirstStep, o \in LocalOp \cup {Absent} : Command(p, cmd, o)
  BY DEF Start
<1>2. PICK t : t = Task(cmd, FirstStep[cmd], o, Absent)
  OBVIOUS
<1>3. Stepped(p, t) /\ t.cmd = cmd /\ t.op = o /\ t.step = FirstStep[cmd] /\ t.seen = Absent
  <2>1. IsTask(t) /\ t.cmd = cmd /\ t.op = o /\ t.step = FirstStep[cmd] /\ t.seen = Absent
    BY <1>2 DEF IsTask, Task
  <2>2. command' = [command EXCEPT ![p] = t]
    BY <1>1, <1>2 DEF Command, Task
  <2> QED BY <2>1, <2>2, TaskIs DEF IOwner
<1>4. /\ StepOf(cmd, t.step) /\ t.step \notin {"idle", "fsync"}
      /\ t.step \notin {"saveSync", "saveProof", "saveSignature", "saveFixed", "saveDraft",
                        "saveSigned", "saveAttempt", "removePay"}
      /\ t.step \in Asking \/ cmd \in Storewide \cup {"create", "prepare"}
  BY <1>3 DEF FirstStep, StepOf, Asking, Storewide
<1>5. OnPath(t) /\ (cmd \in Storewide => o = Absent) /\ (cmd \notin Storewide => o \in LocalOp)
  BY <1>1, <1>3, <1>4 DEF Command, OnPath, Storewide
<1>6. /\ command[p].step = "idle" /\ drawn \subseteq drawn' /\ drawn' \subseteq drawn \cup {o}
      /\ cmd \in {"create", "prepare"} => o \notin drawn /\ o \in drawn'
      /\ o \in drawn' \cup {Absent}
      /\ UNCHANGED <<file, durable, lock, backup, spent, reported, restored>>
  BY <1>1 DEF Command, outside, ghosts
<1>7. lock # p
  BY <1>6 DEF IOwner, Founded
<1>8. TypeOwner'
  <2>1. \A q \in Proc : IsTask(command'[q])
    BY <1>3 DEF IOwner, TypeOwner, Stepped
  <2>2. drawn' \subseteq LocalOp
    <3>1. cmd \in {"create", "prepare"} => o \in LocalOp
      BY <1>5 DEF Storewide
    <3>2. cmd \notin {"create", "prepare"} => drawn' = drawn
      BY <1>1 DEF Command
    <3> QED BY <1>6, <3>1, <3>2 DEF IOwner, TypeOwner
  <2> QED BY <1>3, <1>6, <2>1, <2>2 DEF IOwner, TypeOwner, Stepped
<1>9. Good(file)' /\ Good(durable)' /\ (backup # Absent => Apart(backup))'
  BY <1>6 DEF IOwner, Good, Apart, SeesSpent, KeepsReported
<1>10. (restored.spent \subseteq spent)'
  BY <1>6 DEF IOwner
<1>11. UndrawnUnknown'
  <2>1. \A x \in LocalOp \ drawn' : t.op # x /\ x \in LocalOp \ drawn
    BY <1>3, <1>6, OwnerAssumption
  <2>2. \A x \in LocalOp \ drawn' :
            /\ Blank(file, x)' /\ Blank(durable, x)' /\ (backup # Absent => Blank(backup, x))'
            /\ <<"signed", x>> \notin reported'
    BY <1>6, <2>1 DEF IOwner, UndrawnUnknown, Blank
  <2>3. \A x \in LocalOp \ drawn', q \in Proc : command'[q].step # "idle" => command'[q].op # x
    BY <1>3, <2>1 DEF IOwner, UndrawnUnknown, Stepped
  <2> QED BY <2>2, <2>3 DEF UndrawnUnknown
<1>12. ASSUME NEW q \in Proc
       PROVE  Founded(q)'
  <2>1. CASE q = p
    BY <1>3, <1>4, <1>5, <1>6, <1>7, <2>1 DEF Stepped, Founded
  <2>2. CASE q # p
    <3>1. command'[q] = command[q] /\ Founded(q)
      BY <1>3, <2>2 DEF Stepped, IOwner
    <3> QED BY <1>6, <3>1 DEF Founded, SavedOf, Progress
  <2> QED BY <2>1, <2>2
<1>13. ASSUME NEW q \in Proc
       PROVE  Alone(q)'
  <2> SUFFICES ASSUME Making(command'[q]) PROVE Alone(q)'
    BY DEF Alone
  <2>1. CASE q = p
    <3>1. command'[q] = t /\ o \in LocalOp \ drawn
      BY <1>3, <1>5, <1>6, <2>1 DEF Stepped, Making, Storewide
    <3>2. ASSUME NEW r \in Proc \ {q}, command'[r].op = o
          PROVE  command'[r].step \in Asking
      BY <1>3, <2>1, <3>1, <3>2 DEF IOwner, UndrawnUnknown, Stepped, Asking
    <3>3. Blank(file, o) /\ <<"signed", o>> \notin reported
      BY <3>1 DEF IOwner, UndrawnUnknown
    <3> QED BY <1>3, <1>6, <3>1, <3>2, <3>3 DEF Alone
  <2>2. CASE q # p
    <3>1. command'[q] = command[q] /\ Alone(q) /\ Making(command[q])
      BY <1>3, <2>2 DEF Stepped, IOwner
    <3>2. command[q].op \in LocalOp \cap drawn
      <4>1. command[q].step # "idle" /\ command[q].cmd \notin Storewide
        BY <3>1 DEF Making, Storewide
      <4> QED BY <4>1, RunningIs
    <3>3. t.op = command[q].op => t.step \in Asking
      BY <1>3, <1>4, <1>5, <1>6, <3>2, OwnerAssumption
    <3>4. ASSUME NEW r \in Proc \ {q}, command'[r].op = command[q].op
          PROVE  command'[r].step \in Asking
      BY <1>3, <3>1, <3>3, <3>4 DEF Stepped, Alone
    <3> QED BY <1>6, <3>1, <3>4 DEF Alone
  <2> QED BY <2>1, <2>2
<1> QED BY <1>8, <1>9, <1>10, <1>11, <1>12, <1>13 DEF IOwner

\* A killed process leaves the lock, and the store as it was.
LEMMA CrashKeeps ==
    ASSUME IOwner, NEW p \in Proc, Crash(p)
    PROVE  IOwner'
<1>1. Stepped(p, AtRest)
  BY TaskIs, RestIs DEF Crash, IOwner
<1>2. /\ UNCHANGED <<file, durable, backup, drawn, spent, reported, restored>>
      /\ lock' \in Proc \cup {Absent, Left}
      /\ (lock' = IF lock = p THEN Left ELSE lock) \/ (lock = Absent /\ lock' = Left)
  BY DEF Crash, IOwner, TypeOwner, outside, ghosts
<1>3. \A q \in Proc : (lock' = q) <=> (lock = q /\ q # p)
  BY <1>2, OwnerAssumption DEF Crash
<1>4. TypeOwner'
  <2>1. \A q \in Proc : IsTask(command'[q])
    BY <1>1 DEF IOwner, TypeOwner, Stepped
  <2> QED BY <1>1, <1>2, <2>1 DEF IOwner, TypeOwner, Stepped
<1>5. Good(file)' /\ Good(durable)' /\ (backup # Absent => Apart(backup))'
  BY <1>2 DEF IOwner, Good, Apart, SeesSpent, KeepsReported
<1>6. UndrawnUnknown'
  <2>1. \A o \in LocalOp \ drawn' :
            /\ Blank(file, o)' /\ Blank(durable, o)' /\ (backup # Absent => Blank(backup, o))'
            /\ <<"signed", o>> \notin reported'
    BY <1>2 DEF IOwner, UndrawnUnknown, Blank
  <2>2. \A o \in LocalOp \ drawn', q \in Proc : command'[q].step # "idle" => command'[q].op # o
    BY <1>1, <1>2, RestIs DEF IOwner, UndrawnUnknown, Stepped
  <2> QED BY <2>1, <2>2 DEF UndrawnUnknown
<1>7. ASSUME NEW q \in Proc
      PROVE  Founded(q)'
  <2>1. CASE q = p
    BY <1>1, <1>3, <2>1, RestIs DEF Stepped, Founded
  <2>2. CASE q # p
    <3>1. command'[q] = command[q] /\ Founded(q)
      BY <1>1, <2>2 DEF Stepped, IOwner
    <3> QED BY <1>2, <1>3, <2>2, <3>1 DEF Founded, SavedOf, Progress
  <2> QED BY <2>1, <2>2
<1>8. ASSUME NEW q \in Proc
      PROVE  Alone(q)'
  BY <1>1, <1>2, RestIs DEF IOwner, Alone, Stepped, Asking, Blank
<1> QED BY <1>2, <1>4, <1>5, <1>6, <1>7, <1>8 DEF IOwner

\* No command runs, and what the directory and the backup hold is good.
AtPeace ==
    /\ command = [p \in Proc |-> command[p]]
    /\ \A p \in Proc : command[p].step = "idle" /\ IsTask(command[p])
    /\ file \in OwnerState /\ durable \in OwnerState /\ lock \in {Absent, Left}
    /\ backup \in OwnerState \cup {Absent}
    /\ drawn \subseteq LocalOp
    /\ reported \subseteq ({"key"} \X Nat) \cup ({"authorized", "signed"} \X LocalOp)
    /\ Good(file) /\ Good(durable)
    /\ backup # Absent => Apart(backup)
    /\ restored.spent \subseteq spent
    /\ \A o \in LocalOp \ drawn :
          /\ Blank(file, o) /\ Blank(durable, o)
          /\ backup # Absent => Blank(backup, o)
          /\ <<"signed", o>> \notin reported

\* Such a state fulfils the invariant.
LEMMA PeaceIs == AtPeace => IOwner
<1> SUFFICES ASSUME AtPeace PROVE IOwner
  OBVIOUS
<1>1. TypeOwner
  BY DEF AtPeace, TypeOwner
<1>2. UndrawnUnknown
  BY DEF AtPeace, UndrawnUnknown
<1>3. \A p \in Proc : Founded(p) /\ Alone(p)
  BY OwnerAssumption DEF AtPeace, Founded, Alone, Making
<1> QED BY <1>1, <1>2, <1>3 DEF AtPeace, IOwner

\* An owner's store starts empty.
LEMMA OwnerStarts == InitOwner => IOwner
<1> SUFFICES ASSUME InitOwner PROVE AtPeace
  BY PeaceIs
<1>1. PICK f : f = [keys |-> 0, ready |-> TRUE, sync |-> Unsynced, revision |-> 0,
                    ops |-> [o \in LocalOp |-> Absent], pays |-> [o \in LocalOp |-> Absent]]
  OBVIOUS
<1>2. /\ f \in OwnerState /\ f.ops = [o \in LocalOp |-> Absent] /\ f.pays = [o \in LocalOp |-> Absent]
      /\ f.sync.coins = {}
  BY <1>1 DEF OwnerState, Sync, Unsynced
<1>3. /\ file = f /\ durable = f /\ backup = Absent /\ lock = Absent /\ drawn = {} /\ spent = {}
      /\ reported = {} /\ restored.spent = {}
  BY <1>1 DEF InitOwner
<1>4. Good(f)
  BY <1>2, <1>3 DEF Good, Apart, SeesSpent, KeepsReported
<1>5. /\ command = [p \in Proc |-> command[p]]
      /\ \A p \in Proc : command[p].step = "idle" /\ IsTask(command[p])
  BY RestIs DEF InitOwner
<1> QED BY <1>2, <1>3, <1>4, <1>5 DEF AtPeace, Blank

\* The power fails: what was synchronized or renamed is there, and the lock.
LEMMA PowerLossKeeps ==
    ASSUME IOwner, PowerLoss
    PROVE  IOwner'
<1>1. PICK f \in {file, durable} : file' = f /\ durable' = f
  BY DEF PowerLoss
<1>2. f \in OwnerState /\ Good(f) /\ \A o \in LocalOp \ drawn : Blank(f, o)
  BY DEF IOwner, TypeOwner, UndrawnUnknown
<1>3. UNCHANGED <<backup, drawn, spent, reported, restored>> /\ lock' \in {Absent, Left}
  BY DEF PowerLoss, outside, ghosts
<1>4. /\ command' = [p \in Proc |-> command'[p]]
      /\ \A p \in Proc : command'[p].step = "idle" /\ IsTask(command'[p])
  BY RestIs DEF PowerLoss
<1>5. \A o \in LocalOp \ drawn' :
          /\ Blank(file, o)' /\ Blank(durable, o)' /\ (backup # Absent => Blank(backup, o))'
          /\ <<"signed", o>> \notin reported'
  BY <1>1, <1>2, <1>3 DEF IOwner, UndrawnUnknown, Blank
<1>6. Good(file)' /\ Good(durable)'
  BY <1>1, <1>2, <1>3 DEF Good, Apart, SeesSpent, KeepsReported, Authorized, NotUnsigned, Usable
<1>7. AtPeace'
  BY <1>1, <1>2, <1>3, <1>4, <1>5, <1>6 DEF AtPeace, IOwner, TypeOwner, Apart
<1> QED BY <1>7, PeaceIs, PTL

\* A lock that was left is removed when nobody runs.
LEMMA RemoveLockKeeps ==
    ASSUME IOwner, RemoveLock
    PROVE  IOwner'
<1>1. /\ UNCHANGED <<file, durable, backup, command, drawn, spent, reported, restored>>
      /\ lock' = Absent
  BY DEF RemoveLock, counted, outside, ghosts
<1>2. Good(file)' /\ Good(durable)' /\ (backup # Absent => Apart(backup))'
  BY <1>1 DEF IOwner, Good, Apart, SeesSpent, KeepsReported
<1>3. \A o \in LocalOp \ drawn' :
          /\ Blank(file, o)' /\ Blank(durable, o)' /\ (backup # Absent => Blank(backup, o))'
          /\ <<"signed", o>> \notin reported'
  BY <1>1 DEF IOwner, UndrawnUnknown, Blank
<1>4. \A p \in Proc : command'[p].step = "idle" /\ IsTask(command'[p])
  BY <1>1 DEF RemoveLock, IOwner, TypeOwner
<1>5. AtPeace'
  BY <1>1, <1>2, <1>3, <1>4 DEF AtPeace, IOwner, TypeOwner
<1> QED BY <1>5, PeaceIs, PTL

\* The restored store may be used after a synchronization only.
LEMMA RestoreKeeps ==
    ASSUME IOwner, Restore
    PROVE  IOwner'
<1>1. PICK f : f = [backup EXCEPT !.ready = FALSE]
  OBVIOUS
<1>2. backup \in OwnerState /\ Apart(backup) /\ \A o \in LocalOp \ drawn : Blank(backup, o)
  BY DEF Restore, IOwner, TypeOwner, UndrawnUnknown
<1>3. f \in OwnerState /\ f.ops = backup.ops /\ f.pays = backup.pays /\ f.ready = FALSE
  BY <1>1, <1>2 DEF OwnerState
<1>4. /\ file' = f /\ durable' = f /\ lock' = Absent /\ backup' = Absent /\ reported' = {}
      /\ restored'.ops = {o \in LocalOp : f.ops[o] # Absent} /\ restored'.spent = spent
      /\ UNCHANGED <<command, drawn, spent>>
  BY <1>1 DEF Restore, outside
<1>5. Apart(f) /\ \A o \in LocalOp \ drawn : Blank(f, o)
  BY <1>2, <1>3 DEF Apart, Blank
<1>6. Good(file)' /\ Good(durable)'
  BY <1>3, <1>4, <1>5 DEF Good, Apart, SeesSpent, KeepsReported, Usable
<1>7. \A p \in Proc : command'[p].step = "idle" /\ IsTask(command'[p])
  BY <1>4 DEF Restore, IOwner, TypeOwner
<1>8. \A o \in LocalOp \ drawn' :
          /\ Blank(file, o)' /\ Blank(durable, o)' /\ (backup # Absent => Blank(backup, o))'
          /\ <<"signed", o>> \notin reported'
  BY <1>4, <1>5 DEF Blank
<1>9. AtPeace'
  BY <1>3, <1>4, <1>6, <1>7, <1>8 DEF AtPeace, IOwner, TypeOwner
<1> QED BY <1>9, PeaceIs, PTL

\* Nothing but the chain, the files that were exported and the counters changed.
LEMMA OutsideKeeps ==
    ASSUME IOwner, UNCHANGED <<file, durable, lock, backup, command, drawn, reported, restored>>,
           spent \subseteq spent'
    PROVE  IOwner'
<1>1. TypeOwner' /\ (restored.spent \subseteq spent)'
  BY DEF IOwner, TypeOwner
<1>2. Good(file)' /\ Good(durable)' /\ (backup # Absent => Apart(backup))'
  BY DEF IOwner, Good, Apart, SeesSpent, KeepsReported
<1>3. UndrawnUnknown'
  BY DEF IOwner, UndrawnUnknown
<1>4. ASSUME NEW p \in Proc
      PROVE  Founded(p)' /\ Alone(p)'
  <2>1. Founded(p)'
    BY DEF IOwner, Founded, SavedOf, Progress
  <2>2. Alone(p)'
    BY DEF IOwner, Alone
  <2> QED BY <2>1, <2>2
<1> QED BY <1>1, <1>2, <1>3, <1>4 DEF IOwner

-----------------------------------------------------------------------------
(* The invariant, and what follows from it.                                  *)

\* Every step of the owner's commands, and around them, keeps the invariant.
LEMMA OwnerKeeps ==
    ASSUME IOwner, [NextOwner]_varsOwner
    PROVE  IOwner'
<1>1. ASSUME NEW p \in Proc, Work(p) PROVE IOwner'
  BY <1>1, GiveUpKeeps, LookKeeps, ChooseKeeps, ReadRecordKeeps, LoadKeeps, PayStepsKeep DEF Work
<1>2. ASSUME NEW p \in Proc, Update(p) PROVE IOwner'
  BY <1>2, SaveKeyKeeps, SaveSyncKeeps, SaveFixedKeeps, SaveProofKeeps, SaveSignatureKeeps,
     DropKeeps, PaySavesKeep, RemovePayKeeps, SettleKeeps, BackupKeeps DEF Update
<1>3. ASSUME NEW o \in LocalOp, Export(o) \/ Execute(o) PROVE IOwner'
  <2>1. UNCHANGED <<file, durable, lock, backup, command, drawn, reported, restored>>
    BY <1>3 DEF Export, Execute, counted, ghosts
  <2>2. spent \subseteq spent'
    BY <1>3 DEF Export, Execute
  <2> QED BY <2>1, <2>2, OutsideKeeps
<1>4. CASE UNCHANGED varsOwner
  BY <1>4, OutsideKeeps DEF varsOwner, counted, outside, ghosts
<1>5. CASE NextOwner
  BY <1>1, <1>2, <1>3, <1>5, StartKeeps, CrashKeeps, PowerLossKeeps, RemoveLockKeeps, RestoreKeeps
  DEF NextOwner
<1> QED BY <1>4, <1>5

\* The inductive invariant of the owner's store.
THEOREM OwnerInvariant == SpecOwner => []IOwner
BY OwnerStarts, OwnerKeeps, PTL DEF SpecOwner

\* No input is held by two local operations, whatever the processes selected it from.
THEOREM InputsStayApart == SpecOwner => []InputsApart
<1>1. IOwner => InputsApart
  BY DEF IOwner, Good, Apart, InputsApart
<1> QED BY <1>1, OwnerInvariant, PTL

\* What was reported saved is there, after the saves of others, a kill or a loss of power.
THEOREM ReportedStaysKept == SpecOwner => []ReportedIsKept
<1>1. IOwner => ReportedIsKept
  <2> SUFFICES ASSUME IOwner, NEW fact \in reported
               PROVE  \/ fact[1] = "key" /\ file.keys >= fact[2]
                      \/ /\ fact[1] = "authorized" /\ file.ops[fact[2]] # Absent
                         /\ file.ops[fact[2]].phase = "authorized"
                      \/ /\ fact[1] = "signed"
                         /\ file.pays[fact[2]] # Absent => file.pays[fact[2]].signed
    BY DEF ReportedIsKept
  <2>1. KeepsReported(file)
    BY DEF IOwner, Good
  <2>2. \/ \E k \in Nat : fact = <<"key", k>>
        \/ \E o \in LocalOp : fact = <<"authorized", o>> \/ fact = <<"signed", o>>
    BY DEF IOwner, TypeOwner
  <2>3. CASE \E k \in Nat : fact = <<"key", k>>
    BY <2>1, <2>3 DEF KeepsReported
  <2>4. CASE \E o \in LocalOp : fact = <<"authorized", o>>
    BY <2>1, <2>4 DEF KeepsReported, Authorized
  <2>5. CASE \E o \in LocalOp : fact = <<"signed", o>>
    BY <2>1, <2>5 DEF KeepsReported, NotUnsigned
  <2> QED BY <2>2, <2>3, <2>4, <2>5
<1> QED BY <1>1, OwnerInvariant, PTL

\* After a restore no operation is made on an input that was spent before it.
THEOREM RestoredSees == SpecOwner => []RestoredSeesTheChain
<1>1. IOwner => RestoredSeesTheChain
  BY DEF IOwner, Good, SeesSpent, RestoredSeesTheChain
<1> QED BY <1>1, OwnerInvariant, PTL

-----------------------------------------------------------------------------
(* The progress of the Pays.                                                 *)

\* Of an entry that is there before and after a step, nothing is taken back.
Grows(o) ==
    \/ file.pays[o] = Absent \/ file'.pays[o] = Absent
    \/ /\ file.pays[o].draft = "proved" => file'.pays[o].draft = "proved"
       /\ file.pays[o].signed => file'.pays[o].signed
       /\ file.pays[o].attempted => file'.pays[o].attempted

\* A save of what was read of a Pay, if nobody saved another one since.
LEMMA SavePayGrows ==
    ASSUME IOwner, NEW p \in Proc, NEW step \in {"saveDraft", "saveSigned", "saveAttempt"},
           NEW entry, NEW next,
           SavePay(p, step, entry, next),
           command[p].seen.pay \in PayRecord =>
               /\ entry \in PayRecord
               /\ command[p].seen.pay.draft = "proved" => entry.draft = "proved"
               /\ command[p].seen.pay.signed => entry.signed
               /\ command[p].seen.pay.attempted => entry.attempted
    PROVE  \A o \in LocalOp : Grows(o)
<1>1. step \in Saves /\ Saving(p, step)
  BY DEF SavePay, Saves
<1>2. command[p].cmd \in {"prepare", "payAuthorize", "resume"}
  BY <1>1, SavingIs DEF OnPath, StepOf
<1>3. PICK o \in LocalOp : o = command[p].op
  BY <1>1, <1>2, SavingIs DEF Storewide
<1>4. PICK pay \in PayRecord : pay = command[p].seen.pay /\ pay = file.pays[o]
                             /\ command[p].seen.revision = file.revision
  BY <1>1, <1>3, SavingIs DEF SavePay, Current, Equipped, Progress
<1>5. PICK n \in Nat : n = file.revision + 1
  BY DEF IOwner, TypeOwner, OwnerState
<1>6. file' = Revised(file, n, o, entry)
  BY <1>3, <1>4, <1>5 DEF SavePay, Replace, Revised
<1>7. file'.pays[o] = entry /\ \A x \in LocalOp \ {o} : file'.pays[x] = file.pays[x]
  BY <1>4, <1>6, RevisionIs DEF IOwner, TypeOwner
<1>8. Grows(o)
  BY <1>4, <1>7 DEF Grows
<1>9. \A x \in LocalOp \ {o} : Grows(x)
  BY <1>7 DEF Grows
<1> QED BY <1>8, <1>9

\* The record of the stops is a number.
LEMMA CrashesCounted == SpecOwner => [](crashes \in Nat)
<1>1. InitOwner => crashes \in Nat
  BY DEF InitOwner
<1>2. crashes \in Nat /\ [NextOwner]_varsOwner => (crashes \in Nat)'
  <2> SUFFICES ASSUME crashes \in Nat, [NextOwner]_varsOwner
               PROVE  crashes' = crashes \/ crashes' = crashes + 1
    OBVIOUS
  <2>1. ASSUME NEW p \in Proc, Start(p) PROVE crashes' = crashes
    BY <2>1, Zenon DEF Start, Command
  <2>2. ASSUME NEW p \in Proc, Work(p) PROVE crashes' = crashes
    BY <2>2 DEF Work, GiveUp, Look, Choose, ReadRecord, Load, Reload, Reserve, SignPay, Recover,
       NoteAttempt, InspectPay, Ask, RereadProgress, quiet, counted
  <2>3. ASSUME NEW p \in Proc, Update(p) PROVE crashes' = crashes
    BY <2>3 DEF Update, SaveKey, SaveSync, SaveFixed, SaveProof, SaveSignature, Drop, SaveDraft,
       SaveSigned, SaveAttempt, RemovePay, SavePay, Replace, Settle, GiveUpLocked, Backup, counted
  <2>4. ASSUME NEW p \in Proc, Crash(p) PROVE crashes' = crashes + 1
    BY <2>4 DEF Crash
  <2>5. ASSUME NEW o \in LocalOp, Export(o) \/ Execute(o) PROVE crashes' = crashes
    BY <2>5 DEF Export, Execute, counted
  <2>6. ASSUME PowerLoss \/ Restore PROVE crashes' = crashes + 1
    BY <2>6 DEF PowerLoss, Restore
  <2>7. ASSUME RemoveLock \/ UNCHANGED varsOwner PROVE crashes' = crashes
    BY <2>7 DEF RemoveLock, varsOwner, counted
  <2> QED BY <2>1, <2>2, <2>3, <2>4, <2>5, <2>6, <2>7 DEF NextOwner
<1> QED BY <1>1, <1>2, PTL DEF SpecOwner

\* The saves under the lock take nothing of a Pay back.
LEMMA UpdateGrows ==
    ASSUME IOwner, NEW p \in Proc, Update(p)
    PROVE  \A o \in LocalOp : Grows(o)
<1>0. file \in OwnerState
  BY DEF IOwner, TypeOwner
<1>1. CASE file'.pays = file.pays
  BY <1>1 DEF Grows
<1>2. CASE SaveKey(p) \/ SaveSync(p) \/ SaveProof(p) \/ SaveSignature(p) \/ Drop(p)
  <2>1. file'.pays = file.pays
    BY <1>0, <1>2 DEF SaveKey, SaveSync, SaveProof, SaveSignature, Drop, Replace, Synced, OwnerState
  <2> QED BY <1>1, <2>1
<1>3. CASE SaveFixed(p)
  <2>1. "saveFixed" \in Saves /\ Saving(p, "saveFixed")
    BY <1>3 DEF SaveFixed, Saves
  <2>2. PICK o \in LocalOp : o = command[p].op
    BY <2>1, SavingIs DEF OnPath, StepOf, Storewide
  <2>3. file.pays[o] = Absent
    BY <2>1, <2>2, SavingIs DEF IOwner, Alone, Making, OnPath, StepOf, Blank
  <2>4. PICK i \in Coin : i = command[p].seen.input
    BY <1>0, <1>3, <2>1, SavingIs DEF SaveFixed, Creatable, Equipped, OwnerState, Sync
  <2>5. PICK record \in OpRecord : record = [phase |-> "fixed", input |-> i, proof |-> 0]
    BY DEF OpRecord
  <2>6. PICK entry \in PayRecord :
            entry = [draft |-> "fixed", input |-> i, signed |-> FALSE, attempted |-> FALSE]
    BY DEF PayRecord
  <2>7. PICK f : f = [file EXCEPT !.ops[o] = record]
    OBVIOUS
  <2>8. f \in OwnerState /\ f.pays = file.pays /\ f.revision = file.revision
    BY <1>0, <2>7 DEF OwnerState
  <2>9. PICK n \in Nat : n = f.revision + 1
    BY <2>8 DEF OwnerState
  <2>10. CASE file' = f
    BY <1>1, <2>10, <2>8
  <2>11. CASE file' = Revised(f, n, o, entry)
    <3>1. \A x \in LocalOp \ {o} : file'.pays[x] = file.pays[x]
      BY <2>11, <2>8, RevisionIs
    <3> QED BY <2>3, <3>1 DEF Grows
  <2> QED BY <1>3, <2>2, <2>4, <2>5, <2>6, <2>7, <2>9, <2>10, <2>11 DEF SaveFixed, Replace, Revised
<1>4. CASE SaveDraft(p)
  <2>1. PICK next, entry : /\ SavePay(p, "saveDraft", entry, next)
                           /\ entry = [command[p].seen.pay EXCEPT !.draft = "proved"]
    BY <1>4 DEF SaveDraft
  <2>2. \A pay \in PayRecord : LET e == [pay EXCEPT !.draft = "proved"] IN
            e \in PayRecord /\ e.draft = "proved" /\ e.signed = pay.signed
              /\ e.attempted = pay.attempted
    BY DEF PayRecord
  <2> QED BY <2>1, <2>2, SavePayGrows
<1>5. CASE SaveSigned(p)
  <2>1. PICK next, entry : /\ SavePay(p, "saveSigned", entry, next)
                           /\ entry = [command[p].seen.pay EXCEPT !.signed = TRUE]
    BY <1>5 DEF SaveSigned
  <2>2. \A pay \in PayRecord : LET e == [pay EXCEPT !.signed = TRUE] IN
            e \in PayRecord /\ e.draft = pay.draft /\ e.signed /\ e.attempted = pay.attempted
    BY DEF PayRecord
  <2> QED BY <2>1, <2>2, SavePayGrows
<1>6. CASE SaveAttempt(p)
  <2>1. PICK next, entry : /\ SavePay(p, "saveAttempt", entry, next)
                           /\ entry = [command[p].seen.pay EXCEPT !.attempted = TRUE]
    BY <1>6 DEF SaveAttempt
  <2>2. \A pay \in PayRecord : LET e == [pay EXCEPT !.attempted = TRUE] IN
            e \in PayRecord /\ e.draft = pay.draft /\ e.signed = pay.signed /\ e.attempted
    BY DEF PayRecord
  <2> QED BY <2>1, <2>2, SavePayGrows
<1>7. CASE RemovePay(p)
  <2>1. "removePay" \in Saves /\ Saving(p, "removePay")
    BY <1>7 DEF RemovePay, SavePay, Saves
  <2>2. PICK o \in LocalOp : o = command[p].op
    BY <2>1, SavingIs DEF OnPath, StepOf, Storewide
  <2>3. PICK n \in Nat : n = command[p].seen.revision + 1
    BY <2>1, SavingIs DEF Equipped
  <2>4. file' = Revised(file, n, o, Absent)
    BY <1>7, <2>2, <2>3 DEF RemovePay, SavePay, Replace, Revised
  <2>5. file'.pays[o] = Absent /\ \A x \in LocalOp \ {o} : file'.pays[x] = file.pays[x]
    BY <1>0, <2>4, RevisionIs
  <2> QED BY <2>5 DEF Grows
<1>8. CASE Settle(p) \/ GiveUpLocked(p) \/ Backup(p)
  BY <1>1, <1>8 DEF Settle, GiveUpLocked, Backup
<1> QED BY <1>2, <1>3, <1>4, <1>5, <1>6, <1>7, <1>8 DEF Update

\* A later save of another command takes nothing of a Pay back while its entry is there.
THEOREM ProgressGrows == SpecOwner => ProgressOnlyGrows
<1>1. ASSUME IOwner, crashes \in Nat, NextOwner
      PROVE  \A o \in LocalOp : crashes' # crashes \/ Grows(o)
  <2>1. CASE file' = file
    BY <2>1 DEF Grows
  <2>2. ASSUME NEW p \in Proc, Start(p) PROVE file' = file
    BY <2>2, Zenon DEF Start, Command
  <2>3. ASSUME NEW p \in Proc, Work(p) PROVE file' = file
    BY <2>3 DEF Work, GiveUp, Look, Choose, ReadRecord, Load, Reload, Reserve, SignPay, Recover,
       NoteAttempt, InspectPay, Ask, RereadProgress, quiet
  <2>4. ASSUME NEW p \in Proc, Crash(p) PROVE file' = file
    BY <2>4 DEF Crash
  <2>5. ASSUME NEW o \in LocalOp, Export(o) \/ Execute(o) PROVE file' = file
    BY <2>5 DEF Export, Execute
  <2>6. ASSUME PowerLoss \/ Restore PROVE crashes' # crashes
    BY <1>1, <2>6 DEF PowerLoss, Restore
  <2>7. ASSUME RemoveLock PROVE file' = file
    BY <2>7 DEF RemoveLock
  <2> QED BY <1>1, <2>1, <2>2, <2>3, <2>4, <2>5, <2>6, <2>7, UpdateGrows DEF NextOwner
<1>2. IOwner /\ crashes \in Nat /\ [NextOwner]_varsOwner
        => [\A o \in LocalOp :
              \/ file.pays[o] = Absent \/ file'.pays[o] = Absent
              \/ crashes' # crashes
              \/ /\ file.pays[o].draft = "proved" => file'.pays[o].draft = "proved"
                 /\ file.pays[o].signed => file'.pays[o].signed
                 /\ file.pays[o].attempted => file'.pays[o].attempted]_varsOwner
  BY <1>1 DEF Grows
<1> QED BY <1>2, OwnerInvariant, CrashesCounted, PTL DEF SpecOwner, ProgressOnlyGrows

-----------------------------------------------------------------------------
(***************************************************************************)
(* The wallet's history, for any operations, chains and changes of fork.    *)
(* A call reads page by page while the node moves between forks, and looks  *)
(* at its own block before and after.  The invariant says what that makes   *)
(* of the pages in between: a block that was replaced is remembered in      *)
(* dead, so a block that is canonical at the end was so all the while,      *)
(* unless one returned.                                                     *)
(***************************************************************************)

Branch == Seq(Op \cup {Empty})

\* A call is the record of its ten fields.
IsCall(t) ==
    t = [call |-> t.call, pc |-> t.pc, point |-> t.point, from |-> t.from, logs |-> t.logs,
         left |-> t.left, read |-> t.read, got |-> t.got, executed |-> t.executed,
         spent |-> t.spent]

\* The steps of each call; it reads pages of a block that is no longer than the chain.
CallOf(t) ==
    /\ \/ t.call = "none" /\ t.pc = "none"
       \/ t.call = "sync"
          /\ t.pc \in {"before", "pages", "headers", "after", "replay", "coins", "end"}
       \/ t.call = "preflight"
          /\ t.pc \in {"anchor", "executed", "before", "pages", "headers", "after", "inputs", "end"}
    /\ t.call # "none" =>
          /\ t.point \in Branch /\ Len(t.point) >= 1 /\ Len(t.point) <= Len(chain)
          /\ t.from \in Nat \ {0}
    /\ t.pc \in {"headers", "after", "replay", "coins", "inputs", "end"} => t.from > Len(t.point)

\* The pages read so far show every operation of the block's history.
Covered(t) ==
    \A n \in 1..(t.from - 1) :
        n <= Len(t.point) /\ t.point[n] # Empty => At(t.point, n) \in t.logs

\* The block is canonical and nothing was missed, or a block was replaced.
Standing(t) ==
    \/ returned \/ t.point \in dead
    \/ At(chain, Len(t.point)) = t.point /\ Covered(t)

ListedIn(t) == {Last(b) : b \in t.logs}
Found(t) == Made(ListedIn(t)) \ Gone(ListedIn(t))

\* What a synchronization has compared with the state before it ends.
Compared(t) ==
    /\ Found(t) \subseteq Coins(t.point)
    /\ returned \/ Found(t) = Coins(t.point)

\* What a preflight has asked, before it ends.
Asked(t) ==
    /\ t.pc \notin {"anchor", "executed"} => (t.executed <=> Draft \in OpsIn(t.point))
    /\ t.pc = "end" =>
          /\ t.executed \/ Consumes[Draft] \subseteq Made(OpsIn(t.point))
          /\ t.spent <=> Consumes[Draft] \cap Gone(OpsIn(t.point)) # {}

Trusted(t) ==
    /\ IsCall(t) /\ CallOf(t)
    /\ t.call = "sync" => Standing(t)
    /\ t.call = "sync" /\ t.pc = "end" => Compared(t)
    /\ t.call = "preflight" => Asked(t)

IHistory ==
    /\ chain \in Branch /\ Len(chain) >= 1
    /\ Blocks(chain) \cap dead = {}
    /\ Trusted(task)
    /\ SyncTrue /\ PreflightTrue

-----------------------------------------------------------------------------
\* The block at a height of a branch.
LEMMA BlockAt ==
    ASSUME NEW c \in Branch, NEW n \in Nat, n <= Len(c)
    PROVE  /\ At(c, n) \in Branch /\ Len(At(c, n)) = n /\ DOMAIN At(c, n) = 1..n
           /\ \A i \in 1..n : At(c, n)[i] = c[i]
<1>1. \A i \in 1..n : c[i] \in Op \cup {Empty}
  BY ElementOfSeq DEF Branch
<1> QED BY <1>1, SubSeqProperties, LenProperties DEF At, Branch

\* Two branches with the same block at a height have the same ones below it.
LEMMA SameBelow ==
    ASSUME NEW c \in Branch, NEW b \in Branch, Len(b) <= Len(c), At(c, Len(b)) = b,
           NEW n \in Nat, n <= Len(b)
    PROVE  At(c, n) = At(b, n) /\ (n >= 1 => c[n] = b[n])
<1>1. Len(b) \in Nat /\ Len(c) \in Nat
  BY DEF Branch
<1>2. \A i \in 1..Len(b) : c[i] = b[i]
  BY <1>1, BlockAt
<1>3. At(c, n) \in Branch /\ At(b, n) \in Branch /\ Len(At(c, n)) = n /\ Len(At(b, n)) = n
  BY <1>1, BlockAt
<1>4. \A i \in 1..n : At(c, n)[i] = At(b, n)[i]
  BY <1>1, <1>2, BlockAt
<1>5. At(c, n) = At(b, n)
  BY <1>3, <1>4, SeqEqual DEF Branch
<1> QED BY <1>2, <1>5, <1>1

\* A history of the pool is a branch with a first block.
LEMMA HistoriesAre ==
    ASSUME NEW c \in Histories
    PROVE  c \in Branch /\ Len(c) >= 1
<1>1. PICK n \in 1..MaxBlocks : c \in [1..n -> Op \cup {Empty}]
  BY DEF Histories
<1>2. n \in Nat
  BY <1>1, HistoryAssumption
<1> QED BY <1>1, <1>2 DEF Branch

\* The next step of a call changes its step and what is left to read.
LEMMA OntoIs ==
    ASSUME NEW t, IsCall(t), NEW pc, NEW u, u = Onto(t, pc)
    PROVE  /\ IsCall(u) /\ u.pc = pc /\ u.call = t.call /\ u.point = t.point /\ u.from = t.from
           /\ u.logs = t.logs /\ u.executed = t.executed /\ u.spent = t.spent
<1>1. PICK left : u = [t EXCEPT !.pc = pc, !.read = "start", !.left = left]
  BY DEF Onto
<1>2. PICK a, b, c, d, e, f, g, h, i, j :
          t = [call |-> a, pc |-> b, point |-> c, from |-> d, logs |-> e,
               left |-> f, read |-> g, got |-> h, executed |-> i, spent |-> j]
  BY DEF IsCall
<1>3. PICK r : r = [call |-> a, pc |-> b, point |-> c, from |-> d, logs |-> e,
                    left |-> f, read |-> g, got |-> h, executed |-> i, spent |-> j]
  OBVIOUS
<1>4. PICK s : s = [r EXCEPT !.pc = pc]
  OBVIOUS
<1>5. PICK v : v = [s EXCEPT !.read = "start"]
  OBVIOUS
<1>6. PICK w : w = [v EXCEPT !.left = left]
  OBVIOUS
<1>7. u = w
  BY <1>1, <1>2, <1>3, <1>4, <1>5, <1>6
<1>8. s = [call |-> a, pc |-> pc, point |-> c, from |-> d, logs |-> e,
           left |-> f, read |-> g, got |-> h, executed |-> i, spent |-> j]
  BY <1>3, <1>4
<1>9. v = [call |-> a, pc |-> pc, point |-> c, from |-> d, logs |-> e,
           left |-> f, read |-> "start", got |-> h, executed |-> i, spent |-> j]
  BY <1>5, <1>8
<1>10. w = [call |-> a, pc |-> pc, point |-> c, from |-> d, logs |-> e,
            left |-> left, read |-> "start", got |-> h, executed |-> i, spent |-> j]
  BY <1>6, <1>9
<1>11. /\ w.pc = pc /\ w.call = a /\ w.point = c /\ w.from = d /\ w.logs = e
       /\ w.executed = i /\ w.spent = j /\ IsCall(w)
  BY <1>10 DEF IsCall
<1>12. /\ t.call = a /\ t.point = c /\ t.from = d /\ t.logs = e /\ t.executed = i /\ t.spent = j
  BY <1>2
<1> QED BY <1>7, <1>11, <1>12

\* u is the call t but for what it reads next and what it has read of headers.
SameCall(t, u) ==
    /\ IsCall(u) /\ u.pc = t.pc /\ u.call = t.call /\ u.point = t.point /\ u.from = t.from
    /\ u.logs = t.logs /\ u.executed = t.executed /\ u.spent = t.spent

\* What is read next is no part of what the invariant says.
LEMMA ReadIs ==
    ASSUME NEW t, IsCall(t), NEW x, NEW u,
           u = [t EXCEPT !.read = x] \/ u = [t EXCEPT !.got = x] \/ u = [t EXCEPT !.left = x]
    PROVE  SameCall(t, u)
<1>1. PICK a, b, c, d, e, f, g, h, i, j :
          t = [call |-> a, pc |-> b, point |-> c, from |-> d, logs |-> e,
               left |-> f, read |-> g, got |-> h, executed |-> i, spent |-> j]
  BY DEF IsCall
<1>2. PICK f1, g1, h1 :
          u = [call |-> a, pc |-> b, point |-> c, from |-> d, logs |-> e,
               left |-> f1, read |-> g1, got |-> h1, executed |-> i, spent |-> j]
  <2>1. CASE u = [t EXCEPT !.read = x]
    <3>1. u = [call |-> a, pc |-> b, point |-> c, from |-> d, logs |-> e,
               left |-> f, read |-> x, got |-> h, executed |-> i, spent |-> j]
      BY <1>1, <2>1
    <3> QED BY <3>1
  <2>2. CASE u = [t EXCEPT !.got = x]
    <3>1. u = [call |-> a, pc |-> b, point |-> c, from |-> d, logs |-> e,
               left |-> f, read |-> g, got |-> x, executed |-> i, spent |-> j]
      BY <1>1, <2>2
    <3> QED BY <3>1
  <2>3. CASE u = [t EXCEPT !.left = x]
    <3>1. u = [call |-> a, pc |-> b, point |-> c, from |-> d, logs |-> e,
               left |-> x, read |-> g, got |-> h, executed |-> i, spent |-> j]
      BY <1>1, <2>3
    <3> QED BY <3>1
  <2> QED BY <2>1, <2>2, <2>3
<1>3. /\ t.call = a /\ t.pc = b /\ t.point = c /\ t.from = d /\ t.logs = e /\ t.executed = i
      /\ t.spent = j
  BY <1>1
<1>4. /\ u.call = a /\ u.pc = b /\ u.point = c /\ u.from = d /\ u.logs = e /\ u.executed = i
      /\ u.spent = j /\ IsCall(u)
  BY <1>2 DEF IsCall
<1> QED BY <1>3, <1>4 DEF SameCall

\* An answer that is noted, before the call goes on.
LEMMA NoteIs ==
    ASSUME NEW t, IsCall(t), NEW x \in BOOLEAN, NEW u,
           u = [t EXCEPT !.executed = x] \/ u = [t EXCEPT !.spent = x]
    PROVE  /\ IsCall(u) /\ u.pc = t.pc /\ u.call = t.call /\ u.point = t.point
           /\ u.from = t.from /\ u.logs = t.logs
           /\ u = [t EXCEPT !.executed = x] => u.executed = x
           /\ u = [t EXCEPT !.spent = x] => u.spent = x /\ u.executed = t.executed
<1>1. PICK a, b, c, d, e, f, g, h, i, j :
          t = [call |-> a, pc |-> b, point |-> c, from |-> d, logs |-> e,
               left |-> f, read |-> g, got |-> h, executed |-> i, spent |-> j]
  BY DEF IsCall
<1>2. /\ t.call = a /\ t.pc = b /\ t.point = c /\ t.from = d /\ t.logs = e /\ t.executed = i
  BY <1>1
<1>3. CASE u = [t EXCEPT !.executed = x]
  <2>1. u = [call |-> a, pc |-> b, point |-> c, from |-> d, logs |-> e,
             left |-> f, read |-> g, got |-> h, executed |-> x, spent |-> j]
    BY <1>1, <1>3
  <2>2. /\ u.call = a /\ u.pc = b /\ u.point = c /\ u.from = d /\ u.logs = e /\ u.executed = x
        /\ u.spent = j /\ IsCall(u)
    BY <2>1 DEF IsCall
  <2>3. u = [t EXCEPT !.spent = x] => u.spent = x /\ u.executed = i
    <3>1. [t EXCEPT !.spent = x]
            = [call |-> a, pc |-> b, point |-> c, from |-> d, logs |-> e,
               left |-> f, read |-> g, got |-> h, executed |-> i, spent |-> x]
      BY <1>1
    <3> QED BY <3>1
  <2> QED BY <1>2, <2>2, <2>3
<1>4. CASE u = [t EXCEPT !.spent = x]
  <2>1. u = [call |-> a, pc |-> b, point |-> c, from |-> d, logs |-> e,
             left |-> f, read |-> g, got |-> h, executed |-> i, spent |-> x]
    BY <1>1, <1>4
  <2>2. /\ u.call = a /\ u.pc = b /\ u.point = c /\ u.from = d /\ u.logs = e /\ u.executed = i
        /\ u.spent = x /\ IsCall(u)
    BY <2>1 DEF IsCall
  <2>3. u = [t EXCEPT !.executed = x] => u.executed = x
    <3>1. [t EXCEPT !.executed = x]
            = [call |-> a, pc |-> b, point |-> c, from |-> d, logs |-> e,
               left |-> f, read |-> g, got |-> h, executed |-> x, spent |-> j]
      BY <1>1
    <3> QED BY <3>1
  <2> QED BY <1>2, <2>2, <2>3
<1> QED BY <1>3, <1>4

\* A page adds its logs.
Paged(t, from, logs) == [t EXCEPT !.from = from, !.logs = logs]

LEMMA PageIs ==
    ASSUME NEW t, IsCall(t), NEW from, NEW logs, NEW u, u = Paged(t, from, logs)
    PROVE  /\ IsCall(u) /\ u.pc = t.pc /\ u.call = t.call /\ u.point = t.point
           /\ u.from = from /\ u.logs = logs /\ u.executed = t.executed /\ u.spent = t.spent
<1>1. PICK a, b, c, d, e, f, g, h, i, j :
          t = [call |-> a, pc |-> b, point |-> c, from |-> d, logs |-> e,
               left |-> f, read |-> g, got |-> h, executed |-> i, spent |-> j]
  BY DEF IsCall
<1>2. PICK r : r = [call |-> a, pc |-> b, point |-> c, from |-> d, logs |-> e,
                    left |-> f, read |-> g, got |-> h, executed |-> i, spent |-> j]
  OBVIOUS
<1>3. PICK v : v = [r EXCEPT !.from = from]
  OBVIOUS
<1>4. PICK w : w = [v EXCEPT !.logs = logs]
  OBVIOUS
<1>5. u = w
  BY <1>1, <1>2, <1>3, <1>4 DEF Paged
<1>6. v = [call |-> a, pc |-> b, point |-> c, from |-> from, logs |-> e,
           left |-> f, read |-> g, got |-> h, executed |-> i, spent |-> j]
  BY <1>2, <1>3
<1>7. w = [call |-> a, pc |-> b, point |-> c, from |-> from, logs |-> logs,
           left |-> f, read |-> g, got |-> h, executed |-> i, spent |-> j]
  BY <1>4, <1>6
<1>8. /\ w.call = a /\ w.pc = b /\ w.point = c /\ w.from = from /\ w.logs = logs
      /\ w.executed = i /\ w.spent = j /\ IsCall(w)
  BY <1>7 DEF IsCall
<1>9. t.call = a /\ t.pc = b /\ t.point = c /\ t.executed = i /\ t.spent = j
  BY <1>1
<1> QED BY <1>5, <1>8, <1>9

\* A call starts at a checkpoint.
Called(call, point) == [NoTask EXCEPT !.call = call, !.point = point]

LEMMA CallIs ==
    ASSUME NEW call, NEW point, NEW t, t = Called(call, point)
    PROVE  IsCall(t) /\ t.call = call /\ t.point = point /\ t.from = 1 /\ t.logs = {}
<1>1. PICK v : v = [NoTask EXCEPT !.call = call]
  OBVIOUS
<1>2. PICK w : w = [v EXCEPT !.point = point]
  OBVIOUS
<1>3. t = w
  BY <1>1, <1>2 DEF Called
<1>4. v = [call |-> call, pc |-> "none", point |-> <<>>, from |-> 1, logs |-> {}, left |-> <<>>,
           read |-> "start", got |-> <<>>, executed |-> FALSE, spent |-> FALSE]
  BY <1>1 DEF NoTask
<1>5. w = [call |-> call, pc |-> "none", point |-> point, from |-> 1, logs |-> {}, left |-> <<>>,
           read |-> "start", got |-> <<>>, executed |-> FALSE, spent |-> FALSE]
  BY <1>2, <1>4
<1>6. IsCall(w) /\ w.call = call /\ w.point = point /\ w.from = 1 /\ w.logs = {}
  BY <1>5 DEF IsCall
<1> QED BY <1>3, <1>6

\* No call is in progress.
LEMMA NoTaskIs == IsCall(NoTask) /\ NoTask.call = "none" /\ NoTask.pc = "none"
BY DEF NoTask, IsCall

-----------------------------------------------------------------------------
(* The steps of the calls.                                                   *)

\* A step of the wallet leaves the chain alone; its result stays or is a new one.
LEMMA CallKeeps ==
    ASSUME IHistory, UNCHANGED <<chain, dead, returned>>, NEW u, task' = u, Trusted(u),
           SyncTrue', PreflightTrue'
    PROVE  IHistory'
<1>1. Trusted(task)'
  BY DEF Trusted, CallOf, Standing, Compared
<1> QED BY <1>1 DEF IHistory

\* A step that is not the end of a call has no result.
LEMMA GoesOn ==
    ASSUME IHistory, UNCHANGED <<chain, dead, returned, forks, synced, prepared>>,
           NEW u, task' = u, Trusted(u)
    PROVE  IHistory'
<1>1. SyncTrue' /\ PreflightTrue'
  BY DEF IHistory, SyncTrue, PreflightTrue
<1> QED BY <1>1, CallKeeps

\* A header is read, between the reads of the call's own block.
LEMMA HeadersKeep ==
    ASSUME IHistory, HeaderStart \/ HeaderRead \/ HeaderEnd
    PROVE  IHistory'
<1>1. IsCall(task) /\ UNCHANGED <<chain, dead, returned, forks, synced, prepared>>
  BY DEF IHistory, Trusted, HeaderStart, HeaderRead, HeaderEnd
<1>2. PICK u : u = task'
  OBVIOUS
<1>3. SameCall(task, u)
  <2>1. CASE u = [task EXCEPT !.read = "end", !.got = task.point]
    <3>1. PICK v : v = [task EXCEPT !.read = "end"]
      OBVIOUS
    <3>2. PICK w : w = [v EXCEPT !.got = task.point]
      OBVIOUS
    <3>3. u = w
      BY <2>1, <3>1, <3>2
    <3>4. SameCall(task, v)
      BY <1>1, <3>1, ReadIs
    <3>5. SameCall(v, w)
      BY <3>2, <3>4, ReadIs DEF SameCall
    <3> QED BY <3>3, <3>4, <3>5 DEF SameCall
  <2>2. CASE u = [task EXCEPT !.read = "header"]
    BY <1>1, <2>2, ReadIs
  <2>3. CASE HeaderRead
    <3>1. PICK v : v = [task EXCEPT !.read = "end"]
      OBVIOUS
    <3>2. PICK w : w = [v EXCEPT !.got = At(chain, Head(task.left))]
      OBVIOUS
    <3>3. u = w
      BY <1>2, <2>3, <3>1, <3>2 DEF HeaderRead
    <3>4. SameCall(task, v)
      BY <1>1, <3>1, ReadIs
    <3>5. SameCall(v, w)
      BY <3>2, <3>4, ReadIs DEF SameCall
    <3> QED BY <3>3, <3>4, <3>5 DEF SameCall
  <2>4. CASE HeaderEnd
    <3>1. PICK v : v = [task EXCEPT !.read = "start"]
      OBVIOUS
    <3>2. PICK w : w = [v EXCEPT !.left = Tail(task.left)]
      OBVIOUS
    <3>3. PICK x : x = [w EXCEPT !.got = <<>>]
      OBVIOUS
    <3>4. u = x
      BY <1>2, <2>4, <3>1, <3>2, <3>3 DEF HeaderEnd
    <3>5. SameCall(task, v)
      BY <1>1, <3>1, ReadIs
    <3>6. IsCall(v)
      BY <3>5 DEF SameCall
    <3>7. SameCall(v, w)
      BY <3>2, <3>6, ReadIs
    <3>8. IsCall(w)
      BY <3>7 DEF SameCall
    <3>9. SameCall(w, x)
      BY <3>3, <3>8, ReadIs
    <3> QED BY <3>4, <3>5, <3>7, <3>9 DEF SameCall
  <2> QED BY <1>2, <2>1, <2>2, <2>3, <2>4 DEF HeaderStart
<1>4. Trusted(u)
  BY <1>3 DEF SameCall, IHistory, Trusted, CallOf, Standing, Covered, Compared, Found, ListedIn, Asked
<1> QED BY <1>1, <1>2, <1>4, GoesOn

\* The checks of a step are done.
LEMMA ChecksKeep ==
    ASSUME IHistory, ChecksDone \/ PagesDone
    PROVE  IHistory'
<1>1. IsCall(task) /\ UNCHANGED <<chain, dead, returned, forks, synced, prepared>>
  BY DEF IHistory, Trusted, ChecksDone, PagesDone
<1>2. PICK pc : /\ task' = Onto(task, pc)
                /\ \/ task.pc = "anchor" /\ pc = "executed"
                   \/ task.pc = "before" /\ pc = "pages"
                   \/ task.pc = "pages" /\ pc = "headers" /\ task.from > Len(task.point)
                   \/ task.pc = "headers" /\ pc = "after"
                   \/ task.pc = "after" /\ task.call = "sync" /\ pc = "replay"
                   \/ task.pc = "after" /\ task.call # "sync" /\ pc = "inputs"
                   \/ task.pc = "replay" /\ pc = "coins"
  BY DEF ChecksDone, PagesDone, Following
<1>3. PICK u : u = Onto(task, pc)
  OBVIOUS
<1>4. /\ IsCall(u) /\ u.pc = pc /\ u.call = task.call /\ u.point = task.point
      /\ u.from = task.from /\ u.logs = task.logs /\ u.executed = task.executed
  BY <1>1, <1>3, OntoIs
<1>5. CallOf(u)
  BY <1>2, <1>4 DEF IHistory, Trusted, CallOf
<1>6. u.call = "sync" => Standing(u)
  BY <1>4 DEF IHistory, Trusted, Standing, Covered
<1>7. u.pc # "end" /\ (u.call = "preflight" => Asked(u))
  BY <1>2, <1>4 DEF IHistory, Trusted, Asked
<1>8. Trusted(u)
  BY <1>4, <1>5, <1>6, <1>7 DEF Trusted
<1> QED BY <1>1, <1>2, <1>3, <1>8, GoesOn

\* A page is read: of the call's block, or of another fork.
LEMMA PageKeeps ==
    ASSUME IHistory, ReadPage
    PROVE  IHistory'
<1>1. IsCall(task) /\ CallOf(task) /\ UNCHANGED <<chain, dead, returned, forks, synced, prepared>>
  BY DEF IHistory, Trusted, ReadPage
<1>2. task.pc = "pages" /\ task.call # "none" /\ task.from \in Nat \ {0} /\ task.point \in Branch
        /\ Len(task.point) \in Nat /\ Len(task.point) <= Len(chain) /\ chain \in Branch
  BY <1>1 DEF ReadPage, CallOf, IHistory, Branch
<1>3. PICK to \in task.from..Len(task.point) :
          task' = [task EXCEPT !.from = to + 1,
                     !.logs = @ \cup {At(chain, n) : n \in {k \in task.from..to : chain[k] # Empty}}]
  BY DEF ReadPage
<1>4. PICK logs : logs = task.logs \cup
                           {At(chain, n) : n \in {k \in task.from..to : chain[k] # Empty}}
  OBVIOUS
<1>5. PICK u : u = Paged(task, to + 1, logs)
  OBVIOUS
<1>6. /\ IsCall(u) /\ u.pc = "pages" /\ u.call = task.call /\ u.point = task.point
      /\ u.from = to + 1 /\ u.logs = logs /\ u.executed = task.executed
  BY <1>1, <1>2, <1>5, PageIs
<1>11. task' = u
  BY <1>3, <1>4, <1>5 DEF Paged
<1>7. CallOf(u)
  BY <1>1, <1>2, <1>6 DEF CallOf
<1>8. u.call = "sync" => Standing(u)
  <2> SUFFICES ASSUME u.call = "sync", ~returned, task.point \notin dead PROVE Standing(u)
    BY <1>6 DEF Standing
  <2>1. At(chain, Len(task.point)) = task.point /\ Covered(task)
    BY <1>6 DEF IHistory, Trusted, Standing
  <2>2. ASSUME NEW n \in 1..to, task.point[n] # Empty
        PROVE  At(task.point, n) \in logs
    <3>1. n \in Nat /\ n >= 1 /\ n <= Len(task.point)
      BY <1>2
    <3>2. At(chain, n) = At(task.point, n) /\ chain[n] = task.point[n]
      BY <1>2, <2>1, <3>1, SameBelow
    <3>3. CASE n < task.from
      <4>1. n \in 1..(task.from - 1)
        BY <1>2, <3>1, <3>3
      <4> QED BY <1>4, <2>1, <2>2, <3>1, <4>1 DEF Covered
    <3>4. CASE ~(n < task.from)
      <4>1. n \in task.from..to
        BY <1>2, <3>1, <3>4
      <4> QED BY <1>4, <2>2, <3>2, <4>1
    <3> QED BY <3>3, <3>4
  <2>3. Covered(u)
    <3>1. (to + 1) - 1 = to
      BY <1>2
    <3> QED BY <1>6, <2>2, <3>1 DEF Covered
  <2> QED BY <1>6, <2>1, <2>3 DEF Standing
<1>9. u.call = "preflight" => Asked(u)
  BY <1>2, <1>6 DEF IHistory, Trusted, Asked
<1>10. Trusted(u)
  BY <1>6, <1>7, <1>8, <1>9 DEF Trusted
<1> QED BY <1>1, <1>10, <1>11, GoesOn

-----------------------------------------------------------------------------
(* synchronize: what the replay compares.                                    *)

\* What is listed and checked with the state is in the state's coins.
LEMMA ListingFits ==
    ASSUME Listed \subseteq OpsIn(task.point), CoinsAgree(OpsIn(task.point))
    PROVE  Found(task) \subseteq Coins(task.point)
<1> DEFINE state == OpsIn(task.point)
<1> SUFFICES ASSUME NEW u \in Made(Listed), u \notin Gone(Listed) PROVE u \in Coins(task.point)
  BY DEF Found, ListedIn, Listed
<1>1. u \in Made(state)
  BY DEF CoinsAgree
<1>2. u \notin Gone(state)
  <2> SUFFICES ASSUME u \in Gone(state) PROVE FALSE
    OBVIOUS
  <2>1. PICK o \in state : u \in Consumes[o]
    BY DEF Gone
  <2>2. {p \in Listed : u \in Consumes[p]} = {p \in state : u \in Consumes[p]}
    BY DEF CoinsAgree
  <2>3. o \in Listed
    BY <2>1, <2>2
  <2> QED BY <2>1, <2>3 DEF Gone
<1> QED BY <1>1, <1>2 DEF Coins

\* A canonical block's history is listed in full, unless a block returned.
LEMMA ListingWhole ==
    ASSUME IHistory, task.call = "sync", task.from > Len(task.point), PointCanonical, ~returned
    PROVE  OpsIn(task.point) \subseteq Listed
<1>1. /\ task.point \in Branch /\ Len(task.point) >= 1 /\ Len(task.point) <= Len(chain)
      /\ task.from \in Nat \ {0} /\ chain \in Branch /\ Standing(task)
      /\ Len(task.point) \in Nat
  BY DEF IHistory, Trusted, CallOf, Branch
<1>2. task.point \notin dead
  <2>1. Len(task.point) \in DOMAIN chain
    BY <1>1 DEF Branch
  <2>2. task.point \in Blocks(chain)
    BY <2>1 DEF PointCanonical, Blocks, At
  <2> QED BY <2>2 DEF IHistory
<1>3. Covered(task)
  BY <1>1, <1>2 DEF Standing
<1> SUFFICES ASSUME NEW n \in DOMAIN task.point, task.point[n] # Empty
             PROVE  task.point[n] \in Listed
  BY DEF OpsIn
<1>4. n \in Nat /\ n >= 1 /\ n <= Len(task.point) /\ n \in 1..(task.from - 1)
  BY <1>1 DEF Branch
<1>5. At(task.point, n) \in task.logs
  BY <1>3, <1>4 DEF Covered
<1>6. Last(At(task.point, n)) = task.point[n]
  BY <1>1, <1>4, BlockAt DEF Last
<1> QED BY <1>5, <1>6 DEF Listed

\* The log is replayed and compared with the state.
LEMMA ReplayKeeps ==
    ASSUME IHistory, ReplayLogs
    PROVE  IHistory'
<1>1. /\ IsCall(task) /\ CallOf(task) /\ Standing(task)
      /\ UNCHANGED <<chain, dead, returned, forks, synced, prepared>>
  BY DEF IHistory, Trusted, ReplayLogs
<1>2. PICK u : u = Onto(task, "end")
  OBVIOUS
<1>3. /\ IsCall(u) /\ u.pc = "end" /\ u.call = "sync" /\ u.point = task.point
      /\ u.from = task.from /\ u.logs = task.logs
  BY <1>1, <1>2, OntoIs DEF ReplayLogs
<1>4. CallOf(u)
  BY <1>1, <1>3 DEF CallOf, ReplayLogs
<1>5. Standing(u)
  BY <1>1, <1>3 DEF Standing, Covered
<1>6. task.from > Len(task.point)
  BY <1>1 DEF CallOf, ReplayLogs
<1>7. Compared(task)
  <2>1. Listed \subseteq OpsIn(task.point) /\ CoinsAgree(OpsIn(task.point))
    BY DEF ReplayLogs, PinnedState
  <2>2. Found(task) \subseteq Coins(task.point)
    BY <2>1, ListingFits
  <2>3. ASSUME ~returned PROVE Found(task) = Coins(task.point)
    <3>1. Listed = OpsIn(task.point)
      BY <1>6, <2>1, <2>3, ListingWhole DEF ReplayLogs
    <3> QED BY <3>1 DEF Found, ListedIn, Listed, Coins
  <2> QED BY <2>2, <2>3 DEF Compared
<1>8. Compared(u)
  BY <1>3, <1>7 DEF Compared, Found, ListedIn
<1>9. Trusted(u)
  BY <1>3, <1>4, <1>5, <1>8 DEF Trusted
<1> QED BY <1>1, <1>2, <1>9, GoesOn DEF ReplayLogs

\* A call that is over leaves nothing to keep.
LEMMA NoTaskTrusted == Trusted(NoTask)
BY NoTaskIs DEF Trusted, CallOf

\* A synchronization is complete: its result is what was compared.
LEMMA SyncDoneKeeps ==
    ASSUME IHistory, SyncDone
    PROVE  IHistory'
<1>1. Compared(task) /\ UNCHANGED <<chain, dead, returned, prepared>>
  BY DEF IHistory, Trusted, SyncDone
<1>2. PICK s : s = [status |-> "complete", point |-> task.point,
                    available |-> Made(Listed) \ Gone(Listed)]
  OBVIOUS
<1>3. synced' = s /\ task' = NoTask
  BY <1>2 DEF SyncDone
<1>4. s.point = task.point /\ s.available = Found(task)
  BY <1>2 DEF Found, ListedIn, Listed
<1>5. SyncTrue'
  BY <1>1, <1>3, <1>4 DEF SyncTrue, Compared
<1>6. PreflightTrue'
  BY <1>1 DEF IHistory, PreflightTrue
<1> QED BY <1>1, <1>3, <1>5, <1>6, NoTaskTrusted, CallKeeps

\* A call that fails has no verdict.
LEMMA FailKeeps ==
    ASSUME IHistory, Fail
    PROVE  IHistory'
<1>1. PICK r : r = [NoResult EXCEPT !.status = "unconfirmed"]
  OBVIOUS
<1>2. r.status = "unconfirmed"
  BY <1>1 DEF NoResult
<1>3. SyncTrue'
  BY <1>1, <1>2 DEF Fail, IHistory, SyncTrue
<1>4. PreflightTrue'
  BY <1>1, <1>2 DEF Fail, IHistory, PreflightTrue
<1> QED BY <1>3, <1>4, NoTaskTrusted, CallKeeps DEF Fail

\* A call starts.
LEMMA CallStartKeeps ==
    ASSUME IHistory, StartSync \/ StartPreflight
    PROVE  IHistory'
<1>1. chain \in Branch /\ Len(chain) >= 1 /\ Len(chain) \in Nat
  BY DEF IHistory, Branch
<1>2. UNCHANGED <<chain, dead, returned, forks, synced, prepared>>
  BY DEF StartSync, StartPreflight
<1>3. CASE StartSync
  <2>1. PICK n \in DOMAIN chain :
            task' = Onto([NoTask EXCEPT !.call = "sync", !.point = At(chain, n)], "before")
    BY <1>3 DEF StartSync
  <2>2. n \in Nat /\ n >= 1 /\ n <= Len(chain)
    BY <1>1, <2>1 DEF Branch
  <2>3. PICK p : p = At(chain, n)
    OBVIOUS
  <2>4. p \in Branch /\ Len(p) = n /\ At(chain, Len(p)) = p
    BY <1>1, <2>2, <2>3, BlockAt
  <2>5. PICK t : t = Called("sync", p)
    OBVIOUS
  <2>6. IsCall(t) /\ t.call = "sync" /\ t.point = p /\ t.from = 1 /\ t.logs = {}
    BY <2>5, CallIs
  <2>7. PICK u : u = Onto(t, "before")
    OBVIOUS
  <2>8. /\ IsCall(u) /\ u.pc = "before" /\ u.call = "sync" /\ u.point = p /\ u.from = 1
        /\ u.logs = {}
    BY <2>6, <2>7, OntoIs
  <2>9. Covered(u)
    BY <2>8 DEF Covered
  <2>10. Trusted(u)
    BY <2>2, <2>4, <2>8, <2>9 DEF Trusted, CallOf, Standing
  <2>11. task' = u
    BY <2>1, <2>3, <2>5, <2>7 DEF Called
  <2> QED BY <1>2, <2>10, <2>11, GoesOn
<1>4. CASE StartPreflight
  <2>1. PICK t : t = Called("preflight", chain)
    OBVIOUS
  <2>2. IsCall(t) /\ t.call = "preflight" /\ t.point = chain /\ t.from = 1
    BY <2>1, CallIs
  <2>3. PICK u : u = Onto(t, "anchor")
    OBVIOUS
  <2>4. IsCall(u) /\ u.pc = "anchor" /\ u.call = "preflight" /\ u.point = chain /\ u.from = 1
    BY <2>2, <2>3, OntoIs
  <2>5. Trusted(u)
    BY <1>1, <2>4 DEF Trusted, CallOf, Asked
  <2>6. task' = u
    BY <1>4, <2>1, <2>3 DEF StartPreflight, Called
  <2> QED BY <1>2, <2>5, <2>6, GoesOn
<1> QED BY <1>3, <1>4

-----------------------------------------------------------------------------
(* preflight: what it asks of one block.                                     *)

\* Whether the operation was executed at the latest header.
LEMMA AskKeeps ==
    ASSUME IHistory, AskExecuted
    PROVE  IHistory'
<1>1. /\ IsCall(task) /\ CallOf(task) /\ task.call = "preflight" /\ task.pc = "executed"
      /\ UNCHANGED <<chain, dead, returned, forks, synced, prepared>>
  BY DEF IHistory, Trusted, CallOf, AskExecuted
<1>2. PICK x \in BOOLEAN : x = (Draft \in OpsIn(task.point))
  <2>1. (Draft \in OpsIn(task.point)) \in BOOLEAN
    OBVIOUS
  <2> QED BY <2>1, Zenon
<1>3. PICK t : t = [task EXCEPT !.executed = x]
  OBVIOUS
<1>4. /\ IsCall(t) /\ t.call = "preflight" /\ t.point = task.point /\ t.from = task.from
      /\ t.executed = x
  BY <1>1, <1>3, NoteIs
<1>5. PICK u : u = Onto(t, "before")
  OBVIOUS
<1>6. /\ IsCall(u) /\ u.pc = "before" /\ u.call = "preflight" /\ u.point = task.point
      /\ u.from = task.from /\ u.executed = x
  BY <1>4, <1>5, OntoIs
<1>7. CallOf(u) /\ Asked(u)
  BY <1>1, <1>2, <1>6 DEF CallOf, Asked
<1>8. task' = u
  BY <1>2, <1>3, <1>5 DEF AskExecuted, PinnedState
<1>9. Trusted(u)
  BY <1>6, <1>7 DEF Trusted
<1> QED BY <1>1, <1>8, <1>9, GoesOn

\* The inputs are asked for at the same block.
LEMMA VerdictKeeps ==
    ASSUME IHistory, Verdict
    PROVE  IHistory'
<1>1. /\ IsCall(task) /\ CallOf(task) /\ task.call = "preflight" /\ task.pc = "inputs"
      /\ UNCHANGED <<chain, dead, returned, forks, synced, prepared>>
  BY DEF IHistory, Trusted, CallOf, Verdict
<1>2. PICK x \in BOOLEAN : x = (Consumes[Draft] \cap Gone(OpsIn(task.point)) # {})
  OBVIOUS
<1>3. PICK t : t = [task EXCEPT !.spent = x]
  OBVIOUS
<1>4. /\ IsCall(t) /\ t.call = "preflight" /\ t.point = task.point /\ t.from = task.from
      /\ t.executed = task.executed /\ t.spent = x
  BY <1>1, <1>3, NoteIs
<1>5. PICK u : u = Onto(t, "end")
  OBVIOUS
<1>6. /\ IsCall(u) /\ u.pc = "end" /\ u.call = "preflight" /\ u.point = task.point
      /\ u.from = task.from /\ u.executed = task.executed /\ u.spent = x
  BY <1>4, <1>5, OntoIs
<1>7. task.executed <=> Draft \in OpsIn(task.point)
  BY <1>1 DEF IHistory, Trusted, Asked
<1>8. task.executed \/ Consumes[Draft] \subseteq Made(OpsIn(task.point))
  BY DEF Verdict, PinnedState
<1>9. CallOf(u) /\ Asked(u)
  BY <1>1, <1>2, <1>6, <1>7, <1>8 DEF CallOf, Asked
<1>10. task' = u
  BY <1>2, <1>3, <1>5 DEF Verdict, PinnedState
<1>11. Trusted(u)
  BY <1>6, <1>9 DEF Trusted
<1> QED BY <1>1, <1>10, <1>11, GoesOn

\* A verdict is written as asked.
Verdicted(point, status) == [NoResult EXCEPT !.point = point, !.status = status]

LEMMA VerdictIs ==
    ASSUME NEW point, NEW status, NEW r, r = Verdicted(point, status)
    PROVE  r.point = point /\ r.status = status
<1>1. PICK v : v = [NoResult EXCEPT !.point = point]
  OBVIOUS
<1>2. PICK w : w = [v EXCEPT !.status = status]
  OBVIOUS
<1>3. r = w
  BY <1>1, <1>2 DEF Verdicted
<1>4. v = [status |-> "none", point |-> point, available |-> {}]
  BY <1>1 DEF NoResult
<1>5. w = [status |-> status, point |-> point, available |-> {}]
  BY <1>2, <1>4
<1> QED BY <1>3, <1>5

\* The preflight ends with its verdict.
LEMMA PreflightDoneKeeps ==
    ASSUME IHistory, PreflightDone
    PROVE  IHistory'
<1> DEFINE state == OpsIn(task.point)
           verdict == IF task.executed THEN "executed"
                      ELSE IF task.spent THEN "conflict" ELSE "ready"
<1>1. /\ task.executed <=> Draft \in state
      /\ task.executed \/ Consumes[Draft] \subseteq Made(state)
      /\ task.spent <=> Consumes[Draft] \cap Gone(state) # {}
      /\ UNCHANGED <<chain, dead, returned, forks, synced>>
  BY DEF IHistory, Trusted, Asked, PreflightDone
<1>2. PICK status : status = IF verdict = "ready" /\ ~(Consumes[Draft] \subseteq synced.available)
                             THEN "unconfirmed" ELSE verdict
  OBVIOUS
<1>3. PICK r : r = Verdicted(task.point, status)
  OBVIOUS
<1>4. r.point = task.point /\ r.status = status
  BY <1>3, VerdictIs
<1>5. prepared' = r /\ task' = NoTask
  BY <1>2, <1>3 DEF PreflightDone, Verdicted
<1>6. PreflightTrue'
  <2>1. CASE task.executed
    <3>1. status = "executed" /\ Draft \in state
      BY <1>1, <1>2, <2>1
    <3> QED BY <1>4, <1>5, <3>1 DEF PreflightTrue
  <2>2. CASE ~task.executed /\ task.spent
    <3>1. status = "conflict" /\ Draft \notin state /\ Consumes[Draft] \cap Gone(state) # {}
      BY <1>1, <1>2, <2>2
    <3> QED BY <1>4, <1>5, <3>1 DEF PreflightTrue
  <2>3. CASE ~task.executed /\ ~task.spent
    <3>1. /\ status \in {"ready", "unconfirmed"} /\ Draft \notin state
          /\ Consumes[Draft] \subseteq Made(state) \ Gone(state)
      BY <1>1, <1>2, <2>3
    <3> QED BY <1>4, <1>5, <3>1 DEF PreflightTrue
  <2> QED BY <2>1, <2>2, <2>3
<1>7. SyncTrue'
  BY <1>1 DEF IHistory, SyncTrue
<1> QED BY <1>1, <1>5, <1>6, <1>7, NoTaskTrusted, CallKeeps

-----------------------------------------------------------------------------
(* The chain's own steps.                                                    *)

\* A branch is a block of itself, and its blocks are named by their heights.
LEMMA BlocksAre ==
    ASSUME NEW c \in Branch, NEW b
    PROVE  /\ b \in Blocks(c) <=> \E n \in 1..Len(c) : b = At(c, n)
           /\ b \in Branch /\ b \in Blocks(c) => Len(b) >= 1 /\ Len(b) <= Len(c) /\ At(c, Len(b)) = b
<1>1. DOMAIN c = 1..Len(c) /\ Len(c) \in Nat
  BY DEF Branch
<1>2. b \in Blocks(c) <=> \E n \in 1..Len(c) : b = At(c, n)
  BY <1>1 DEF Blocks, At
<1>3. ASSUME b \in Blocks(c) PROVE Len(b) >= 1 /\ Len(b) <= Len(c) /\ At(c, Len(b)) = b
  <2>1. PICK n \in 1..Len(c) : b = At(c, n)
    BY <1>2, <1>3
  <2>2. Len(b) = n
    BY <1>1, <2>1, BlockAt
  <2> QED BY <1>1, <2>1, <2>2
<1> QED BY <1>2, <1>3

\* What a call may rely on when the node's chain changes: blocks of the chain
\* are not lost unseen.
LEMMA ChainKeeps ==
    ASSUME IHistory, UNCHANGED <<task, synced, prepared>>,
           chain' \in Branch, Len(chain') >= Len(chain), returned => returned',
           (Blocks(chain) \cap dead = {}) => (Blocks(chain') \cap dead' = {}),
           \A b \in Blocks(chain) : returned' \/ b \in dead' \/ b \in Blocks(chain'),
           \A b \in dead : returned' \/ b \in dead'
    PROVE  IHistory'
<1>1. chain \in Branch /\ Len(chain) >= 1 /\ Len(chain) \in Nat /\ Len(chain') \in Nat
  BY DEF IHistory, Branch
<1>2. CallOf(task)'
  BY <1>1 DEF IHistory, Trusted, CallOf, Branch
<1>3. ASSUME task.call = "sync" PROVE Standing(task)'
  <2> SUFFICES ASSUME ~returned', task.point \notin dead'
               PROVE  At(chain', Len(task.point)) = task.point /\ Covered(task)
    BY DEF Standing, Covered
  <2>1. ~returned /\ task.point \notin dead
    OBVIOUS
  <2>2. /\ task.point \in Branch /\ Len(task.point) >= 1 /\ Len(task.point) <= Len(chain)
        /\ Len(task.point) \in Nat
    BY <1>3 DEF IHistory, Trusted, CallOf, Branch
  <2>3. At(chain, Len(task.point)) = task.point /\ Covered(task)
    BY <1>3, <2>1 DEF IHistory, Trusted, Standing
  <2>4. Len(task.point) \in 1..Len(chain)
    BY <1>1, <2>2
  <2>5. task.point \in Blocks(chain)
    BY <1>1, <2>3, <2>4, BlocksAre
  <2>6. task.point \in Blocks(chain')
    BY <2>5
  <2>7. PICK c \in Branch : c = chain'
    OBVIOUS
  <2>8. At(c, Len(task.point)) = task.point
    BY <2>2, <2>6, <2>7, BlocksAre
  <2> QED BY <2>3, <2>7, <2>8
<1>4. task.call = "sync" /\ task.pc = "end" => Compared(task)'
  BY DEF IHistory, Trusted, Compared
<1>5. task.call = "preflight" => Asked(task)'
  BY DEF IHistory, Trusted, Asked
<1>6. Trusted(task)'
  BY <1>2, <1>3, <1>4, <1>5 DEF IHistory, Trusted
<1>7. SyncTrue' /\ PreflightTrue'
  BY DEF IHistory, SyncTrue, PreflightTrue
<1> QED BY <1>1, <1>6, <1>7 DEF IHistory

\* A block that a branch gains on the way.
LEMMA ExtendKeeps ==
    ASSUME IHistory, Extend
    PROVE  IHistory'
<1>1. /\ chain \in Branch /\ Len(chain) \in Nat /\ Len(chain) >= 1
      /\ UNCHANGED <<task, synced, prepared>>
  BY DEF IHistory, Branch, Extend
<1>2. PICK c \in Branch : /\ c = chain' /\ Len(c) = Len(chain) + 1
                          /\ \A n \in 1..Len(chain) : c[n] = chain[n]
  <2>1. PICK b \in Op \cup {Empty} : chain' = Append(chain, b)
    BY DEF Extend
  <2>2. PICK c : c = Append(chain, b)
    OBVIOUS
  <2>3. /\ c \in Branch /\ Len(c) = Len(chain) + 1
        /\ \A n \in 1..Len(chain) : c[n] = chain[n]
    BY <1>1, <2>2, AppendProperties DEF Branch
  <2> QED BY <2>1, <2>2, <2>3
<1>3. \A n \in 1..Len(chain) : At(c, n) = At(chain, n)
  BY <1>1, <1>2 DEF At
<1>4. At(c, Len(c)) = c
  <2>1. Len(c) \in Nat /\ At(c, Len(c)) \in Branch /\ Len(At(c, Len(c))) = Len(c)
    BY <1>1, <1>2, BlockAt
  <2>2. \A i \in 1..Len(c) : At(c, Len(c))[i] = c[i]
    BY <1>1, <1>2, BlockAt
  <2> QED BY <2>1, <2>2, SeqEqual DEF Branch
<1>5. ASSUME NEW b \in Blocks(chain) PROVE b \in Blocks(c)
  <2>1. PICK n \in 1..Len(chain) : b = At(chain, n)
    BY <1>1, BlocksAre
  <2>2. n \in 1..Len(c)
    BY <1>1, <1>2
  <2>3. b = At(c, n)
    BY <1>3, <2>1
  <2> QED BY <1>2, <2>2, <2>3, BlocksAre
<1>6. ASSUME NEW b \in Blocks(c) PROVE b \in Blocks(chain) \/ b = c
  <2>1. PICK n \in 1..Len(c) : b = At(c, n)
    BY <1>2, BlocksAre
  <2>2. CASE n <= Len(chain)
    <3>1. n \in 1..Len(chain)
      BY <2>2
    <3>2. b = At(chain, n)
      BY <1>3, <2>1, <3>1
    <3> QED BY <1>1, <3>1, <3>2, BlocksAre
  <2>3. CASE n = Len(c)
    BY <1>4, <2>1, <2>3
  <2> QED BY <1>1, <1>2, <2>2, <2>3
<1>7. /\ returned' = (returned \/ c \in dead)
      /\ dead' = IF returned' THEN {} ELSE dead
  BY <1>2 DEF Extend
<1>8. (Blocks(chain) \cap dead = {}) => (Blocks(chain') \cap dead' = {})
  BY <1>2, <1>6, <1>7
<1>9. \A b \in Blocks(chain) : returned' \/ b \in dead' \/ b \in Blocks(chain')
  BY <1>2, <1>5
<1>10. \A b \in dead : returned' \/ b \in dead'
  BY <1>7
<1>11. chain' \in Branch /\ Len(chain') >= Len(chain)
  BY <1>1, <1>2
<1>12. returned => returned'
  BY <1>7
<1> QED BY <1>1, <1>8, <1>9, <1>10, <1>11, <1>12, ChainKeeps

\* Another fork: the blocks that it replaces are remembered.
LEMMA ForkKeeps ==
    ASSUME IHistory, Fork
    PROVE  IHistory'
<1>1. PICK new \in Histories :
          /\ Len(new) >= Len(chain) /\ chain' = new
          /\ returned' = (returned \/ Blocks(new) \cap dead # {})
          /\ dead' = IF returned' THEN {} ELSE dead \cup (Blocks(chain) \ Blocks(new))
  BY DEF Fork
<1>2. new \in Branch
  BY HistoriesAre
<1>3. (Blocks(chain) \cap dead = {}) => (Blocks(chain') \cap dead' = {})
  BY <1>1
<1>4. \A b \in Blocks(chain) : returned' \/ b \in dead' \/ b \in Blocks(chain')
  BY <1>1
<1>5. \A b \in dead : returned' \/ b \in dead'
  BY <1>1
<1>6. UNCHANGED <<task, synced, prepared>>
  BY DEF Fork
<1>7. chain' \in Branch /\ Len(chain') >= Len(chain) /\ (returned => returned')
  BY <1>1, <1>2
<1> QED BY <1>3, <1>4, <1>5, <1>6, <1>7, ChainKeeps

\* A chain of one block, no call and no result.
LEMMA HistoryInductive == InitHistory => IHistory
<1> SUFFICES ASSUME InitHistory PROVE IHistory
  OBVIOUS
<1>1. chain \in Branch /\ Len(chain) >= 1
  BY HistoriesAre DEF InitHistory
<1>2. Blocks(chain) \cap dead = {} /\ Trusted(task)
  BY NoTaskTrusted DEF InitHistory
<1>3. SyncTrue /\ PreflightTrue
  BY DEF InitHistory, NoResult, SyncTrue, PreflightTrue
<1> QED BY <1>1, <1>2, <1>3 DEF IHistory

\* Every step keeps the invariant.
LEMMA HistoryStep == IHistory /\ [NextHistory]_varsHistory => IHistory'
<1> SUFFICES ASSUME IHistory, [NextHistory]_varsHistory PROVE IHistory'
  OBVIOUS
<1>1. CASE Extend
  BY <1>1, ExtendKeeps
<1>2. CASE Fork
  BY <1>2, ForkKeeps
<1>3. CASE HeaderStart \/ HeaderRead \/ HeaderEnd
  BY <1>3, HeadersKeep
<1>4. CASE ChecksDone \/ PagesDone
  BY <1>4, ChecksKeep
<1>5. CASE ReadPage
  BY <1>5, PageKeeps
<1>6. CASE Fail
  BY <1>6, FailKeeps
<1>7. CASE StartSync \/ StartPreflight
  BY <1>7, CallStartKeeps
<1>8. CASE ReplayLogs
  BY <1>8, ReplayKeeps
<1>9. CASE SyncDone
  BY <1>9, SyncDoneKeeps
<1>10. CASE AskExecuted
  BY <1>10, AskKeeps
<1>11. CASE Verdict
  BY <1>11, VerdictKeeps
<1>12. CASE PreflightDone
  BY <1>12, PreflightDoneKeeps
<1>13. CASE UNCHANGED varsHistory
  <2>1. UNCHANGED <<chain, dead, returned, forks, task, synced, prepared>>
    BY <1>13 DEF varsHistory
  <2>2. Trusted(task)
    BY DEF IHistory
  <2> QED BY <2>1, <2>2, GoesOn
<1> QED BY <1>1, <1>2, <1>3, <1>4, <1>5, <1>6, <1>7, <1>8, <1>9, <1>10, <1>11, <1>12, <1>13
        DEF NextHistory

(***************************************************************************)
(* The results.                                                             *)
(***************************************************************************)

\* What a call relies on between its reads: while its block was not replaced,
\* the pages it has read show that block's history, so a header that is the
\* same after the pages as before vouches for all of them (sync.ts, history.ts).
THEOREM HistoryInvariant == SpecHistory => []IHistory
<1>1. InitHistory => IHistory
  BY HistoryInductive
<1>2. IHistory /\ [NextHistory]_varsHistory => IHistory'
  BY HistoryStep
<1> QED BY <1>1, <1>2, PTL DEF SpecHistory

\* A complete synchronization shows the coins of the one block it names: none
\* that is not there, and none missing while no replaced fork returns,
\* wherever its pages came from (sync.ts synchronize).
THEOREM SyncIsTrue == SpecHistory => []SyncTrue
<1>1. IHistory => SyncTrue
  BY DEF IHistory
<1> QED BY <1>1, HistoryInvariant, PTL

\* The verdict on a signed operation is the one of the block it names:
\* submitted only if that block has its inputs and not the operation
\* (tracking.ts preflight, prepareSubmission).
THEOREM PreflightIsTrue == SpecHistory => []PreflightTrue
<1>1. IHistory => PreflightTrue
  BY DEF IHistory
<1> QED BY <1>1, HistoryInvariant, PTL
=============================================================================
