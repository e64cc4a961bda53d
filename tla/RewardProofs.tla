---------------------------- MODULE RewardProofs ----------------------------
(***************************************************************************)
(* Proofs about RewardQueue, for any requests, owners and coins, any number *)
(* of failures, restarts, stops and operators, and any bounds.              *)
(***************************************************************************)
EXTENDS RewardQueue, SumProofs, SequenceTheorems, TLAPS

Over == {"finalized", "received", "ended"}
Reasons == {"restore-stopped", "quota-stopped", "operator-stopped",
            "rpc-unavailable", "funds-short", "gas-short"}

RewardRow == [status : Unfinished \cup Over \cup {"none"}, owner : Owner \cup {None},
              version : Nat, phase : {"none", "claimed", "draft-saved", "signature-started"},
              coins : SUBSET Coin, first : Coin \cup {None}, change : Int,
              signed : BOOLEAN, attempt : BOOLEAN,
              released : BOOLEAN, checkpoint : Nat \cup {None}]
CancelRow == [phase : {"none", "signature-started", "signed", "raw-saved"},
              input : Coin \cup {None}, amount : Int, checkpoint : Nat \cup {None}]
InputRow == [holder : Request \cup {None},
             status : {"none", "reserved", "unknown", "consumed", "released"}]

Building == {"claim", "build", "save"}
Cancelling == {"cancel-sign", "cancel-prepare", "cancel-observe", "cancel-end"}
Ahead == {"funds", "mark"} \cup Building

Handler ==
    [pc : {"idle", "verify"}]
    \cup [pc : {"funds", "mark", "sign", "store", "submit", "attempt", "broadcast", "evidence",
                "cancel", "cancel-sign", "cancel-prepare", "cancel-observe"}, r : Request]
    \cup [pc : Building, r : Request, coins : SUBSET Coin]
    \cup [pc : {"judge"}, r : Request, version : Nat,
          status : Unfinished \cup Over \cup {"none"}, found : Nat \cup {None}]
    \cup [pc : {"cancel-end"}, r : Request, found : Nat]

TypeReward ==
    /\ rows \in [Request -> RewardRow]
    /\ queue \in Seq(Request)
    /\ inputs \in [Coin -> InputRow]
    /\ cancels \in [Request -> CancelRow]
    /\ stops \subseteq Reasons
    /\ alarm \in BOOLEAN
    /\ DOMAIN admitting = Request
    /\ handler \in [Thread -> Handler]
    /\ sent \subseteq Op
    /\ executed \in [Op -> Nat \cup {None}]
    /\ fork \in Nat

Busy == {"reserved", "unknown", "consumed"}

\* The draft and the cancellation of a request, as far as the chain can see them.
SameDraft(x, y) == x.coins = y.coins /\ x.first = y.first /\ x.change = y.change
SameCancel(x, y) == x.input = y.input /\ x.amount = y.amount

Owns(r, c) == inputs[c].holder = r /\ inputs[c].status \in Busy

\* What is left to a request of its inputs: a final cancellation gave back all but its own.
Kept(r) == {c \in rows[r].coins : cancels[r].checkpoint = None \/ c = cancels[r].input}

\* A request that may have signed something keeps the coins it is about.
Held(r) ==
    /\ /\ rows[r].phase \in {"draft-saved", "signature-started"}
       /\ rows[r].status = "ended" => rows[r].phase = "signature-started"
       => \A c \in Kept(r) : Owns(r, c)
    /\ rows[r].phase \in {"draft-saved", "signature-started"} => rows[r].first \in rows[r].coins
    /\ cancels[r].phase # "none" => cancels[r].input \in rows[r].coins
    /\ cancels[r].checkpoint # None => cancels[r].phase # "none"

\* What the records of a request say about one another and about the chain.
Consistent(r) ==
    /\ rows[r].released <=> rows[r].status \in Over
    /\ cancels[r].phase # "none" => rows[r].phase = "signature-started"
    /\ rows[r].attempt => rows[r].phase = "signature-started"
    /\ Pay(r) \in sent => rows[r].attempt
    /\ Cancel(r) \in sent => cancels[r].phase # "none"
    /\ fork = 0 /\ rows[r].status = "ended" => Pay(r) \notin sent \/ executed[Cancel(r)] # None

\* No coin is spent by two final operations.
ChainSound ==
    /\ \A op \in Op : executed[op] # None => op \in sent
    /\ \A op, other \in Op :
          executed[op] # None /\ executed[other] # None /\ InputsOf(op) \cap InputsOf(other) # {} => op = other

QueueSound ==
    /\ \A i \in DOMAIN queue : rows[queue[i]].status # "none"
    /\ \A i, j \in DOMAIN queue : queue[i] = queue[j] => i = j

Admissions ==
    \A r \in Request :
        admitting[r] # None /\ admitting[r].pc \in {"funds", "commit"}
        => rows[r].status = "none" /\ admitting[r].owner \in Owner

\* Every request accepted earlier is settled.
Behind(r) == \A i, j \in DOMAIN queue : i < j /\ queue[j] = r => rows[queue[i]].status \in Over

HandlerSound(t, h) ==
    /\ h.pc \notin {"idle", "verify"} => rows[h.r].status # "none"
    /\ h.pc = "broadcast" => rows[h.r].attempt
    /\ h.pc \in Cancelling => cancels[h.r].phase # "none"
    /\ h.pc = "cancel-end" /\ fork = 0 => executed[Cancel(h.r)] # None
    /\ h.pc \in Ahead => t = "alarm" /\ Behind(h.r)

IReward ==
    /\ TypeReward /\ ChainSound /\ QueueSound /\ Admissions
    /\ \A r \in Request : Held(r) /\ Consistent(r)
    /\ \A t \in Thread : HandlerSound(t, handler[t])
-----------------------------------------------------------------------------
(* Data.                                                                     *)

\* An operation is a payment or a cancellation of a request, with the inputs of its record.
LEMMA Operations ==
    /\ \A r \in Request : Pay(r) \in Op /\ Cancel(r) \in Op /\ Pay(r) # Cancel(r)
    /\ \A r \in Request : InputsOf(Pay(r)) = rows[r].coins /\ InputsOf(Cancel(r)) = {cancels[r].input}
    /\ \A op \in Op : op[2] \in Request /\ op \in {Pay(op[2]), Cancel(op[2])}
PROOF
<1> QED BY DEF Op, Pay, Cancel, InputsOf

\* What the record of a handler carries at which step.
LEMMA HandlerTypes ==
    ASSUME NEW h \in Handler
    PROVE  /\ h.pc \notin {"idle", "verify"} => h.r \in Request
           /\ h.pc \in Building => h.coins \subseteq Coin
           /\ h.pc = "cancel-end" => h.found \in Nat
           /\ h.pc = "judge" => h.found \in Nat \cup {None}
PROOF
<1> QED BY DEF Handler, Building

\* There are finitely many coins.
LEMMA FinitelyMany ==
    \A S \in SUBSET Coin : IsFiniteSet(S) /\ Cardinality(S) \in Nat
PROOF
<1>1. IsFiniteSet({"pay", "cancel"})
  <2>1. IsFiniteSet({"pay"})
    BY FS_Singleton
  <2>2. IsFiniteSet({"pay"} \cup {"cancel"})
    BY <2>1, FS_AddElement
  <2>3. {"pay"} \cup {"cancel"} = {"pay", "cancel"}
    OBVIOUS
  <2> QED BY <2>2, <2>3
<1>2. IsFiniteSet(Op)
  BY <1>1, FiniteAssumption, FS_Product DEF Op
<1>3. IsFiniteSet(Coin)
  BY <1>2, FiniteAssumption, FS_Union DEF Coin
<1> QED BY <1>3, FS_Subset, FS_CardinalityType

\* What the coins are worth.
Worths == [c \in Coin |-> Worth(c)]

\* The amounts of coins add up to their worth.
LEMMA WorthSums ==
    ASSUME NEW S \in SUBSET Coin, \A c \in S : Worth(c) \in Int
    PROVE  WorthOf(S) = SumOver(Worths, S)
PROOF
<1> DEFINE Body(F, s) == IF s = {} THEN 0 ELSE Worth(Chosen(s)) + F[s \ {Chosen(s)}]
           G == CHOOSE F : F = [s \in SUBSET S |-> Body(F, s)]
<1>1. WorthOf(S) = G[S]
  BY DEF WorthOf, MapThenSumSet, MapThenFoldSet, Chosen
<1>2. \A F : FoldedBy(F, Worths, S) <=> F = [s \in SUBSET S |-> Body(F, s)]
  <2> SUFFICES ASSUME NEW F
               PROVE  FoldedBy(F, Worths, S) <=> F = [s \in SUBSET S |-> Body(F, s)]
    OBVIOUS
  <2>1. \A s \in SUBSET S : s # {} => Worth(Chosen(s)) = Worths[Chosen(s)]
    BY ChosenIn DEF Worths
  <2>2. [s \in SUBSET S |-> Body(F, s)]
          = [s \in SUBSET S |-> IF s = {} THEN 0 ELSE Worths[Chosen(s)] + F[s \ {Chosen(s)}]]
    BY <2>1
  <2> QED BY <2>2 DEF FoldedBy
<1>3. \A c \in S : Worths[c] \in Int
  BY DEF Worths
<1>4. IsFiniteSet(S)
  BY FinitelyMany
<1>5. \E F : FoldedBy(F, Worths, S)
  BY <1>3, <1>4, FoldsExist
<1> HIDE DEF Body
<1>6. G = [s \in SUBSET S |-> Body(G, s)]
  BY <1>2, <1>5
<1> HIDE DEF G
<1>7. FoldedBy(G, Worths, S)
  BY <1>2, <1>6
<1>8. SumOver(Worths, S) = G[S]
  BY <1>3, <1>4, <1>7, SumValue
<1> QED BY <1>1, <1>8

\* What a coin is worth is a number, and so is what several are worth.
LEMMA WorthType ==
    ASSUME TypeReward
    PROVE  /\ \A c \in Coin : Worth(c) \in Int
           /\ \A S \in SUBSET Coin : WorthOf(S) \in Int
PROOF
<1>1. ASSUME NEW c \in Coin
      PROVE  Worth(c) \in Int
  <2>1. CASE c \in Base
    BY <2>1, RewardAssumption DEF Worth
  <2>2. CASE c \notin Base
    <3>1. c[2] \in Request
      BY <2>2 DEF Coin, Op
    <3> QED BY <2>2, <3>1 DEF Worth, TypeReward, RewardRow, CancelRow
  <2> QED BY <2>1, <2>2
<1>2. ASSUME NEW S \in SUBSET Coin
      PROVE  WorthOf(S) \in Int
  <2>1. WorthOf(S) = SumOver(Worths, S) /\ \A c \in S : Worths[c] \in Int
    BY <1>1, WorthSums DEF Worths
  <2> QED BY <2>1, FinitelyMany, SumIsInt
<1> QED BY <1>1, <1>2

\* What is selected is there and suffices.
LEMMA SelectionFacts ==
    ASSUME NEW r \in Request, NEW coins \in Selections(r)
    PROVE  coins \subseteq Available /\ WorthOf(coins) >= RewardAmount[r]
PROOF
<1> DEFINE Sufficient(sets) == {these \in sets : WorthOf(these) >= RewardAmount[r]}
           singles == Sufficient({{c} : c \in Available})
           choices == IF singles # {} THEN singles ELSE Sufficient({{c, d} : c, d \in Available})
<1>1. coins \in choices
  BY DEF Selections
<1>2. coins \in {{c} : c \in Available} \cup {{c, d} : c, d \in Available}
      /\ WorthOf(coins) >= RewardAmount[r]
  BY <1>1
<1> QED BY <1>2

\* What no step but the reopening of a request undoes.
Grows ==
    /\ \A r \in Request :
          /\ rows[r].status # "none" => rows'[r].status # "none"
          /\ rows[r].attempt => rows'[r].attempt
          /\ cancels[r].phase # "none" => cancels'[r].phase # "none"
          /\ fork' = 0 => fork = 0 /\ (executed[Cancel(r)] # None => executed'[Cancel(r)] # None)

Follows ==
    /\ \A r \in Request : rows[r].status \in Over => rows'[r].status \in Over
    /\ \/ queue' = queue
       \/ \E q \in Request : rows[q].status = "none" /\ queue' = Append(queue, q)

\* A request with nothing unsettled before it stays so: later ones are appended after it.
LEMMA BehindKept ==
    ASSUME IReward, NEW r \in Request, rows[r].status # "none", Behind(r), Follows
    PROVE  Behind(r)'
PROOF
<1>1. queue \in Seq(Request) /\ Len(queue) \in Nat /\ DOMAIN queue = 1..Len(queue)
  BY LenProperties DEF IReward, TypeReward
<1>2. \A i \in 1..Len(queue) : queue[i] \in Request
  BY <1>1
<1>3. CASE queue' = queue
  BY <1>1, <1>2, <1>3 DEF Follows, Behind
<1>4. CASE \E q \in Request : rows[q].status = "none" /\ queue' = Append(queue, q)
  <2>1. PICK q \in Request : rows[q].status = "none" /\ queue' = Append(queue, q)
    BY <1>4
  <2>2. /\ Len(queue') = Len(queue) + 1 /\ queue' \in Seq(Request)
        /\ \A i \in 1..Len(queue) : queue'[i] = queue[i]
        /\ queue'[Len(queue) + 1] = q
    BY <1>1, <2>1, AppendProperties
  <2>3. DOMAIN queue' = 1..(Len(queue) + 1)
    BY <2>2, LenProperties
  <2>4. ASSUME NEW i \in DOMAIN queue', NEW j \in DOMAIN queue', i < j, queue'[j] = r
        PROVE  rows'[queue'[i]].status \in Over
    <3>1. i \in 1..Len(queue) /\ j \in 1..(Len(queue) + 1)
      BY <1>1, <2>3, <2>4
    <3>2. j # Len(queue) + 1
      BY <2>1, <2>2, <2>4
    <3>3. j \in 1..Len(queue)
      BY <1>1, <3>1, <3>2
    <3>4. queue'[j] = queue[j] /\ queue'[i] = queue[i] /\ queue[i] \in Request
      BY <1>2, <2>2, <3>1, <3>3
    <3> QED BY <1>1, <2>4, <3>1, <3>3, <3>4 DEF Behind, Follows
  <2> QED BY <2>4 DEF Behind
<1> QED BY <1>3, <1>4 DEF Follows

\* What holds of a handler survives a step that only grows the records.
LEMMA HandlerKept ==
    ASSUME IReward, NEW t \in Thread, NEW h \in Handler, HandlerSound(t, h), Grows,
           Follows \/ h.pc \notin Ahead
    PROVE  HandlerSound(t, h)'
PROOF
<1>1. h.pc \notin {"idle", "verify"} => h.r \in Request
  BY HandlerTypes
<1>2. h.pc \in Ahead => h.pc \notin {"idle", "verify"}
  BY DEF Ahead, Building
<1>3. h.pc \in Ahead => Behind(h.r)'
  BY <1>1, <1>2, BehindKept DEF HandlerSound
<1>4. h.pc \in Cancelling \cup {"broadcast"} => h.pc \notin {"idle", "verify"}
  BY DEF Cancelling
<1> QED BY <1>1, <1>3, <1>4 DEF HandlerSound, Grows, Cancelling
-----------------------------------------------------------------------------
(* What the steps have in common.                                            *)

\* What a step may do to a handler.
HandlersMove ==
    /\ handler' \in [Thread -> Handler]
    /\ \A t \in Thread :
          \/ handler'[t] = handler[t]
          \/ \E h \in Handler : handler'[t] = h /\ HandlerSound(t, h)'

\* So does what holds of all handlers, of which a step moves at most some.
LEMMA HandlersSound ==
    ASSUME IReward, HandlersMove, Grows, Follows
    PROVE  \A t \in Thread : HandlerSound(t, handler[t])'
PROOF
<1>1. ASSUME NEW t \in Thread, handler'[t] = handler[t]
      PROVE  HandlerSound(t, handler[t])'
  <2>1. PICK h \in Handler : h = handler[t]
    BY DEF IReward, TypeReward
  <2>2. HandlerSound(t, h)'
    BY <2>1, HandlerKept DEF IReward
  <2> QED BY <1>1, <2>1, <2>2
<1>2. ASSUME NEW t \in Thread, NEW h \in Handler, handler'[t] = h, HandlerSound(t, h)'
      PROVE  HandlerSound(t, handler[t])'
  BY <1>2
<1> QED BY <1>1, <1>2 DEF HandlersMove

\* A step moves one handler to a sound place.
LEMMA OneMoves ==
    ASSUME IReward, NEW t \in Thread, NEW h \in Handler, Continue(t, h), HandlerSound(t, h)'
    PROVE  HandlersMove
PROOF
<1>1. handler \in [Thread -> Handler] /\ handler' = [handler EXCEPT ![t] = h]
  BY DEF IReward, TypeReward, Continue
<1>2. handler' \in [Thread -> Handler] /\ handler'[t] = h
  BY <1>1
<1>3. \A u \in Thread : u # t => handler'[u] = handler[u]
  BY <1>1
<1> QED BY <1>2, <1>3 DEF HandlersMove

\* A step moves no handler.
LEMMA NoneMoves ==
    ASSUME IReward, handler' = handler
    PROVE  HandlersMove
PROOF
<1> QED BY DEF IReward, TypeReward, HandlersMove

\* An idle handler is sound, before and after a step.
LEMMA IdleSound ==
    /\ Idle \in Handler
    /\ \A t \in Thread : HandlerSound(t, Idle) /\ HandlerSound(t, Idle)'
PROOF
<1>1. Idle.pc = "idle"
  BY DEF Idle
<1>2. Idle \in [pc : {"idle", "verify"}]
  BY DEF Idle
<1>3. Idle \in Handler
  BY <1>2 DEF Handler
<1>4. ASSUME NEW t \in Thread
      PROVE  HandlerSound(t, Idle) /\ HandlerSound(t, Idle)'
  BY <1>1 DEF HandlerSound, Cancelling, Ahead, Building
<1> QED BY <1>3, <1>4

\* A step that leaves the database and the chain keeps the invariant.
LEMMA Unmoved ==
    ASSUME IReward, UNCHANGED db, UNCHANGED chain, HandlersMove,
           stops' \subseteq Reasons, alarm' \in BOOLEAN, DOMAIN admitting' = Request, Admissions'
    PROVE  IReward'
PROOF
<1> USE DEF db, chain
<1>1. TypeReward'
  BY DEF IReward, TypeReward, HandlersMove
<1>2. ChainSound'
  BY DEF IReward, ChainSound, InputsOf
<1>3. QueueSound'
  BY DEF IReward, QueueSound
<1>4. ASSUME NEW r \in Request
      PROVE  Held(r)' /\ Consistent(r)'
  BY DEF IReward, Held, Kept, Owns, Consistent
<1>5. Grows /\ Follows
  BY DEF Grows, Follows
<1> QED BY <1>1, <1>2, <1>3, <1>4, <1>5, HandlersSound DEF IReward

\* So does one in which a handler just goes on.
LEMMA GoesOn ==
    ASSUME IReward, NEW t \in Thread, NEW h \in Handler, Continue(t, h), HandlerSound(t, h),
           UNCHANGED <<db, chain, admitting>>, stops' \subseteq Reasons, alarm' \in BOOLEAN
    PROVE  IReward'
PROOF
<1>1. Grows /\ Follows
  BY DEF Grows, Follows, db, chain
<1>2. HandlerSound(t, h)'
  BY <1>1, HandlerKept
<1>3. Admissions' /\ DOMAIN admitting' = Request
  BY DEF IReward, TypeReward, Admissions, db
<1> QED BY <1>2, <1>3, OneMoves, Unmoved

\* Where a handler is after it continued.
LEMMA ContinuesAt ==
    ASSUME IReward, NEW t \in Thread, NEW h, Continue(t, h)
    PROVE  handler'[t] = h
PROOF
<1>1. handler \in [Thread -> Handler]
  BY DEF IReward, TypeReward
<1> QED BY <1>1 DEF Continue

\* A handler that ends without a write.
EndsQuietly(t) ==
    \/ Unavailable(t) \/ OutOfGas(t)
    \/ \E reason \in Reasons : Fail(t, reason) /\ NoWrite
    \/ Done(t) /\ NoWrite

\* A failure ends the handler with a known reason.
LEMMA FailTypes ==
    ASSUME IReward, NEW t \in Thread, NEW reason \in Reasons, Fail(t, reason)
    PROVE  Continue(t, Idle) /\ stops' \subseteq Reasons /\ alarm' \in BOOLEAN
PROOF
<1> QED BY DEF IReward, TypeReward, Fail

\* A return ends the handler.
LEMMA DoneTypes ==
    ASSUME IReward, NEW t \in Thread, Done(t)
    PROVE  Continue(t, Idle) /\ stops' \subseteq Reasons /\ alarm' \in BOOLEAN
PROOF
<1> QED BY DEF IReward, TypeReward, Done

\* A handler that ends without a write keeps the invariant.
LEMMA Ends ==
    ASSUME IReward, NEW t \in Thread, EndsQuietly(t)
    PROVE  IReward'
PROOF
<1>1. CASE Unavailable(t)
  <2>1. PICK reason \in {"rpc-unavailable", "operator-stopped"} : Fail(t, reason)
    BY <1>1 DEF Unavailable
  <2>2. reason \in Reasons /\ UNCHANGED <<db, chain, admitting>>
    BY <1>1 DEF Unavailable, Reasons
  <2> QED BY <2>1, <2>2, FailTypes, IdleSound, GoesOn
<1>2. CASE OutOfGas(t)
  <2>1. Fail(t, "gas-short") /\ "gas-short" \in Reasons /\ UNCHANGED <<db, chain, admitting>>
    BY <1>2 DEF OutOfGas, Reasons
  <2> QED BY <2>1, FailTypes, IdleSound, GoesOn
<1>3. ASSUME NEW reason \in Reasons, Fail(t, reason), NoWrite
      PROVE  IReward'
  <2>1. UNCHANGED <<db, chain, admitting>>
    BY <1>3 DEF NoWrite
  <2> QED BY <1>3, <2>1, FailTypes, IdleSound, GoesOn
<1>4. CASE Done(t) /\ NoWrite
  <2>1. UNCHANGED <<db, chain, admitting>>
    BY <1>4 DEF NoWrite
  <2> QED BY <1>4, <2>1, DoneTypes, IdleSound, GoesOn
<1> QED BY <1>1, <1>2, <1>3, <1>4 DEF EndsQuietly

\* What was signed stays as it is.
DraftsKept ==
    /\ \A q \in Request : rows[q].phase = "signature-started" => SameDraft(rows'[q], rows[q])
    /\ \A q \in Request : cancels[q].phase # "none" => SameCancel(cancels'[q], cancels[q])

\* A step that writes the records of one request.
Writes(r) ==
    /\ rows[r].status # "none" /\ rows'[r].status # "none"
    /\ \E x \in RewardRow : rows' = [rows EXCEPT ![r] = x]
    /\ rows[r].attempt => rows'[r].attempt
    /\ rows[r].status \in Over => rows'[r].status \in Over
    /\ rows[r].phase = "signature-started" => SameDraft(rows'[r], rows[r])
    /\ inputs' \in [Coin -> InputRow]
    /\ \A c \in Coin : inputs'[c] # inputs[c] => inputs[c].holder = r \/ Free(c)
    /\ \E x \in CancelRow : cancels' = [cancels EXCEPT ![r] = x]
    /\ cancels[r].phase # "none" => cancels'[r].phase # "none" /\ SameCancel(cancels'[r], cancels[r])
    /\ UNCHANGED <<queue, admitting, chain>>

\* What a step that writes the records of one request leaves alone.
LEMMA WritesFrame ==
    ASSUME IReward, NEW r \in Request, Writes(r)
    PROVE  /\ Grows /\ Follows
           /\ rows' \in [Request -> RewardRow] /\ cancels' \in [Request -> CancelRow]
           /\ \A q \in Request \ {r} : rows'[q] = rows[q] /\ cancels'[q] = cancels[q]
           /\ DraftsKept
PROOF
<1>1. rows \in [Request -> RewardRow] /\ cancels \in [Request -> CancelRow]
  BY DEF IReward, TypeReward
<1>2. PICK x \in RewardRow : rows' = [rows EXCEPT ![r] = x]
  BY DEF Writes
<1>3. PICK y \in CancelRow : cancels' = [cancels EXCEPT ![r] = y]
  BY DEF Writes
<1>4. rows' \in [Request -> RewardRow] /\ cancels' \in [Request -> CancelRow]
  BY <1>1, <1>2, <1>3
<1>5. \A q \in Request \ {r} : rows'[q] = rows[q] /\ cancels'[q] = cancels[q]
  BY <1>1, <1>2, <1>3
<1>6. Grows
  BY <1>5 DEF Writes, Grows, chain
<1>7. Follows
  BY <1>5 DEF Writes, Follows
<1>8. DraftsKept
  BY <1>5 DEF Writes, DraftsKept, SameDraft, SameCancel
<1> QED BY <1>4, <1>5, <1>6, <1>7, <1>8

\* What the chain holds is kept by it.
LEMMA ChainKept ==
    ASSUME IReward, UNCHANGED chain, DraftsKept
    PROVE  /\ ChainSound'
           /\ \A op \in Op : executed[op] # None => InputsOf(op)' = InputsOf(op)
PROOF
<1>1. ASSUME NEW op \in Op, executed[op] # None
      PROVE  InputsOf(op)' = InputsOf(op)
  <2>1. op[2] \in Request /\ op \in {Pay(op[2]), Cancel(op[2])}
    BY Operations
  <2>2. op \in sent
    BY <1>1 DEF IReward, ChainSound
  <2>3. CASE op = Pay(op[2])
    <3>1. rows[op[2]].phase = "signature-started"
      BY <2>1, <2>2, <2>3 DEF IReward, Consistent
    <3>2. op[1] = "pay"
      BY <2>3 DEF Pay
    <3> QED BY <2>1, <3>1, <3>2 DEF InputsOf, DraftsKept, SameDraft
  <2>4. CASE op = Cancel(op[2])
    <3>1. cancels[op[2]].phase # "none"
      BY <2>1, <2>2, <2>4 DEF IReward, Consistent
    <3>2. op[1] = "cancel"
      BY <2>4 DEF Cancel
    <3> QED BY <2>1, <3>1, <3>2 DEF InputsOf, DraftsKept, SameCancel
  <2> QED BY <2>1, <2>3, <2>4
<1> QED BY <1>1 DEF IReward, ChainSound, chain

\* It keeps the invariant if the written records satisfy it.
LEMMA OneWritten ==
    ASSUME IReward, NEW r \in Request, Writes(r), Held(r)', Consistent(r)',
           HandlersMove, stops' \subseteq Reasons, alarm' \in BOOLEAN
    PROVE  IReward'
PROOF
<1>1. /\ Grows /\ Follows
      /\ rows' \in [Request -> RewardRow] /\ cancels' \in [Request -> CancelRow]
      /\ \A q \in Request \ {r} : rows'[q] = rows[q] /\ cancels'[q] = cancels[q]
      /\ DraftsKept
  BY WritesFrame
<1>2. TypeReward'
  BY <1>1 DEF IReward, TypeReward, Writes, HandlersMove, chain
<1>3. ChainSound'
  BY <1>1, ChainKept DEF Writes
<1>4. QueueSound'
  <2>1. queue \in Seq(Request) /\ queue' = queue
    BY DEF IReward, TypeReward, Writes
  <2>2. \A i \in DOMAIN queue : queue[i] \in Request
    BY <2>1
  <2> QED BY <1>1, <2>1, <2>2 DEF IReward, QueueSound, Grows
<1>5. Admissions'
  <2>1. ASSUME NEW q \in Request, admitting[q] # None, admitting[q].pc \in {"funds", "commit"}
        PROVE  rows'[q].status = "none" /\ admitting[q].owner \in Owner
    <3>1. rows[q].status = "none" /\ admitting[q].owner \in Owner
      BY <2>1 DEF IReward, Admissions
    <3>2. q # r
      BY <3>1 DEF Writes
    <3> QED BY <1>1, <3>1, <3>2
  <2> QED BY <2>1 DEF Admissions, Writes
<1>6. ASSUME NEW q \in Request, q # r
      PROVE  Held(q)' /\ Consistent(q)'
  <2>1. rows'[q] = rows[q] /\ cancels'[q] = cancels[q] /\ Held(q) /\ Consistent(q)
    BY <1>1, <1>6 DEF IReward
  <2>2. Consistent(q)'
    BY <2>1 DEF Consistent, Writes, chain
  <2>3. ASSUME NEW c \in Coin, Owns(q, c)
        PROVE  Owns(q, c)'
    <3>1. ~Free(c) /\ inputs[c].holder # r
      BY <1>6, <2>3 DEF Busy, Free, Owns
    <3> QED BY <2>3, <3>1 DEF Writes, Owns
  <2>4. Held(q)'
    <3>1. Kept(q) \subseteq Coin /\ Kept(q)' = Kept(q)
      BY <2>1 DEF Kept, IReward, TypeReward, RewardRow
    <3> QED BY <2>1, <2>3, <3>1 DEF Held
  <2> QED BY <2>2, <2>4
<1> QED BY <1>1, <1>2, <1>3, <1>4, <1>5, <1>6, HandlersSound DEF IReward
-----------------------------------------------------------------------------
(* The steps of an admission.                                                *)

\* The steps of an admission keep the invariant.
LEMMA AdmitStartKeeps ==
    ASSUME IReward, NEW r \in Request, NEW o \in Owner, AdmitStart(r, o)
    PROVE  IReward'
PROOF
<1>1. DOMAIN admitting' = Request /\ \A q \in Request : q # r => admitting'[q] = admitting[q]
  BY DEF IReward, TypeReward, AdmitStart
<1>2. admitting'[r].owner = o /\ rows[r].status = "none"
  BY DEF IReward, TypeReward, AdmitStart
<1>3. Admissions'
  BY <1>1, <1>2 DEF IReward, Admissions, AdmitStart, db
<1>4. HandlersMove
  BY NoneMoves DEF AdmitStart
<1> QED BY <1>1, <1>3, <1>4, Unmoved DEF IReward, TypeReward, AdmitStart

\* The reading of the funds keeps the invariant.
LEMMA AdmitFundsKeeps ==
    ASSUME IReward, NEW r \in Request, AdmitFunds(r)
    PROVE  IReward'
PROOF
<1>1. DOMAIN admitting' = Request /\ \A q \in Request : q # r => admitting'[q] = admitting[q]
  BY DEF IReward, TypeReward, AdmitFunds
<1>2. admitting'[r] # None => admitting'[r].owner = admitting[r].owner
  BY DEF IReward, TypeReward, AdmitFunds
<1>3. rows[r].status = "none" /\ admitting[r].owner \in Owner
  BY DEF IReward, Admissions, AdmitFunds, Admitting
<1>4. Admissions'
  BY <1>1, <1>2, <1>3 DEF IReward, Admissions, AdmitFunds, db
<1>5. HandlersMove
  BY NoneMoves DEF AdmitFunds
<1>6. stops' \subseteq Reasons /\ alarm' \in BOOLEAN
  BY DEF IReward, TypeReward, AdmitFunds, Reasons
<1> QED BY <1>1, <1>4, <1>5, <1>6, Unmoved DEF AdmitFunds

\* The setting of the alarm keeps the invariant.
LEMMA AdmitScheduleKeeps ==
    ASSUME IReward, NEW r \in Request, AdmitSchedule(r)
    PROVE  IReward'
PROOF
<1>1. DOMAIN admitting' = Request /\ \A q \in Request : q # r => admitting'[q] = admitting[q]
  BY DEF IReward, TypeReward, AdmitSchedule
<1>2. admitting'[r] = None
  BY DEF IReward, TypeReward, AdmitSchedule
<1>3. Admissions'
  BY <1>1, <1>2 DEF IReward, Admissions, AdmitSchedule, db
<1>4. HandlersMove
  BY NoneMoves DEF AdmitSchedule
<1> QED BY <1>1, <1>3, <1>4, Unmoved DEF IReward, TypeReward, AdmitSchedule

\* An accepted request enters the queue once, at its end.
LEMMA AcceptKeeps ==
    ASSUME IReward, NEW r \in Request, Admitting(r, "commit"),
           rows' = [rows EXCEPT ![r].status = "accepted", ![r].owner = admitting[r].owner,
                                ![r].version = 1],
           queue' = Append(queue, r),
           admitting' = [admitting EXCEPT ![r] = [pc |-> "schedule"]],
           UNCHANGED <<inputs, cancels, stops, alarm, handler, chain>>
    PROVE  IReward'
PROOF
<1>1. rows \in [Request -> RewardRow] /\ rows[r] \in RewardRow
  BY DEF IReward, TypeReward
<1>2. rows[r].status = "none" /\ admitting[r].owner \in Owner
  BY DEF IReward, Admissions, Admitting
<1>3. PICK x \in RewardRow : /\ rows' = [rows EXCEPT ![r] = x]
                             /\ x = [rows[r] EXCEPT !.status = "accepted",
                                                    !.owner = admitting[r].owner, !.version = 1]
  <2>1. [rows[r] EXCEPT !.status = "accepted", !.owner = admitting[r].owner, !.version = 1]
        \in RewardRow
    BY <1>1, <1>2 DEF RewardRow, Unfinished
  <2> QED BY <1>1, <2>1
<1>4. /\ x.status = "accepted" /\ x.phase = rows[r].phase /\ SameDraft(x, rows[r])
      /\ x.attempt = rows[r].attempt /\ x.released = rows[r].released
  BY <1>1, <1>3 DEF RewardRow, SameDraft
<1>5. rows' \in [Request -> RewardRow] /\ rows'[r] = x /\ \A q \in Request \ {r} : rows'[q] = rows[q]
  BY <1>1, <1>3
<1>6. /\ queue \in Seq(Request) /\ Len(queue) \in Nat /\ DOMAIN queue = 1..Len(queue)
      /\ \A i \in 1..Len(queue) : queue[i] \in Request
  BY LenProperties DEF IReward, TypeReward
<1>7. /\ queue' \in Seq(Request) /\ Len(queue') = Len(queue) + 1
      /\ DOMAIN queue' = 1..(Len(queue) + 1)
      /\ \A i \in 1..Len(queue) : queue'[i] = queue[i]
      /\ queue'[Len(queue) + 1] = r
  BY <1>6, AppendProperties, LenProperties
<1>8. \A i \in 1..Len(queue) : queue[i] # r
  BY <1>2, <1>6 DEF IReward, QueueSound
<1>9. Grows
  BY <1>4, <1>5 DEF Grows, chain
<1>10. Follows
  BY <1>2, <1>4, <1>5 DEF Follows, Over
<1>11. TypeReward'
  BY <1>5, <1>7 DEF IReward, TypeReward, chain
<1>12. ChainSound'
  <2>1. DraftsKept
    BY <1>4, <1>5 DEF DraftsKept, SameDraft, SameCancel
  <2> QED BY <2>1, ChainKept
<1>13. QueueSound'
  <2>1. ASSUME NEW i \in DOMAIN queue'
        PROVE  rows'[queue'[i]].status # "none"
    <3>1. CASE i = Len(queue) + 1
      BY <1>4, <1>5, <1>7, <3>1
    <3>2. CASE i # Len(queue) + 1
      <4>1. i \in 1..Len(queue)
        BY <1>6, <1>7, <2>1, <3>2
      <4> QED BY <1>5, <1>6, <1>7, <1>8, <4>1 DEF IReward, QueueSound
    <3> QED BY <3>1, <3>2
  <2>2. ASSUME NEW i \in DOMAIN queue', NEW j \in DOMAIN queue', queue'[i] = queue'[j]
        PROVE  i = j
    <3>1. i \in 1..(Len(queue) + 1) /\ j \in 1..(Len(queue) + 1)
      BY <1>7, <2>2
    <3>2. CASE i = Len(queue) + 1 \/ j = Len(queue) + 1
      BY <1>6, <1>7, <1>8, <2>2, <3>1, <3>2
    <3>3. CASE i # Len(queue) + 1 /\ j # Len(queue) + 1
      <4>1. i \in 1..Len(queue) /\ j \in 1..Len(queue)
        BY <1>6, <3>1, <3>3
      <4> QED BY <1>6, <1>7, <2>2, <4>1 DEF IReward, QueueSound
    <3> QED BY <3>2, <3>3
  <2> QED BY <2>1, <2>2 DEF QueueSound
<1>14. Admissions'
  <2>1. \A q \in Request \ {r} : admitting'[q] = admitting[q]
    BY DEF IReward, TypeReward
  <2>2. admitting'[r].pc = "schedule"
    BY DEF IReward, TypeReward
  <2> QED BY <1>5, <2>1, <2>2 DEF IReward, Admissions
<1>15. ASSUME NEW q \in Request
       PROVE  Held(q)' /\ Consistent(q)'
  <2>1. CASE q # r
    BY <1>5, <2>1 DEF IReward, Held, Kept, Owns, Consistent, chain
  <2>2. CASE q = r
    <3>1. Held(r) /\ Consistent(r)
      BY DEF IReward
    <3>2. Held(r)'
      BY <1>2, <1>4, <1>5, <3>1 DEF Held, Kept, Owns, SameDraft
    <3>3. Consistent(r)'
      BY <1>2, <1>4, <1>5, <3>1 DEF Consistent, Over, chain
    <3> QED BY <2>2, <3>2, <3>3
  <2> QED BY <2>1, <2>2
<1> QED BY <1>9, <1>10, <1>11, <1>12, <1>13, <1>14, <1>15, NoneMoves, HandlersSound DEF IReward

\* The transaction of an admission keeps the invariant.
LEMMA AdmitCommitKeeps ==
    ASSUME IReward, NEW r \in Request, AdmitCommit(r)
    PROVE  IReward'
PROOF
<1>1. CASE admitting' = [admitting EXCEPT ![r] = None] /\ UNCHANGED <<rows, queue>>
  <2>1. DOMAIN admitting' = Request /\ \A q \in Request : q # r => admitting'[q] = admitting[q]
    BY <1>1 DEF IReward, TypeReward
  <2>2. admitting'[r] = None
    BY <1>1 DEF IReward, TypeReward
  <2>3. Admissions'
    BY <1>1, <2>1, <2>2 DEF IReward, Admissions
  <2>4. HandlersMove
    BY NoneMoves DEF AdmitCommit
  <2> QED BY <1>1, <2>1, <2>3, <2>4, Unmoved DEF IReward, TypeReward, AdmitCommit, db
<1>2. CASE ~(admitting' = [admitting EXCEPT ![r] = None] /\ UNCHANGED <<rows, queue>>)
  <2>1. /\ Admitting(r, "commit")
        /\ rows' = [rows EXCEPT ![r].status = "accepted", ![r].owner = admitting[r].owner,
                                ![r].version = 1]
        /\ queue' = Append(queue, r)
        /\ admitting' = [admitting EXCEPT ![r] = [pc |-> "schedule"]]
        /\ UNCHANGED <<inputs, cancels, stops, alarm, handler, chain>>
    BY <1>2, Zenon DEF AdmitCommit
  <2> QED BY <2>1, AcceptKeeps
<1> QED BY <1>1, <1>2
-----------------------------------------------------------------------------
(* The steps of the alarm that read the queue.                               *)

\* The first request in the order of acceptance that is not settled yet.
LEMMA FirstBehind ==
    ASSUME IReward, NEW r \in Request, First(Unsettled, r)
    PROVE  rows[r].status \in Unfinished /\ Behind(r)
PROOF
<1>1. PICK j \in DOMAIN queue : queue[j] = r /\ \A i \in 1..(j - 1) : queue[i] \notin Unsettled
  BY DEF First
<1>2. /\ queue \in Seq(Request) /\ Len(queue) \in Nat /\ DOMAIN queue = 1..Len(queue)
      /\ \A i \in 1..Len(queue) : queue[i] \in Request
  BY LenProperties DEF IReward, TypeReward
<1>3. ASSUME NEW i \in DOMAIN queue, NEW k \in DOMAIN queue, i < k, queue[k] = r
      PROVE  rows[queue[i]].status \in Over
  <2>1. k = j
    BY <1>1, <1>3 DEF IReward, QueueSound
  <2>2. i \in 1..(j - 1)
    BY <1>2, <1>3, <2>1
  <2>3. queue[i] \in Request /\ rows[queue[i]].status \notin Unfinished
    BY <1>1, <1>2, <2>2 DEF Unsettled
  <2>4. rows[queue[i]].status # "none" /\ rows[queue[i]] \in RewardRow
    BY <2>3 DEF IReward, QueueSound, TypeReward
  <2>5. rows[queue[i]].status \in Unfinished \cup Over \cup {"none"}
    BY <2>4 DEF RewardRow
  <2> QED BY <2>3, <2>4, <2>5
<1>4. rows[r].status \in Unfinished
  BY DEF First, Unsettled
<1> QED BY <1>3, <1>4 DEF Behind

\* What the alarm takes up is sound.
LEMMA TakeSound ==
    ASSUME NEW r \in Request, rows[r].status # "none", Behind(r)
    PROVE  Take(r) \in Handler /\ HandlerSound("alarm", Take(r))
PROOF
<1>1. Take(r).r = r /\ Take(r).pc \in {"funds", "cancel", "evidence"}
  BY DEF Take
<1>2. Take(r) \in [pc : {"funds", "mark", "sign", "store", "submit", "attempt", "broadcast",
                         "evidence", "cancel", "cancel-sign", "cancel-prepare", "cancel-observe"},
                   r : Request]
  BY DEF Take
<1>3. Take(r) \in Handler
  BY <1>2 DEF Handler
<1> QED BY <1>1, <1>3 DEF HandlerSound, Cancelling

\* The start of the alarm keeps the invariant.
LEMMA AlarmStartKeeps ==
    ASSUME IReward, AlarmStart
    PROVE  IReward'
PROOF
<1>1. [pc |-> "verify"] \in Handler /\ HandlerSound("alarm", [pc |-> "verify"])
  <2>1. [pc |-> "verify"] \in [pc : {"idle", "verify"}]
    OBVIOUS
  <2> QED BY <2>1 DEF Handler, HandlerSound, Cancelling, Ahead, Building
<1>2. /\ UNCHANGED <<db, chain, admitting>> /\ "alarm" \in Thread
      /\ stops' \subseteq Reasons /\ alarm' \in BOOLEAN
  BY DEF IReward, TypeReward, AlarmStart, Thread
<1>3. CASE Continue("alarm", [pc |-> "verify"])
  BY <1>1, <1>2, <1>3, GoesOn
<1>4. CASE UNCHANGED handler
  <2>1. Admissions' /\ DOMAIN admitting' = Request
    BY <1>2 DEF IReward, TypeReward, Admissions, db
  <2> QED BY <1>2, <1>4, <2>1, NoneMoves, Unmoved
<1> QED BY <1>3, <1>4 DEF AlarmStart

Reopened(r) ==
    {q \in Later(r) : rows[q].status \in {"finalized", "received", "processing", "pending", "unknown"}}
    \cup ({r} \cap Cancelled)

\* What a reorganisation reopens becomes unknown, with its reservation held again.
LEMMA Reopens ==
    ASSUME IReward, NEW r \in Request
    PROVE  /\ Reopened(r) \subseteq Request
           /\ \A q \in Reopened(r) :
                 /\ rows[q].status # "none"
                 /\ rows[q].status = "ended" => rows[q].phase = "signature-started"
PROOF
<1>1. queue \in Seq(Request) /\ ToSet(queue) \subseteq Request
  <2>1. queue \in Seq(Request) /\ \A i \in DOMAIN queue : queue[i] \in Request
    BY DEF IReward, TypeReward
  <2> QED BY <2>1 DEF ToSet
<1>2. Reopened(r) \subseteq Request
  BY <1>1 DEF Reopened, Later
<1>3. ASSUME NEW q \in Reopened(r)
      PROVE  /\ rows[q].status # "none"
             /\ rows[q].status = "ended" => rows[q].phase = "signature-started"
  <2>1. rows[q].status = "ended" => q \in Cancelled
    BY <1>3 DEF Reopened
  <2>2. q \in Cancelled => cancels[q].phase # "none" /\ rows[q].status = "ended"
    BY DEF Cancelled
  <2>3. rows[q].status # "none"
    BY <2>2 DEF Reopened
  <2>4. Consistent(q)
    BY <1>2 DEF IReward
  <2> QED BY <2>1, <2>2, <2>3, <2>4 DEF Consistent
<1> QED BY <1>2, <1>3

\* The reopening keeps the invariant: it happens only after a reorganisation.
LEMMA InvalidateKeeps ==
    ASSUME IReward, NEW r \in Request, Invalidate(r), Continue("alarm", Idle),
           UNCHANGED <<alarm, admitting, chain>>, stops' \subseteq Reasons
    PROVE  IReward'
PROOF
<1> DEFINE R == Reopened(r)
           Again(q) == [rows[q] EXCEPT !.status = "unknown", !.version = @ + 1, !.released = FALSE]
<1>1. rows \in [Request -> RewardRow] /\ inputs \in [Coin -> InputRow] /\ R \subseteq Request
  BY Reopens DEF IReward, TypeReward
<1>2. /\ rows' = [q \in Request |-> IF q \in R THEN Again(q) ELSE rows[q]]
      /\ inputs' = [c \in Coin |-> IF inputs[c].holder \in R
                                   THEN [inputs[c] EXCEPT !.status = "unknown"] ELSE inputs[c]]
      /\ UNCHANGED <<queue, cancels>>
  BY DEF Invalidate, Reopened
<1>3. ASSUME NEW q \in Request
      PROVE  /\ Again(q) \in RewardRow
             /\ Again(q).status = "unknown" /\ Again(q).released = FALSE
             /\ Again(q).phase = rows[q].phase /\ SameDraft(Again(q), rows[q])
             /\ Again(q).attempt = rows[q].attempt
  <2>1. rows[q] \in RewardRow
    BY <1>1
  <2>2. rows[q].version + 1 \in Nat
    BY <2>1 DEF RewardRow
  <2>3. Again(q) \in RewardRow
    BY <2>1, <2>2 DEF RewardRow, Unfinished
  <2> QED BY <2>1, <2>3 DEF RewardRow, SameDraft
<1>4. rows' \in [Request -> RewardRow]
  BY <1>1, <1>2, <1>3
<1>5. \A q \in Request : /\ q \in R => rows'[q] = Again(q)
                         /\ q \notin R => rows'[q] = rows[q]
  BY <1>2
<1> HIDE DEF R, Again
<1>6. ASSUME NEW c \in Coin
      PROVE  /\ inputs'[c] \in InputRow /\ inputs'[c].holder = inputs[c].holder
             /\ inputs[c].holder \in R => inputs'[c].status = "unknown"
             /\ inputs[c].holder \notin R => inputs'[c] = inputs[c]
  BY <1>1, <1>2 DEF InputRow
<1>7. inputs' \in [Coin -> InputRow]
  BY <1>2, <1>6
<1>8. \A q \in Request : /\ rows[q].status # "none" => rows'[q].status # "none"
                         /\ rows'[q].attempt = rows[q].attempt /\ SameDraft(rows'[q], rows[q])
                         /\ rows'[q].phase = rows[q].phase
  BY <1>3, <1>5 DEF SameDraft
<1>9. Grows
  BY <1>2, <1>8 DEF Grows, chain
<1>10. handler \in [Thread -> Handler] /\ handler' = [handler EXCEPT !["alarm"] = Idle]
  BY DEF IReward, TypeReward, Continue
<1>11. TypeReward'
  BY <1>2, <1>4, <1>7, <1>10, IdleSound DEF IReward, TypeReward, chain
<1>12. ChainSound'
  <2>1. DraftsKept
    BY <1>2, <1>8 DEF DraftsKept, SameCancel
  <2> QED BY <2>1, ChainKept
<1>13. QueueSound'
  <2>1. \A i \in DOMAIN queue : queue[i] \in Request
    BY DEF IReward, TypeReward
  <2> QED BY <1>2, <1>8, <2>1 DEF IReward, QueueSound
<1>14. Admissions'
  <2>1. \A q \in Request : rows[q].status = "none" => rows'[q].status = "none"
    BY <1>5, Reopens DEF R
  <2> QED BY <2>1 DEF IReward, Admissions
<1>15. ASSUME NEW q \in Request
       PROVE  Held(q)' /\ Consistent(q)'
  <2>1. Held(q) /\ Consistent(q)
    BY DEF IReward
  <2>2. CASE q \in R
    <3>1. rows[q].status = "ended" => rows[q].phase = "signature-started"
      BY <2>2, Reopens DEF R
    <3>2. ASSUME NEW c \in Coin, Owns(q, c)
          PROVE  Owns(q, c)'
      BY <1>6, <2>2, <3>2 DEF Owns, Busy
    <3>3. Held(q)'
      <4>1. Kept(q) \subseteq Coin /\ Kept(q)' = Kept(q)
        BY <1>1, <1>2, <1>8 DEF Kept, SameDraft, RewardRow
      <4> QED BY <1>2, <1>8, <2>1, <3>1, <3>2, <4>1 DEF Held, SameDraft
    <3>4. rows'[q].status = "unknown" /\ rows'[q].released = FALSE
      BY <1>3, <1>5, <2>2
    <3>5. Consistent(q)'
      BY <1>2, <1>8, <2>1, <3>4 DEF Consistent, Over, chain
    <3> QED BY <3>3, <3>5
  <2>3. CASE q \notin R
    <3>1. rows'[q] = rows[q]
      BY <1>5, <2>3
    <3>2. Held(q)'
      <4>1. Kept(q) \subseteq Coin /\ Kept(q)' = Kept(q)
        BY <1>1, <1>2, <3>1 DEF Kept, RewardRow
      <4>2. \A c \in Coin : Owns(q, c) => Owns(q, c)'
        BY <1>6, <2>3 DEF Owns
      <4> QED BY <1>2, <2>1, <3>1, <4>1, <4>2 DEF Held
    <3>3. Consistent(q)'
      BY <1>2, <2>1, <3>1 DEF Consistent, chain
    <3> QED BY <3>2, <3>3
  <2> QED BY <2>2, <2>3
<1>16. ASSUME NEW t \in Thread
       PROVE  HandlerSound(t, handler[t])'
  <2>1. CASE t = "alarm"
    BY <1>10, <2>1, IdleSound
  <2>2. CASE t # "alarm"
    <3>1. PICK h \in Handler : h = handler[t] /\ HandlerSound(t, h)
      BY <1>10 DEF IReward
    <3>2. HandlerSound(t, h)'
      BY <1>9, <2>2, <3>1, HandlerKept DEF HandlerSound
    <3>3. handler'[t] = h
      BY <1>10, <2>2, <3>1
    <3> QED BY <3>2, <3>3
  <2> QED BY <2>1, <2>2
<1> QED BY <1>11, <1>12, <1>13, <1>14, <1>15, <1>16 DEF IReward

\* The verification of final results keeps the invariant.
LEMMA AlarmVerifyKeeps ==
    ASSUME IReward, AlarmVerify
    PROVE  IReward'
PROOF
<1>1. "alarm" \in Thread
  BY DEF Thread
<1>2. CASE Unavailable("alarm")
  BY <1>1, <1>2, Ends DEF EndsQuietly
<1>3. ASSUME NEW r \in Request, Invalidate(r), Continue("alarm", Idle),
             stops' = (stops \ {"rpc-unavailable"}) \cup {"restore-stopped"},
             UNCHANGED <<alarm, admitting, chain>>
      PROVE  IReward'
  <2>1. stops' \subseteq Reasons
    BY <1>3 DEF IReward, TypeReward, Reasons
  <2> QED BY <1>3, <2>1, InvalidateKeeps
<1>4. ASSUME stops' = stops \ {"rpc-unavailable"}, UNCHANGED <<db, alarm, admitting, chain>>,
             \/ \E r \in Request : First(Unsettled, r) /\ Continue("alarm", Take(r))
             \/ Continue("alarm", Idle)
      PROVE  IReward'
  <2>1. stops' \subseteq Reasons /\ alarm' \in BOOLEAN
    BY <1>4 DEF IReward, TypeReward
  <2>2. CASE Continue("alarm", Idle)
    BY <1>1, <1>4, <2>1, <2>2, IdleSound, GoesOn
  <2>3. ASSUME NEW r \in Request, First(Unsettled, r), Continue("alarm", Take(r))
        PROVE  IReward'
    <3>1. rows[r].status # "none" /\ Behind(r)
      BY <2>3, FirstBehind DEF Unfinished
    <3>2. Take(r) \in Handler /\ HandlerSound("alarm", Take(r))
      BY <3>1, TakeSound
    <3> QED BY <1>1, <1>4, <2>1, <2>3, <3>2, GoesOn
  <2> QED BY <1>4, <2>2, <2>3
<1> QED BY <1>2, <1>3, <1>4 DEF AlarmVerify
-----------------------------------------------------------------------------
(* The steps of a distribution.                                              *)

\* The records of the handlers of a distribution.
LEMMA HandlerShapes ==
    ASSUME NEW h \in Handler
    PROVE  /\ h.pc \in Building => h \in [pc : Building, r : Request, coins : SUBSET Coin]
           /\ h.pc \in {"funds", "mark", "sign", "store", "submit", "attempt", "broadcast"}
              => h \in [pc : {"funds", "mark", "sign", "store", "submit", "attempt", "broadcast"},
                        r : Request]
PROOF
<1> QED BY DEF Handler, Building

\* The request a handler is about.
LEMMA Subject ==
    ASSUME IReward, NEW t \in Thread, NEW h \in Handler, h = handler[t],
           h.pc \notin {"idle", "verify"}
    PROVE  /\ h.r \in Request /\ HandlerSound(t, h)
           /\ rows[h.r] \in RewardRow /\ rows[h.r].status # "none"
           /\ Held(h.r) /\ Consistent(h.r)
PROOF
<1>1. h.r \in Request
  BY HandlerTypes
<1>2. HandlerSound(t, h)
  BY DEF IReward
<1> QED BY <1>1, <1>2 DEF IReward, TypeReward, HandlerSound

\* A step that writes one row, and no more.
LEMMA RowWritten ==
    ASSUME IReward, NEW r \in Request, NEW x \in RewardRow,
           rows' = [rows EXCEPT ![r] = x], UNCHANGED <<inputs, queue, cancels, admitting, chain>>,
           rows[r].status # "none", x.status # "none", rows[r].attempt => x.attempt,
           rows[r].status \in Over => x.status \in Over,
           rows[r].phase = "signature-started" => SameDraft(x, rows[r])
    PROVE  Writes(r) /\ rows'[r] = x
PROOF
<1>1. rows'[r] = x
  BY DEF IReward, TypeReward
<1>2. cancels[r] \in CancelRow /\ cancels' = [cancels EXCEPT ![r] = cancels[r]]
  BY DEF IReward, TypeReward
<1>3. inputs' \in [Coin -> InputRow]
  BY DEF IReward, TypeReward
<1> QED BY <1>1, <1>2, <1>3 DEF Writes, SameCancel

\* A place with nothing but a request is a place of a handler.
LEMMA Plain ==
    ASSUME NEW r \in Request,
           NEW pc \in {"funds", "mark", "sign", "store", "submit", "attempt", "broadcast", "evidence",
                       "cancel", "cancel-sign", "cancel-prepare", "cancel-observe"}
    PROVE  [pc |-> pc, r |-> r] \in Handler
PROOF
<1> QED BY DEF Handler

\* The choice of coins keeps the invariant.
LEMMA DispatchFundsKeeps ==
    ASSUME IReward, DispatchFunds
    PROVE  IReward'
PROOF
<1>1. "alarm" \in Thread
  BY DEF Thread
<1>2. PICK h \in Handler : h = handler["alarm"]
  BY <1>1 DEF IReward, TypeReward
<1>3. h.pc = "funds"
  BY <1>2 DEF DispatchFunds, At
<1>4. h.r \in Request /\ HandlerSound("alarm", h)
  BY <1>1, <1>2, <1>3, Subject
<1>5. CASE \/ Unavailable("alarm")
           \/ Selections(h.r) = {} /\ Fail("alarm", "funds-short") /\ NoWrite
  <2>1. "funds-short" \in Reasons
    BY DEF Reasons
  <2> QED BY <1>1, <1>5, <2>1, Ends DEF EndsQuietly
<1>6. ASSUME NEW coins \in Selections(h.r), Continue("alarm", [pc |-> "claim", r |-> h.r, coins |-> coins]),
             UNCHANGED <<alarm, stops>>, NoWrite
      PROVE  IReward'
  <2>1. coins \subseteq Coin
    BY <1>4, SelectionFacts DEF Available
  <2>2. [pc |-> "claim", r |-> h.r, coins |-> coins] \in Handler
    BY <1>4, <2>1 DEF Handler, Building
  <2>3. HandlerSound("alarm", [pc |-> "claim", r |-> h.r, coins |-> coins])
    BY <1>3, <1>4 DEF HandlerSound, Ahead, Building, Cancelling
  <2>4. UNCHANGED <<db, chain, admitting>> /\ stops' \subseteq Reasons /\ alarm' \in BOOLEAN
    BY <1>6 DEF NoWrite, IReward, TypeReward
  <2> QED BY <1>1, <1>6, <2>2, <2>3, <2>4, GoesOn
<1>7. \/ Unavailable("alarm")
      \/ Selections(h.r) = {} /\ Fail("alarm", "funds-short") /\ NoWrite
      \/ /\ \E coins \in Selections(h.r) : Continue("alarm", [pc |-> "claim", r |-> h.r, coins |-> coins])
         /\ UNCHANGED <<alarm, stops>> /\ NoWrite
  BY <1>2, Zenon DEF DispatchFunds
<1>8. CASE /\ \E coins \in Selections(h.r) : Continue("alarm", [pc |-> "claim", r |-> h.r, coins |-> coins])
           /\ UNCHANGED <<alarm, stops>> /\ NoWrite
  <2>1. PICK coins \in Selections(h.r) : Continue("alarm", [pc |-> "claim", r |-> h.r, coins |-> coins])
    BY <1>8
  <2> QED BY <1>6, <1>8, <2>1
<1> QED BY <1>5, <1>7, <1>8

\* The claim of the request keeps the invariant.
LEMMA DispatchClaimKeeps ==
    ASSUME IReward, DispatchClaim
    PROVE  IReward'
PROOF
<1>1. "alarm" \in Thread
  BY DEF Thread
<1>2. PICK h \in Handler : h = handler["alarm"]
  BY <1>1 DEF IReward, TypeReward
<1>3. h.pc = "claim"
  BY <1>2 DEF DispatchClaim, At
<1>4. /\ h.r \in Request /\ HandlerSound("alarm", h)
      /\ rows[h.r] \in RewardRow /\ rows[h.r].status # "none"
      /\ Held(h.r) /\ Consistent(h.r)
  BY <1>1, <1>2, <1>3, Subject
<1>5. CASE \/ Fail("alarm", "operator-stopped") /\ NoWrite
           \/ Done("alarm") /\ NoWrite
  <2>1. "operator-stopped" \in Reasons
    BY DEF Reasons
  <2> QED BY <1>1, <1>5, <2>1, Ends DEF EndsQuietly
<1>6. ASSUME rows[h.r].status = "accepted", rows[h.r].phase = "none",
             rows' = [rows EXCEPT ![h.r].status = "processing", ![h.r].phase = "claimed",
                                  ![h.r].version = @ + 1],
             Continue("alarm", [h EXCEPT !.pc = "build"]),
             UNCHANGED <<queue, inputs, cancels, alarm, stops, admitting, chain>>
      PROVE  IReward'
  <2> DEFINE x == [rows[h.r] EXCEPT !.status = "processing", !.phase = "claimed", !.version = @ + 1]
  <2>1. rows' = [rows EXCEPT ![h.r] = x]
    BY <1>4, <1>6 DEF IReward, TypeReward
  <2>2. rows[h.r].version + 1 \in Nat
    BY <1>4 DEF RewardRow
  <2>3. x \in RewardRow
    BY <1>4, <2>2 DEF RewardRow, Unfinished
  <2>4. /\ x.status = "processing" /\ x.phase = "claimed" /\ x.attempt = rows[h.r].attempt
        /\ x.released = rows[h.r].released /\ SameDraft(x, rows[h.r])
    BY <1>4 DEF RewardRow, SameDraft
  <2> HIDE DEF x
  <2>5. Writes(h.r) /\ rows'[h.r] = x
    <3>1. /\ rows[h.r].status \notin Over /\ rows[h.r].phase # "signature-started"
          /\ x.status # "none" /\ UNCHANGED <<inputs, queue, cancels, admitting, chain>>
      BY <1>6, <2>4 DEF Over
    <3> QED BY <1>4, <2>1, <2>3, <2>4, <3>1, RowWritten
  <2>6. Held(h.r)'
    BY <1>4, <1>6, <2>4, <2>5 DEF Held, SameDraft
  <2>7. Consistent(h.r)'
    BY <1>4, <1>6, <2>4, <2>5 DEF Consistent, Over, chain
  <2>8. HandlerSound("alarm", h)'
    BY <1>1, <1>4, <2>5, WritesFrame, HandlerKept
  <2>9. /\ [h EXCEPT !.pc = "build"] \in Handler
        /\ [h EXCEPT !.pc = "build"].pc = "build" /\ [h EXCEPT !.pc = "build"].r = h.r
    BY <1>3, HandlerShapes DEF Handler, Building
  <2>10. HandlerSound("alarm", [h EXCEPT !.pc = "build"])'
    BY <1>3, <2>8, <2>9 DEF HandlerSound, Ahead, Building, Cancelling
  <2>11. HandlersMove
    BY <1>1, <1>6, <2>9, <2>10, OneMoves
  <2>12. stops' \subseteq Reasons /\ alarm' \in BOOLEAN
    BY <1>6 DEF IReward, TypeReward
  <2> QED BY <1>4, <2>5, <2>6, <2>7, <2>11, <2>12, OneWritten
<1> QED BY <1>2, <1>5, <1>6 DEF DispatchClaim

\* A step of the alarm that only goes on while distribution is not stopped.
LEMMA OnlyGoesOn ==
    ASSUME IReward, NEW h \in Handler, h = handler["alarm"], NEW pc,
           [h EXCEPT !.pc = pc] \in Handler, HandlerSound("alarm", [h EXCEPT !.pc = pc]), NoWrite,
           \/ Fail("alarm", "operator-stopped")
           \/ Continue("alarm", [handler["alarm"] EXCEPT !.pc = pc]) /\ UNCHANGED <<alarm, stops>>
    PROVE  IReward'
PROOF
<1>1. "alarm" \in Thread /\ "operator-stopped" \in Reasons
  BY DEF Thread, Reasons
<1>2. CASE Fail("alarm", "operator-stopped")
  BY <1>1, <1>2, Ends DEF EndsQuietly
<1>3. CASE Continue("alarm", [h EXCEPT !.pc = pc]) /\ UNCHANGED <<alarm, stops>>
  <2>1. UNCHANGED <<db, chain, admitting>> /\ stops' \subseteq Reasons /\ alarm' \in BOOLEAN
    BY <1>3 DEF NoWrite, IReward, TypeReward
  <2> QED BY <1>1, <1>3, <2>1, GoesOn
<1> QED BY <1>2, <1>3

\* The building of the operation keeps the invariant.
LEMMA DispatchBuildKeeps ==
    ASSUME IReward, DispatchBuild
    PROVE  IReward'
PROOF
<1>1. "alarm" \in Thread
  BY DEF Thread
<1>2. PICK h \in Handler : h = handler["alarm"]
  BY <1>1 DEF IReward, TypeReward
<1>3. h.pc = "build"
  BY <1>2 DEF DispatchBuild, At
<1>4. HandlerSound("alarm", h)
  BY <1>1, <1>2, <1>3, Subject
<1>5. /\ [h EXCEPT !.pc = "save"] \in Handler
      /\ [h EXCEPT !.pc = "save"].pc = "save" /\ [h EXCEPT !.pc = "save"].r = h.r
  BY <1>3, HandlerShapes DEF Handler, Building
<1>6. HandlerSound("alarm", [h EXCEPT !.pc = "save"])
  BY <1>3, <1>4, <1>5 DEF HandlerSound, Ahead, Building, Cancelling
<1> QED BY <1>2, <1>5, <1>6, OnlyGoesOn DEF DispatchBuild

\* The draft that is saved reserves coins that were free.
LEMMA DispatchSaveKeeps ==
    ASSUME IReward, DispatchSave
    PROVE  IReward'
PROOF
<1>1. "alarm" \in Thread
  BY DEF Thread
<1>2. PICK h \in Handler : h = handler["alarm"]
  BY <1>1 DEF IReward, TypeReward
<1>3. h.pc = "save"
  BY <1>2 DEF DispatchSave, At
<1>4. /\ h.r \in Request /\ HandlerSound("alarm", h)
      /\ rows[h.r] \in RewardRow /\ rows[h.r].status # "none"
      /\ Held(h.r) /\ Consistent(h.r)
  BY <1>1, <1>2, <1>3, Subject
<1>5. h.coins \subseteq Coin
  BY <1>3, HandlerTypes DEF Building
<1>6. CASE Fail("alarm", "operator-stopped") /\ NoWrite
  <2>1. "operator-stopped" \in Reasons
    BY DEF Reasons
  <2> QED BY <1>1, <1>6, <2>1, Ends DEF EndsQuietly
<1>7. ASSUME rows[h.r].phase = "claimed", rows[h.r].status = "processing",
             \A c \in h.coins : Free(c), NEW d \in h.coins,
             rows' = [rows EXCEPT ![h.r].phase = "draft-saved", ![h.r].version = @ + 1,
                                  ![h.r].coins = h.coins, ![h.r].first = d,
                                  ![h.r].change = WorthOf(h.coins) - RewardAmount[h.r]],
             inputs' = [c \in Coin |-> IF c \in h.coins
                                      THEN [holder |-> h.r, status |-> "reserved"] ELSE inputs[c]],
             Continue("alarm", [pc |-> "mark", r |-> h.r]),
             UNCHANGED <<queue, cancels, alarm, stops, admitting, chain>>
      PROVE  IReward'
  <2> DEFINE rest == WorthOf(h.coins) - RewardAmount[h.r]
             x == [rows[h.r] EXCEPT !.phase = "draft-saved", !.version = @ + 1,
                                    !.coins = h.coins, !.first = d, !.change = rest]
  <2>1. rows' = [rows EXCEPT ![h.r] = x] /\ rows'[h.r] = x
    BY <1>4, <1>7 DEF IReward, TypeReward
  <2>2. rows[h.r].version + 1 \in Nat
    BY <1>4 DEF RewardRow
  <2>3. x \in RewardRow
    <3>1. rest \in Int
      <4>1. WorthOf(h.coins) \in Int /\ RewardAmount[h.r] \in Int
        BY <1>4, <1>5, WorthType, RewardAssumption DEF IReward
      <4> QED BY <4>1
    <3> HIDE DEF rest
    <3> QED BY <1>4, <1>5, <1>7, <2>2, <3>1 DEF RewardRow
  <2>4. /\ x.status = "processing" /\ x.phase = "draft-saved" /\ x.attempt = rows[h.r].attempt
        /\ x.released = rows[h.r].released /\ x.coins = h.coins /\ x.first = d
    BY <1>4, <1>7 DEF RewardRow
  <2> HIDE DEF x, rest
  <2>5. /\ inputs' \in [Coin -> InputRow]
        /\ \A c \in Coin : c \notin h.coins => inputs'[c] = inputs[c]
        /\ \A c \in h.coins : inputs'[c].holder = h.r /\ inputs'[c].status = "reserved"
    <3>1. [holder |-> h.r, status |-> "reserved"] \in InputRow
      BY <1>4 DEF InputRow
    <3> QED BY <1>5, <1>7, <3>1 DEF IReward, TypeReward
  <2>6. cancels[h.r] \in CancelRow /\ cancels' = [cancels EXCEPT ![h.r] = cancels[h.r]]
    BY <1>4, <1>7 DEF IReward, TypeReward
  <2>7. Writes(h.r)
    <3>1. \A c \in Coin : inputs'[c] # inputs[c] => Free(c)
      BY <1>7, <2>5
    <3> QED BY <1>4, <1>7, <2>1, <2>3, <2>4, <2>5, <2>6, <3>1 DEF Writes, SameCancel, Over
  <2>8. cancels'[h.r].phase = "none" /\ cancels'[h.r].checkpoint = None
    BY <1>4, <1>7 DEF Held, Consistent
  <2>9. Held(h.r)'
    BY <1>5, <1>7, <2>1, <2>4, <2>5, <2>8 DEF Held, Kept, Owns, Busy
  <2>10. Consistent(h.r)'
    BY <1>4, <1>7, <2>1, <2>4 DEF Consistent, Over, chain
  <2>11. HandlerSound("alarm", h)'
    BY <1>1, <1>4, <2>7, WritesFrame, HandlerKept
  <2>12. [pc |-> "mark", r |-> h.r] \in Handler
    BY <1>4, Plain
  <2>13. HandlerSound("alarm", [pc |-> "mark", r |-> h.r])'
    BY <1>3, <2>11 DEF HandlerSound, Ahead, Building, Cancelling
  <2>14. HandlersMove
    BY <1>1, <1>7, <2>12, <2>13, OneMoves
  <2>15. stops' \subseteq Reasons /\ alarm' \in BOOLEAN
    BY <1>7 DEF IReward, TypeReward
  <2> QED BY <1>4, <2>7, <2>9, <2>10, <2>14, <2>15, OneWritten
<1>8. \/ Fail("alarm", "operator-stopped") /\ NoWrite
      \/ /\ rows[h.r].phase = "claimed" /\ rows[h.r].status = "processing"
         /\ \A c \in h.coins : Free(c)
         /\ \E d \in h.coins :
               rows' = [rows EXCEPT ![h.r].phase = "draft-saved", ![h.r].version = @ + 1,
                                    ![h.r].coins = h.coins, ![h.r].first = d,
                                    ![h.r].change = WorthOf(h.coins) - RewardAmount[h.r]]
         /\ inputs' = [c \in Coin |-> IF c \in h.coins
                                      THEN [holder |-> h.r, status |-> "reserved"] ELSE inputs[c]]
         /\ Continue("alarm", [pc |-> "mark", r |-> h.r])
         /\ UNCHANGED <<queue, cancels, alarm, stops, admitting, chain>>
  BY <1>2, Zenon DEF DispatchSave
<1> QED BY <1>6, <1>7, <1>8

\* The mark before the signature keeps the invariant.
LEMMA DispatchMarkKeeps ==
    ASSUME IReward, DispatchMark
    PROVE  IReward'
PROOF
<1>1. "alarm" \in Thread /\ "operator-stopped" \in Reasons
  BY DEF Thread, Reasons
<1>2. PICK h \in Handler : h = handler["alarm"]
  BY <1>1 DEF IReward, TypeReward
<1>3. h.pc = "mark"
  BY <1>2 DEF DispatchMark, At
<1>4. /\ h.r \in Request /\ HandlerSound("alarm", h)
      /\ rows[h.r] \in RewardRow /\ rows[h.r].status # "none"
      /\ Held(h.r) /\ Consistent(h.r)
  BY <1>1, <1>2, <1>3, Subject
<1>5. CASE Fail("alarm", "operator-stopped") /\ NoWrite
  BY <1>1, <1>5, Ends DEF EndsQuietly
<1>6. ASSUME rows[h.r].phase = "draft-saved", rows[h.r].status = "processing",
             rows' = [rows EXCEPT ![h.r].phase = "signature-started", ![h.r].version = @ + 1],
             \/ Fail("alarm", "operator-stopped")
             \/ Continue("alarm", [h EXCEPT !.pc = "sign"]) /\ UNCHANGED <<alarm, stops>>,
             UNCHANGED <<queue, inputs, cancels, admitting, chain>>
      PROVE  IReward'
  <2> DEFINE x == [rows[h.r] EXCEPT !.phase = "signature-started", !.version = @ + 1]
  <2>1. rows' = [rows EXCEPT ![h.r] = x]
    BY <1>4, <1>6 DEF IReward, TypeReward
  <2>2. rows[h.r].version + 1 \in Nat
    BY <1>4 DEF RewardRow
  <2>3. x \in RewardRow
    BY <1>4, <2>2 DEF RewardRow
  <2>4. /\ x.status = "processing" /\ x.phase = "signature-started" /\ SameDraft(x, rows[h.r])
        /\ x.released = rows[h.r].released /\ x.attempt = rows[h.r].attempt
    BY <1>4, <1>6 DEF RewardRow, SameDraft
  <2> HIDE DEF x
  <2>5. Writes(h.r) /\ rows'[h.r] = x
    <3>1. /\ rows[h.r].status \notin Over
          /\ x.status # "none" /\ UNCHANGED <<inputs, queue, cancels, admitting, chain>>
      BY <1>6, <2>4 DEF Over
    <3> QED BY <1>4, <2>1, <2>3, <2>4, <3>1, RowWritten
  <2>6. Held(h.r)'
    BY <1>4, <1>6, <2>4, <2>5 DEF Held, Kept, Owns, SameDraft
  <2>7. Consistent(h.r)'
    BY <1>4, <1>6, <2>4, <2>5 DEF Consistent, Over, chain
  <2>8. HandlerSound("alarm", h)'
    BY <1>1, <1>4, <2>5, WritesFrame, HandlerKept
  <2>9. CASE Fail("alarm", "operator-stopped")
    <3>1. HandlersMove /\ stops' \subseteq Reasons /\ alarm' \in BOOLEAN
      BY <1>1, <2>9, FailTypes, IdleSound, OneMoves
    <3> QED BY <1>4, <2>5, <2>6, <2>7, <3>1, OneWritten
  <2>10. CASE Continue("alarm", [h EXCEPT !.pc = "sign"]) /\ UNCHANGED <<alarm, stops>>
    <3>1. /\ [h EXCEPT !.pc = "sign"] \in Handler
          /\ [h EXCEPT !.pc = "sign"].pc = "sign" /\ [h EXCEPT !.pc = "sign"].r = h.r
      BY <1>3, HandlerShapes DEF Handler
    <3>2. HandlerSound("alarm", [h EXCEPT !.pc = "sign"])'
      BY <1>3, <2>8, <3>1 DEF HandlerSound, Ahead, Building, Cancelling
    <3>3. HandlersMove /\ stops' \subseteq Reasons /\ alarm' \in BOOLEAN
      BY <1>1, <2>10, <3>1, <3>2, OneMoves DEF IReward, TypeReward
    <3> QED BY <1>4, <2>5, <2>6, <2>7, <3>3, OneWritten
  <2> QED BY <1>6, <2>9, <2>10
<1>7. \/ Fail("alarm", "operator-stopped") /\ NoWrite
      \/ /\ rows[h.r].phase = "draft-saved" /\ rows[h.r].status = "processing"
         /\ rows' = [rows EXCEPT ![h.r].phase = "signature-started", ![h.r].version = @ + 1]
         /\ \/ Fail("alarm", "operator-stopped")
            \/ Continue("alarm", [h EXCEPT !.pc = "sign"]) /\ UNCHANGED <<alarm, stops>>
         /\ UNCHANGED <<queue, inputs, cancels, admitting, chain>>
  BY <1>2, Zenon DEF DispatchMark
<1> QED BY <1>5, <1>6, <1>7

\* The signature keeps the invariant.
LEMMA DispatchSignKeeps ==
    ASSUME IReward, DispatchSign
    PROVE  IReward'
PROOF
<1>1. "alarm" \in Thread
  BY DEF Thread
<1>2. PICK h \in Handler : h = handler["alarm"]
  BY <1>1 DEF IReward, TypeReward
<1>3. h.pc = "sign"
  BY <1>2 DEF DispatchSign, At
<1>4. HandlerSound("alarm", h)
  BY <1>1, <1>2, <1>3, Subject
<1>5. /\ [h EXCEPT !.pc = "store"] \in Handler
      /\ [h EXCEPT !.pc = "store"].pc = "store" /\ [h EXCEPT !.pc = "store"].r = h.r
  BY <1>3, HandlerShapes DEF Handler
<1>6. HandlerSound("alarm", [h EXCEPT !.pc = "store"])
  BY <1>3, <1>4, <1>5 DEF HandlerSound, Ahead, Building, Cancelling
<1> QED BY <1>2, <1>5, <1>6, OnlyGoesOn DEF DispatchSign

\* The saving of the signature keeps the invariant.
LEMMA DispatchStoreKeeps ==
    ASSUME IReward, DispatchStore
    PROVE  IReward'
PROOF
<1>1. "alarm" \in Thread /\ "operator-stopped" \in Reasons
  BY DEF Thread, Reasons
<1>2. PICK h \in Handler : h = handler["alarm"]
  BY <1>1 DEF IReward, TypeReward
<1>3. h.pc = "store"
  BY <1>2 DEF DispatchStore, At
<1>4. /\ h.r \in Request /\ HandlerSound("alarm", h)
      /\ rows[h.r] \in RewardRow /\ rows[h.r].status # "none"
      /\ Held(h.r) /\ Consistent(h.r)
  BY <1>1, <1>2, <1>3, Subject
<1>5. CASE Fail("alarm", "operator-stopped") /\ NoWrite
  BY <1>1, <1>5, Ends DEF EndsQuietly
<1>6. ASSUME rows[h.r].phase = "signature-started", rows[h.r].status = "processing",
             rows' = [rows EXCEPT ![h.r].signed = TRUE, ![h.r].version = @ + 1],
             Continue("alarm", [h EXCEPT !.pc = "submit"]),
             UNCHANGED <<queue, inputs, cancels, alarm, stops, admitting, chain>>
      PROVE  IReward'
  <2> DEFINE x == [rows[h.r] EXCEPT !.signed = TRUE, !.version = @ + 1]
  <2>1. rows' = [rows EXCEPT ![h.r] = x]
    BY <1>4, <1>6 DEF IReward, TypeReward
  <2>2. rows[h.r].version + 1 \in Nat
    BY <1>4 DEF RewardRow
  <2>3. x \in RewardRow
    BY <1>4, <2>2 DEF RewardRow
  <2>4. /\ x.status = "processing" /\ x.phase = "signature-started" /\ SameDraft(x, rows[h.r])
        /\ x.released = rows[h.r].released /\ x.attempt = rows[h.r].attempt
    BY <1>4, <1>6 DEF RewardRow, SameDraft
  <2> HIDE DEF x
  <2>5. Writes(h.r) /\ rows'[h.r] = x
    <3>1. /\ rows[h.r].status \notin Over
          /\ x.status # "none" /\ UNCHANGED <<inputs, queue, cancels, admitting, chain>>
      BY <1>6, <2>4 DEF Over
    <3> QED BY <1>4, <2>1, <2>3, <2>4, <3>1, RowWritten
  <2>6. Held(h.r)'
    BY <1>4, <1>6, <2>4, <2>5 DEF Held, Kept, Owns, SameDraft
  <2>7. Consistent(h.r)'
    BY <1>4, <1>6, <2>4, <2>5 DEF Consistent, Over, chain
  <2>8. HandlerSound("alarm", h)'
    BY <1>1, <1>4, <2>5, WritesFrame, HandlerKept
  <2>9. /\ [h EXCEPT !.pc = "submit"] \in Handler
        /\ [h EXCEPT !.pc = "submit"].pc = "submit" /\ [h EXCEPT !.pc = "submit"].r = h.r
    BY <1>3, HandlerShapes DEF Handler
  <2>10. HandlerSound("alarm", [h EXCEPT !.pc = "submit"])'
    BY <1>3, <2>8, <2>9 DEF HandlerSound, Ahead, Building, Cancelling
  <2>11. HandlersMove /\ stops' \subseteq Reasons /\ alarm' \in BOOLEAN
    BY <1>1, <1>6, <2>9, <2>10, OneMoves DEF IReward, TypeReward
  <2> QED BY <1>4, <2>5, <2>6, <2>7, <2>11, OneWritten
<1>7. \/ Fail("alarm", "operator-stopped") /\ NoWrite
      \/ /\ rows[h.r].phase = "signature-started" /\ rows[h.r].status = "processing"
         /\ rows' = [rows EXCEPT ![h.r].signed = TRUE, ![h.r].version = @ + 1]
         /\ Continue("alarm", [h EXCEPT !.pc = "submit"])
         /\ UNCHANGED <<queue, inputs, cancels, alarm, stops, admitting, chain>>
  BY <1>2, Zenon DEF DispatchStore
<1> QED BY <1>5, <1>6, <1>7

\* The preparation of the transaction keeps the invariant.
LEMMA SubmitKeeps ==
    ASSUME IReward, Submit
    PROVE  IReward'
PROOF
<1>1. "alarm" \in Thread /\ {"operator-stopped", "rpc-unavailable"} \subseteq Reasons
  BY DEF Thread, Reasons
<1>2. PICK h \in Handler : h = handler["alarm"]
  BY <1>1 DEF IReward, TypeReward
<1>3. h.pc = "submit"
  BY <1>2 DEF Submit, At
<1>4. HandlerSound("alarm", h)
  BY <1>1, <1>2, <1>3, Subject
<1>5. CASE EndsQuietly("alarm")
  BY <1>1, <1>5, Ends
<1>6. CASE Continue("alarm", [h EXCEPT !.pc = "attempt"]) /\ UNCHANGED <<alarm, stops>> /\ NoWrite
  <2>1. /\ [h EXCEPT !.pc = "attempt"] \in Handler
        /\ [h EXCEPT !.pc = "attempt"].pc = "attempt" /\ [h EXCEPT !.pc = "attempt"].r = h.r
    BY <1>3, HandlerShapes DEF Handler
  <2>2. HandlerSound("alarm", [h EXCEPT !.pc = "attempt"])
    BY <1>3, <1>4, <2>1 DEF HandlerSound, Ahead, Building, Cancelling
  <2>3. UNCHANGED <<db, chain, admitting>> /\ stops' \subseteq Reasons /\ alarm' \in BOOLEAN
    BY <1>6 DEF NoWrite, IReward, TypeReward
  <2> QED BY <1>1, <1>6, <2>1, <2>2, <2>3, GoesOn
<1>7. \/ EndsQuietly("alarm")
      \/ Continue("alarm", [h EXCEPT !.pc = "attempt"]) /\ UNCHANGED <<alarm, stops>> /\ NoWrite
  BY <1>1, <1>2, Zenon DEF Submit, EndsQuietly, Reasons
<1> QED BY <1>5, <1>6, <1>7

\* The attempt is saved before it is sent.
LEMMA SaveAttemptKeeps ==
    ASSUME IReward, SaveAttempt
    PROVE  IReward'
PROOF
<1>1. "alarm" \in Thread /\ "operator-stopped" \in Reasons
  BY DEF Thread, Reasons
<1>2. PICK h \in Handler : h = handler["alarm"]
  BY <1>1 DEF IReward, TypeReward
<1>3. h.pc = "attempt"
  BY <1>2 DEF SaveAttempt, At
<1>4. /\ h.r \in Request /\ HandlerSound("alarm", h)
      /\ rows[h.r] \in RewardRow /\ rows[h.r].status # "none"
      /\ Held(h.r) /\ Consistent(h.r)
  BY <1>1, <1>2, <1>3, Subject
<1>5. CASE Fail("alarm", "operator-stopped") /\ NoWrite
  BY <1>1, <1>5, Ends DEF EndsQuietly
<1>6. ASSUME rows[h.r].phase = "signature-started", rows[h.r].status = "processing",
             rows' = [rows EXCEPT ![h.r].attempt = TRUE, ![h.r].status = "pending",
                                  ![h.r].version = @ + 1],
             Continue("alarm", [h EXCEPT !.pc = "broadcast"]),
             UNCHANGED <<queue, inputs, cancels, alarm, stops, admitting, chain>>
      PROVE  IReward'
  <2> DEFINE x == [rows[h.r] EXCEPT !.attempt = TRUE, !.status = "pending", !.version = @ + 1]
  <2>1. rows' = [rows EXCEPT ![h.r] = x]
    BY <1>4, <1>6 DEF IReward, TypeReward
  <2>2. rows[h.r].version + 1 \in Nat
    BY <1>4 DEF RewardRow
  <2>3. x \in RewardRow
    BY <1>4, <2>2 DEF RewardRow, Unfinished
  <2>4. /\ x.status = "pending" /\ x.phase = "signature-started" /\ SameDraft(x, rows[h.r])
        /\ x.released = rows[h.r].released /\ x.attempt = TRUE
    BY <1>4, <1>6 DEF RewardRow, SameDraft
  <2> HIDE DEF x
  <2>5. Writes(h.r) /\ rows'[h.r] = x
    <3>1. /\ rows[h.r].status \notin Over
          /\ x.status # "none" /\ UNCHANGED <<inputs, queue, cancels, admitting, chain>>
      BY <1>6, <2>4 DEF Over
    <3> QED BY <1>4, <2>1, <2>3, <2>4, <3>1, RowWritten
  <2>6. Held(h.r)'
    BY <1>4, <1>6, <2>4, <2>5 DEF Held, Kept, Owns, SameDraft
  <2>7. Consistent(h.r)'
    BY <1>4, <1>6, <2>4, <2>5 DEF Consistent, Over, chain
  <2>8. HandlerSound("alarm", h)'
    BY <1>1, <1>4, <2>5, WritesFrame, HandlerKept
  <2>9. /\ [h EXCEPT !.pc = "broadcast"] \in Handler
        /\ [h EXCEPT !.pc = "broadcast"].pc = "broadcast" /\ [h EXCEPT !.pc = "broadcast"].r = h.r
    BY <1>3, HandlerShapes DEF Handler
  <2>10. HandlerSound("alarm", [h EXCEPT !.pc = "broadcast"])'
    BY <1>3, <2>4, <2>5, <2>8, <2>9 DEF HandlerSound, Ahead, Building, Cancelling
  <2>11. HandlersMove /\ stops' \subseteq Reasons /\ alarm' \in BOOLEAN
    BY <1>1, <1>6, <2>9, <2>10, OneMoves DEF IReward, TypeReward
  <2> QED BY <1>4, <2>5, <2>6, <2>7, <2>11, OneWritten
<1>7. \/ Fail("alarm", "operator-stopped") /\ NoWrite
      \/ /\ rows[h.r].phase = "signature-started" /\ rows[h.r].status = "processing"
         /\ rows' = [rows EXCEPT ![h.r].attempt = TRUE, ![h.r].status = "pending",
                                 ![h.r].version = @ + 1]
         /\ Continue("alarm", [h EXCEPT !.pc = "broadcast"])
         /\ UNCHANGED <<queue, inputs, cancels, alarm, stops, admitting, chain>>
  BY <1>2, Zenon DEF SaveAttempt
<1> QED BY <1>5, <1>6, <1>7

\* A transaction of a request is given to the node.
LEMMA SendKeeps ==
    ASSUME IReward, NEW r \in Request, NEW op \in {Pay(r), Cancel(r)}, Send(op),
           op = Pay(r) => rows[r].attempt /\ rows[r].status # "ended",
           op = Cancel(r) => cancels[r].phase # "none",
           NEW t \in Thread, Done(t), UNCHANGED <<db, admitting, deposited, executed, fork>>
    PROVE  IReward'
PROOF
<1>1. sent' = sent \/ sent' = sent \cup {op}
  BY DEF Send
<1>2. sent' \subseteq Op
  BY <1>1, Operations DEF IReward, TypeReward
<1>3. /\ Continue(t, Idle) /\ stops' \subseteq Reasons /\ alarm' \in BOOLEAN
      /\ HandlersMove
  BY DoneTypes, IdleSound, OneMoves
<1>4. TypeReward'
  BY <1>2, <1>3 DEF IReward, TypeReward, HandlersMove, db
<1>5. ChainSound'
  BY <1>1 DEF IReward, ChainSound, InputsOf, db
<1>6. QueueSound' /\ Admissions'
  BY DEF IReward, QueueSound, Admissions, db
<1>7. ASSUME NEW q \in Request
      PROVE  Held(q)' /\ Consistent(q)'
  <2>1. Held(q) /\ Consistent(q)
    BY DEF IReward
  <2>2. Held(q)'
    BY <2>1 DEF Held, Kept, Owns, db
  <2>3. /\ Pay(q) \in sent' => Pay(q) \in sent \/ (op = Pay(r) /\ q = r)
        /\ Cancel(q) \in sent' => Cancel(q) \in sent \/ (op = Cancel(r) /\ q = r)
    BY <1>1 DEF Pay, Cancel
  <2>4. Consistent(q)'
    BY <2>1, <2>3 DEF Consistent, db
  <2> QED BY <2>2, <2>4
<1>8. Grows /\ Follows
  BY DEF Grows, Follows, db
<1> QED BY <1>3, <1>4, <1>5, <1>6, <1>7, <1>8, HandlersSound DEF IReward

\* What is sent was saved as an attempt.
LEMMA BroadcastKeeps ==
    ASSUME IReward, Broadcast
    PROVE  IReward'
PROOF
<1>1. "alarm" \in Thread /\ "operator-stopped" \in Reasons
  BY DEF Thread, Reasons
<1>2. PICK h \in Handler : h = handler["alarm"]
  BY <1>1 DEF IReward, TypeReward
<1>3. h.pc = "broadcast"
  BY <1>2 DEF Broadcast, At
<1>4. h.r \in Request /\ HandlerSound("alarm", h)
  BY <1>1, <1>2, <1>3, Subject
<1>5. rows[h.r].attempt
  BY <1>3, <1>4 DEF HandlerSound
<1>6. CASE Fail("alarm", "operator-stopped") /\ NoWrite
  BY <1>1, <1>6, Ends DEF EndsQuietly
<1>7. CASE /\ rows[h.r].status \in {"pending", "unknown"}
           /\ Send(Pay(h.r)) /\ Done("alarm") /\ UNCHANGED <<db, admitting, deposited, executed, fork>>
  <2>1. Pay(h.r) # Cancel(h.r)
    BY <1>4, Operations
  <2>2. rows[h.r].status # "ended"
    BY <1>7
  <2> QED BY <1>1, <1>4, <1>5, <1>7, <2>1, <2>2, SendKeeps
<1>8. \/ Fail("alarm", "operator-stopped") /\ NoWrite
      \/ /\ rows[h.r].status \in {"pending", "unknown"}
         /\ Send(Pay(h.r)) /\ Done("alarm") /\ UNCHANGED <<db, admitting, deposited, executed, fork>>
  BY <1>2, Zenon DEF Broadcast
<1> QED BY <1>6, <1>7, <1>8

\* The reading of the evidence keeps the invariant.
LEMMA EvidenceReadKeeps ==
    ASSUME IReward, EvidenceRead
    PROVE  IReward'
PROOF
<1>1. "alarm" \in Thread
  BY DEF Thread
<1>2. PICK h \in Handler : h = handler["alarm"]
  BY <1>1 DEF IReward, TypeReward
<1>3. h.pc = "evidence"
  BY <1>2 DEF EvidenceRead, At
<1>4. h.r \in Request /\ rows[h.r] \in RewardRow /\ rows[h.r].status # "none"
  BY <1>1, <1>2, <1>3, Subject
<1> DEFINE j == [pc |-> "judge", r |-> h.r, version |-> rows[h.r].version,
                 status |-> rows[h.r].status, found |-> executed[Pay(h.r)]]
<1>5. j \in Handler
  <2>1. executed[Pay(h.r)] \in Nat \cup {None}
    BY <1>4, Operations DEF IReward, TypeReward
  <2>2. /\ rows[h.r].version \in Nat
        /\ rows[h.r].status \in Unfinished \cup Over \cup {"none"}
    BY <1>4 DEF RewardRow
  <2>3. j \in [pc : {"judge"}, r : Request, version : Nat,
               status : Unfinished \cup Over \cup {"none"}, found : Nat \cup {None}]
    BY <1>4, <2>1, <2>2
  <2> HIDE DEF j
  <2> QED BY <2>3 DEF Handler
<1>6. HandlerSound("alarm", j)
  <2>1. j.pc = "judge" /\ j.r = h.r
    OBVIOUS
  <2> HIDE DEF j
  <2> QED BY <1>4, <2>1 DEF HandlerSound, Cancelling, Ahead, Building
<1>7. \/ Unavailable("alarm")
      \/ Done("alarm") /\ NoWrite
      \/ Continue("alarm", j) /\ UNCHANGED <<alarm, stops>> /\ NoWrite
  BY <1>2, Zenon DEF EvidenceRead
<1> HIDE DEF j
<1>8. CASE Unavailable("alarm")
  BY <1>1, <1>8, Ends DEF EndsQuietly
<1>9. CASE Done("alarm") /\ NoWrite
  BY <1>1, <1>9, Ends DEF EndsQuietly
<1>10. CASE Continue("alarm", j) /\ UNCHANGED <<alarm, stops>> /\ NoWrite
  <2>1. UNCHANGED <<db, chain, admitting>> /\ stops' \subseteq Reasons /\ alarm' \in BOOLEAN
    BY <1>10 DEF NoWrite, IReward, TypeReward
  <2> QED BY <1>1, <1>5, <1>6, <1>10, <2>1, GoesOn
<1> QED BY <1>7, <1>8, <1>9, <1>10

\* Inputs whose holder is r get the status s.
LEMMA HolderInputs ==
    ASSUME IReward, NEW r \in Request, NEW s \in {"consumed", "released"},
           inputs' = [c \in Coin |-> IF inputs[c].holder = r
                                     THEN [inputs[c] EXCEPT !.status = s] ELSE inputs[c]]
    PROVE  /\ inputs' \in [Coin -> InputRow]
           /\ \A c \in Coin : /\ inputs'[c].holder = inputs[c].holder
                              /\ inputs[c].holder = r => inputs'[c].status = s
                              /\ inputs[c].holder # r => inputs'[c] = inputs[c]
PROOF
<1>1. ASSUME NEW c \in Coin
      PROVE  /\ inputs'[c] \in InputRow /\ inputs'[c].holder = inputs[c].holder
             /\ inputs[c].holder = r => inputs'[c].status = s
             /\ inputs[c].holder # r => inputs'[c] = inputs[c]
  <2>1. inputs[c] \in InputRow
    BY DEF IReward, TypeReward
  <2> QED BY <2>1 DEF InputRow
<1> QED BY <1>1

\* The record of a final payment keeps the invariant.
LEMMA RecordKeeps ==
    ASSUME IReward, NEW r \in Request, NEW found \in Nat,
           rows[r].status \in {"pending", "unknown"},
           rows' = [rows EXCEPT ![r].status = "finalized", ![r].checkpoint = found,
                                ![r].released = TRUE, ![r].version = @ + 1],
           inputs' = [c \in Coin |-> IF inputs[c].holder = r
                                     THEN [inputs[c] EXCEPT !.status = "consumed"] ELSE inputs[c]],
           NEW t \in Thread, Done(t), UNCHANGED <<queue, cancels, admitting, chain>>
    PROVE  IReward'
PROOF
<1>1. rows[r] \in RewardRow /\ Held(r) /\ Consistent(r)
  BY DEF IReward, TypeReward
<1> DEFINE x == [rows[r] EXCEPT !.status = "finalized", !.checkpoint = found,
                                !.released = TRUE, !.version = @ + 1]
<1>2. rows' = [rows EXCEPT ![r] = x] /\ rows'[r] = x
  BY DEF IReward, TypeReward
<1>3. rows[r].version + 1 \in Nat
  BY <1>1 DEF RewardRow
<1>4. x \in RewardRow
  BY <1>1, <1>3 DEF RewardRow, Over
<1>5. /\ x.status = "finalized" /\ x.phase = rows[r].phase /\ SameDraft(x, rows[r])
      /\ x.released = TRUE /\ x.attempt = rows[r].attempt
  BY <1>1 DEF RewardRow, SameDraft
<1> HIDE DEF x
<1>6. /\ inputs' \in [Coin -> InputRow]
      /\ \A c \in Coin : /\ inputs'[c].holder = inputs[c].holder
                         /\ inputs[c].holder = r => inputs'[c].status = "consumed"
                         /\ inputs[c].holder # r => inputs'[c] = inputs[c]
  BY HolderInputs
<1>7. cancels[r] \in CancelRow /\ cancels' = [cancels EXCEPT ![r] = cancels[r]]
  BY DEF IReward, TypeReward
<1>8. Writes(r)
  BY <1>2, <1>4, <1>5, <1>6, <1>7 DEF Writes, SameCancel, Over
<1>9. Held(r)'
  <2>1. Kept(r) \subseteq Coin /\ Kept(r)' = Kept(r)
    BY <1>1, <1>2, <1>5 DEF Kept, SameDraft, RewardRow
  <2>2. \A c \in Coin : Owns(r, c) => Owns(r, c)'
    BY <1>6 DEF Owns, Busy
  <2> QED BY <1>1, <1>2, <1>5, <2>1, <2>2 DEF Held, SameDraft
<1>10. Consistent(r)'
  BY <1>1, <1>2, <1>5 DEF Consistent, Over, chain
<1>11. HandlersMove /\ stops' \subseteq Reasons /\ alarm' \in BOOLEAN
  BY DoneTypes, IdleSound, OneMoves
<1> QED BY <1>8, <1>9, <1>10, <1>11, OneWritten

\* The judgement of the evidence keeps the invariant.
LEMMA EvidenceJudgeKeeps ==
    ASSUME IReward, EvidenceJudge
    PROVE  IReward'
PROOF
<1>1. "alarm" \in Thread
  BY DEF Thread
<1>2. PICK h \in Handler : h = handler["alarm"]
  BY <1>1 DEF IReward, TypeReward
<1>3. h.pc = "judge"
  BY <1>2 DEF EvidenceJudge, At
<1>4. /\ h.r \in Request /\ rows[h.r] \in RewardRow /\ rows[h.r].status # "none"
      /\ Consistent(h.r) /\ h.found \in Nat \cup {None}
  BY <1>1, <1>2, <1>3, Subject, HandlerTypes
<1> DEFINE next == IF h.status = "processing"
                   THEN IF rows[h.r].signed THEN "submit" ELSE "idle"
                   ELSE IF rows[h.r].attempt THEN "broadcast" ELSE "idle"
<1>5. \/ Done("alarm") /\ NoWrite
      \/ /\ h.found # None /\ RecordCurrent(h)
         /\ rows' = [rows EXCEPT ![h.r].status = "finalized", ![h.r].checkpoint = h.found,
                                 ![h.r].released = TRUE, ![h.r].version = @ + 1]
         /\ inputs' = [c \in Coin |-> IF inputs[c].holder = h.r
                                      THEN [inputs[c] EXCEPT !.status = "consumed"] ELSE inputs[c]]
         /\ Done("alarm")
         /\ UNCHANGED <<queue, cancels, admitting, chain, disturbances>>
      \/ /\ next # "idle" /\ Continue("alarm", [pc |-> next, r |-> h.r])
         /\ UNCHANGED <<alarm, stops>> /\ NoWrite
  BY <1>2, Zenon DEF EvidenceJudge
<1>6. CASE Done("alarm") /\ NoWrite
  BY <1>1, <1>6, Ends DEF EndsQuietly
<1>7. CASE /\ h.found # None /\ RecordCurrent(h)
           /\ rows' = [rows EXCEPT ![h.r].status = "finalized", ![h.r].checkpoint = h.found,
                                   ![h.r].released = TRUE, ![h.r].version = @ + 1]
           /\ inputs' = [c \in Coin |-> IF inputs[c].holder = h.r
                                        THEN [inputs[c] EXCEPT !.status = "consumed"]
                                        ELSE inputs[c]]
           /\ Done("alarm")
           /\ UNCHANGED <<queue, cancels, admitting, chain, disturbances>>
  <2>1. rows[h.r].status \in {"pending", "unknown"} /\ h.found \in Nat
    BY <1>4, <1>7 DEF RecordCurrent
  <2> QED BY <1>1, <1>4, <1>7, <2>1, RecordKeeps
<1>8. CASE /\ next # "idle" /\ Continue("alarm", [pc |-> next, r |-> h.r])
           /\ UNCHANGED <<alarm, stops>> /\ NoWrite
  <2>1. next \in {"submit", "broadcast"} /\ (next = "broadcast" => rows[h.r].attempt)
    BY <1>8
  <2> HIDE DEF next
  <2>2. [pc |-> next, r |-> h.r] \in Handler
    BY <1>4, <2>1, Plain
  <2>3. HandlerSound("alarm", [pc |-> next, r |-> h.r])
    BY <1>4, <2>1 DEF HandlerSound, Cancelling, Ahead, Building
  <2>4. UNCHANGED <<db, chain, admitting>> /\ stops' \subseteq Reasons /\ alarm' \in BOOLEAN
    BY <1>8 DEF NoWrite, IReward, TypeReward
  <2> QED BY <1>1, <1>8, <2>2, <2>3, <2>4, GoesOn
<1> HIDE DEF next
<1> QED BY <1>5, <1>6, <1>7, <1>8
-----------------------------------------------------------------------------
(* The steps of a cancellation, the alarm's or an operator's.                *)

\* A step that only tells the handler where to go on.
LEMMA GoesTo ==
    ASSUME IReward, NEW t \in Thread, NEW r \in Request, rows[r].status # "none",
           NEW pc \in {"evidence", "cancel", "cancel-sign", "cancel-prepare", "cancel-observe"},
           pc \in Cancelling => cancels[r].phase # "none",
           Continue(t, [pc |-> pc, r |-> r]), UNCHANGED <<db, chain, admitting, alarm, stops>>
    PROVE  IReward'
PROOF
<1>1. [pc |-> pc, r |-> r] \in Handler
  BY Plain
<1>2. HandlerSound(t, [pc |-> pc, r |-> r])
  BY DEF HandlerSound, Cancelling, Ahead, Building
<1>3. stops' \subseteq Reasons /\ alarm' \in BOOLEAN
  BY DEF IReward, TypeReward
<1> QED BY <1>1, <1>2, <1>3, GoesOn

\* A step that saves how far the cancellation is.
LEMMA PhaseKeeps ==
    ASSUME IReward, NEW t \in Thread, NEW r \in Request, rows[r].status # "none",
           rows[r].phase = "signature-started",
           NEW y \in CancelRow, y.phase # "none", y.checkpoint = cancels[r].checkpoint,
           cancels[r].phase = "none" => y.input = rows[r].first,
           cancels[r].phase # "none" => SameCancel(y, cancels[r]),
           cancels' = [cancels EXCEPT ![r] = y],
           NEW pc \in {"cancel-sign", "cancel-prepare", "cancel-observe"},
           Continue(t, [pc |-> pc, r |-> r]),
           UNCHANGED <<rows, queue, inputs, alarm, stops, admitting, chain>>
    PROVE  IReward'
PROOF
<1>1. cancels'[r] = y
  BY DEF IReward, TypeReward
<1>2. rows[r] \in RewardRow /\ rows' = [rows EXCEPT ![r] = rows[r]]
  BY DEF IReward, TypeReward
<1>3. inputs' \in [Coin -> InputRow]
  BY DEF IReward, TypeReward
<1>4. Writes(r)
  BY <1>1, <1>2, <1>3 DEF Writes, SameDraft
<1>5. Held(r)'
  <2>1. Held(r) /\ rows'[r] = rows[r] /\ inputs' = inputs /\ rows[r].coins \subseteq Coin
    BY <1>2 DEF IReward, RewardRow
  <2>2. Kept(r)' = Kept(r)
    BY <1>1, <2>1 DEF Held, Kept, SameCancel
  <2>3. y.input \in rows[r].coins
    BY <2>1 DEF Held, SameCancel
  <2> QED BY <1>1, <2>1, <2>2, <2>3 DEF Held, Owns
<1>6. Consistent(r)'
  BY <1>1 DEF IReward, Consistent, chain
<1>7. [pc |-> pc, r |-> r] \in Handler
  BY Plain
<1>8. HandlerSound(t, [pc |-> pc, r |-> r])'
  BY <1>1 DEF HandlerSound, Cancelling, Ahead, Building
<1>9. HandlersMove /\ stops' \subseteq Reasons /\ alarm' \in BOOLEAN
  BY <1>7, <1>8, OneMoves DEF IReward, TypeReward
<1> QED BY <1>4, <1>5, <1>6, <1>9, OneWritten

\* The beginning of a cancellation keeps the invariant.
LEMMA CancelEnterKeeps ==
    ASSUME IReward, NEW t \in Thread, CancelEnter(t)
    PROVE  IReward'
PROOF
<1>1. {"operator-stopped", "rpc-unavailable"} \subseteq Reasons
  BY DEF Reasons
<1>2. PICK h \in Handler : h = handler[t]
  BY DEF IReward, TypeReward
<1>3. h.pc = "cancel"
  BY <1>2 DEF CancelEnter, At
<1>4. h.r \in Request /\ rows[h.r].status # "none"
  BY <1>2, <1>3, Subject
<1>5. \/ EndsQuietly(t)
      \/ /\ cancels[h.r].phase # "none"
         /\ Continue(t, Resumed(h.r)) /\ UNCHANGED <<alarm, stops>> /\ NoWrite
      \/ /\ rows[h.r].phase = "signature-started" /\ cancels[h.r].phase = "none"
         /\ cancels' = [cancels EXCEPT ![h.r].phase = "signature-started",
                                       ![h.r].input = rows[h.r].first,
                                       ![h.r].amount = Worth(rows[h.r].first)]
         /\ Continue(t, [pc |-> "cancel-sign", r |-> h.r])
         /\ UNCHANGED <<rows, queue, inputs, alarm, stops, admitting, chain>>
  BY <1>1, <1>2, Zenon DEF CancelEnter, EndsQuietly, Reasons
<1>6. CASE EndsQuietly(t)
  BY <1>6, Ends
<1>7. CASE /\ cancels[h.r].phase # "none"
           /\ Continue(t, Resumed(h.r)) /\ UNCHANGED <<alarm, stops>> /\ NoWrite
  <2>1. cancels[h.r].phase \in {"signature-started", "signed", "raw-saved"}
    BY <1>4, <1>7 DEF IReward, TypeReward, CancelRow
  <2>2. PICK pc \in {"cancel-sign", "cancel-prepare", "cancel-observe"} :
              Resumed(h.r) = [pc |-> pc, r |-> h.r]
    BY <2>1 DEF Resumed
  <2>3. UNCHANGED <<db, chain, admitting, alarm, stops>>
    BY <1>7 DEF NoWrite
  <2>4. Continue(t, [pc |-> pc, r |-> h.r])
    BY <1>7, <2>2
  <2> QED BY <1>4, <1>7, <2>3, <2>4, GoesTo
<1>8. CASE /\ rows[h.r].phase = "signature-started" /\ cancels[h.r].phase = "none"
           /\ cancels' = [cancels EXCEPT ![h.r].phase = "signature-started",
                                         ![h.r].input = rows[h.r].first,
                                         ![h.r].amount = Worth(rows[h.r].first)]
           /\ Continue(t, [pc |-> "cancel-sign", r |-> h.r])
           /\ UNCHANGED <<rows, queue, inputs, alarm, stops, admitting, chain>>
  <2> DEFINE amount == Worth(rows[h.r].first)
             y == [cancels[h.r] EXCEPT !.phase = "signature-started", !.input = rows[h.r].first,
                                       !.amount = amount]
  <2>1. cancels[h.r] \in CancelRow /\ cancels' = [cancels EXCEPT ![h.r] = y]
    BY <1>4, <1>8 DEF IReward, TypeReward
  <2>2. rows[h.r].first \in Coin
    BY <1>4, <1>8 DEF IReward, TypeReward, RewardRow, Held
  <2>3. amount \in Int
    BY <2>2, WorthType DEF IReward
  <2> HIDE DEF amount
  <2>4. /\ y \in CancelRow /\ y.phase # "none"
        /\ y.input = rows[h.r].first /\ y.checkpoint = cancels[h.r].checkpoint
    BY <2>1, <2>2, <2>3 DEF CancelRow
  <2> HIDE DEF y
  <2> QED BY <1>4, <1>8, <2>1, <2>4, PhaseKeeps
<1> QED BY <1>5, <1>6, <1>7, <1>8

\* The signature of a cancellation keeps the invariant.
LEMMA CancelSignKeeps ==
    ASSUME IReward, NEW t \in Thread, CancelSign(t)
    PROVE  IReward'
PROOF
<1>1. PICK h \in Handler : h = handler[t]
  BY DEF IReward, TypeReward
<1>2. h.pc = "cancel-sign"
  BY <1>1 DEF CancelSign, At
<1>3. h.r \in Request /\ rows[h.r].status # "none" /\ HandlerSound(t, h) /\ Consistent(h.r)
  BY <1>1, <1>2, Subject
<1>4. cancels[h.r].phase # "none" /\ rows[h.r].phase = "signature-started"
  BY <1>2, <1>3 DEF HandlerSound, Cancelling, Consistent
<1> DEFINE y == [cancels[h.r] EXCEPT !.phase = IF @ = "signature-started" THEN "signed" ELSE @]
<1>5. cancels[h.r] \in CancelRow /\ cancels' = [cancels EXCEPT ![h.r] = y]
  BY <1>1, <1>3 DEF IReward, TypeReward, CancelSign
<1>6. y \in CancelRow /\ y.phase # "none" /\ SameCancel(y, cancels[h.r])
      /\ y.checkpoint = cancels[h.r].checkpoint
  BY <1>4, <1>5 DEF CancelRow, SameCancel
<1> HIDE DEF y
<1>7. PICK pc \in {"cancel-prepare", "cancel-observe"} : Continue(t, [pc |-> pc, r |-> h.r])
  BY <1>1 DEF CancelSign
<1>8. UNCHANGED <<rows, queue, inputs, alarm, stops, admitting, chain>>
  BY DEF CancelSign
<1> QED BY <1>3, <1>4, <1>5, <1>6, <1>7, <1>8, PhaseKeeps

\* So does the discovery that the payment was final.
LEMMA OriginalFinalizedKeeps ==
    ASSUME IReward, NEW t \in Thread, OriginalFinalized(t), handler[t].pc \in Cancelling
    PROVE  IReward'
PROOF
<1>1. PICK h \in Handler : h = handler[t]
  BY DEF IReward, TypeReward
<1>2. h.r \in Request /\ rows[h.r].status # "none"
  BY <1>1, Subject DEF Cancelling
<1>3. UNCHANGED <<db, chain, admitting, alarm, stops>>
  BY DEF OriginalFinalized, NoWrite
<1>4. CASE Continue(t, [pc |-> "evidence", r |-> h.r])
  BY <1>2, <1>3, <1>4, GoesTo DEF Cancelling
<1>5. CASE Continue(t, Idle)
  BY <1>3, <1>5, IdleSound, GoesOn DEF IReward, TypeReward
<1>6. Continue(t, [pc |-> "evidence", r |-> h.r]) \/ Continue(t, Idle)
  BY <1>1 DEF OriginalFinalized
<1> QED BY <1>4, <1>5, <1>6

\* The preparation of the cancellation keeps the invariant.
LEMMA CancelPrepareKeeps ==
    ASSUME IReward, NEW t \in Thread, CancelPrepare(t)
    PROVE  IReward'
PROOF
<1>1. PICK h \in Handler : h = handler[t]
  BY DEF IReward, TypeReward
<1>2. h.pc = "cancel-prepare"
  BY <1>1 DEF CancelPrepare, At
<1>3. h.r \in Request /\ rows[h.r].status # "none" /\ HandlerSound(t, h) /\ Consistent(h.r)
  BY <1>1, <1>2, Subject
<1>4. rows[h.r].phase = "signature-started" /\ cancels[h.r].phase # "none"
  BY <1>2, <1>3 DEF HandlerSound, Cancelling, Consistent
<1>5. \/ EndsQuietly(t)
      \/ OriginalFinalized(t)
      \/ /\ cancels' = [cancels EXCEPT ![h.r].phase = "raw-saved"]
         /\ Continue(t, [pc |-> "cancel-observe", r |-> h.r])
         /\ UNCHANGED <<rows, queue, inputs, alarm, stops, admitting, chain>>
  BY <1>1, Zenon DEF CancelPrepare, EndsQuietly, Reasons
<1>6. CASE EndsQuietly(t)
  BY <1>6, Ends
<1>7. CASE OriginalFinalized(t)
  BY <1>1, <1>2, <1>7, OriginalFinalizedKeeps DEF Cancelling
<1>8. CASE /\ cancels' = [cancels EXCEPT ![h.r].phase = "raw-saved"]
           /\ Continue(t, [pc |-> "cancel-observe", r |-> h.r])
           /\ UNCHANGED <<rows, queue, inputs, alarm, stops, admitting, chain>>
  <2> DEFINE y == [cancels[h.r] EXCEPT !.phase = "raw-saved"]
  <2>1. cancels[h.r] \in CancelRow /\ cancels' = [cancels EXCEPT ![h.r] = y]
    BY <1>3, <1>8 DEF IReward, TypeReward
  <2>2. y \in CancelRow /\ y.phase # "none" /\ SameCancel(y, cancels[h.r])
        /\ y.checkpoint = cancels[h.r].checkpoint
    BY <2>1 DEF CancelRow, SameCancel
  <2> HIDE DEF y
  <2> QED BY <1>3, <1>4, <1>8, <2>1, <2>2, PhaseKeeps
<1> QED BY <1>5, <1>6, <1>7, <1>8

\* The observation of the cancellation keeps the invariant.
LEMMA CancelObserveKeeps ==
    ASSUME IReward, NEW t \in Thread, CancelObserve(t)
    PROVE  IReward'
PROOF
<1>1. PICK h \in Handler : h = handler[t]
  BY DEF IReward, TypeReward
<1>2. h.pc = "cancel-observe"
  BY <1>1 DEF CancelObserve, At
<1>3. h.r \in Request /\ rows[h.r].status # "none" /\ HandlerSound(t, h)
  BY <1>1, <1>2, Subject
<1>4. cancels[h.r].phase # "none"
  BY <1>2, <1>3 DEF HandlerSound, Cancelling
<1> DEFINE e == [pc |-> "cancel-end", r |-> h.r, found |-> executed[Cancel(h.r)]]
<1>5. \/ EndsQuietly(t)
      \/ OriginalFinalized(t)
      \/ /\ executed[Cancel(h.r)] # None
         /\ Continue(t, e) /\ UNCHANGED <<alarm, stops>> /\ NoWrite
      \/ /\ Send(Cancel(h.r)) /\ Done(t)
         /\ UNCHANGED <<db, admitting, deposited, executed, fork>>
  BY <1>1, Zenon DEF CancelObserve, EndsQuietly, Reasons
<1>6. CASE EndsQuietly(t)
  BY <1>6, Ends
<1>7. CASE OriginalFinalized(t)
  BY <1>1, <1>2, <1>7, OriginalFinalizedKeeps DEF Cancelling
<1>8. CASE /\ executed[Cancel(h.r)] # None
           /\ Continue(t, e) /\ UNCHANGED <<alarm, stops>> /\ NoWrite
  <2>1. executed[Cancel(h.r)] \in Nat
    BY <1>3, <1>8, Operations DEF IReward, TypeReward
  <2>2. e \in [pc : {"cancel-end"}, r : Request, found : Nat]
    BY <1>3, <2>1
  <2>3. e.pc = "cancel-end" /\ e.r = h.r
    OBVIOUS
  <2> HIDE DEF e
  <2>4. e \in Handler
    BY <2>2 DEF Handler
  <2>5. HandlerSound(t, e)
    BY <1>3, <1>4, <1>8, <2>3 DEF HandlerSound, Ahead, Building
  <2>6. UNCHANGED <<db, chain, admitting>> /\ stops' \subseteq Reasons /\ alarm' \in BOOLEAN
    BY <1>8 DEF NoWrite, IReward, TypeReward
  <2> QED BY <1>8, <2>4, <2>5, <2>6, GoesOn
<1>9. CASE /\ Send(Cancel(h.r)) /\ Done(t)
           /\ UNCHANGED <<db, admitting, deposited, executed, fork>>
  <2>1. Pay(h.r) # Cancel(h.r)
    BY <1>3, Operations
  <2> QED BY <1>3, <1>4, <1>9, <2>1, SendKeeps
<1> HIDE DEF e
<1> QED BY <1>5, <1>6, <1>7, <1>8, <1>9

\* A request ends by a cancellation only when that is final.
LEMMA CancelEndKeeps ==
    ASSUME IReward, NEW t \in Thread, CancelEnd(t)
    PROVE  IReward'
PROOF
<1>1. PICK h \in Handler : h = handler[t]
  BY DEF IReward, TypeReward
<1>2. h.pc = "cancel-end"
  BY <1>1 DEF CancelEnd, At
<1>3. /\ h.r \in Request /\ rows[h.r] \in RewardRow /\ rows[h.r].status # "none"
      /\ HandlerSound(t, h) /\ Held(h.r) /\ Consistent(h.r) /\ h.found \in Nat
  BY <1>1, <1>2, Subject, HandlerTypes
<1>4. cancels[h.r].phase # "none" /\ rows[h.r].phase = "signature-started"
  BY <1>2, <1>3 DEF HandlerSound, Cancelling, Consistent
<1>5. CASE Fail(t, "operator-stopped") /\ NoWrite
  BY <1>5, Ends DEF EndsQuietly, Reasons
<1>6. ASSUME rows[h.r].status \in {"pending", "unknown", "processing"},
             rows' = [rows EXCEPT ![h.r].status = "ended", ![h.r].released = TRUE,
                                  ![h.r].version = @ + 1],
             inputs' = [c \in Coin |-> IF c = cancels[h.r].input \/ inputs[c].holder = h.r
                                      THEN [inputs[c] EXCEPT !.status = SettledInput(h.r, c)]
                                      ELSE inputs[c]],
             cancels' = [cancels EXCEPT ![h.r].checkpoint = h.found],
             Done(t),
             UNCHANGED <<queue, admitting, chain>>
      PROVE  IReward'
  <2> DEFINE x == [rows[h.r] EXCEPT !.status = "ended", !.released = TRUE, !.version = @ + 1]
             y == [cancels[h.r] EXCEPT !.checkpoint = h.found]
             input == cancels[h.r].input
  <2>1. rows' = [rows EXCEPT ![h.r] = x] /\ rows'[h.r] = x
    BY <1>3, <1>6 DEF IReward, TypeReward
  <2>2. rows[h.r].version + 1 \in Nat
    BY <1>3 DEF RewardRow
  <2>3. x \in RewardRow
    BY <1>3, <2>2 DEF RewardRow, Over
  <2>4. /\ x.status = "ended" /\ x.phase = "signature-started" /\ SameDraft(x, rows[h.r])
        /\ x.released = TRUE /\ x.attempt = rows[h.r].attempt
    BY <1>3, <1>4 DEF RewardRow, SameDraft
  <2>5. /\ cancels[h.r] \in CancelRow
        /\ cancels' = [cancels EXCEPT ![h.r] = y] /\ cancels'[h.r] = y
    BY <1>3, <1>6 DEF IReward, TypeReward
  <2>6. /\ y \in CancelRow /\ y.phase = cancels[h.r].phase /\ SameCancel(y, cancels[h.r])
        /\ y.checkpoint # None
    BY <1>3, <2>5, RewardAssumption DEF CancelRow, SameCancel
  <2>7. input \in rows[h.r].coins /\ input \in Coin /\ Owns(h.r, input)
    <3>1. input \in rows[h.r].coins /\ rows[h.r].coins \subseteq Coin
      BY <1>3, <1>4 DEF Held, RewardRow
    <3>2. input \in Kept(h.r)
      BY <3>1 DEF Kept
    <3> QED BY <1>3, <1>4, <3>1, <3>2 DEF Held
  <2> HIDE DEF x, y
  <2>8. ASSUME NEW c \in Coin
        PROVE  /\ inputs'[c] \in InputRow
               /\ c = input => inputs'[c].holder = h.r /\ inputs'[c].status = "consumed"
               /\ inputs'[c] # inputs[c] => inputs[c].holder = h.r
    <3> DEFINE i == [inputs[c] EXCEPT !.status = SettledInput(h.r, c)]
    <3>1. inputs[c] \in InputRow
      BY DEF IReward, TypeReward
    <3>2. SettledInput(h.r, c) \in {"consumed", "released"} /\ SettledInput(h.r, input) = "consumed"
      BY DEF SettledInput
    <3>3. i \in InputRow /\ i.holder = inputs[c].holder /\ i.status = SettledInput(h.r, c)
      BY <3>1, <3>2 DEF InputRow
    <3>4. inputs'[c] = IF c = input \/ inputs[c].holder = h.r THEN i ELSE inputs[c]
      BY <1>6
    <3> HIDE DEF i, input
    <3> QED BY <2>7, <3>1, <3>2, <3>3, <3>4 DEF Owns
  <2>9. inputs' \in [Coin -> InputRow]
    BY <1>6, <2>8
  <2>10. Writes(h.r)
    BY <1>3, <1>6, <2>1, <2>3, <2>4, <2>5, <2>6, <2>8, <2>9 DEF Writes, Over
  <2>11. Held(h.r)'
    <3>1. cancels'[h.r].checkpoint # None /\ cancels'[h.r].input = input /\ cancels'[h.r].phase # "none"
      BY <1>4, <2>5, <2>6 DEF SameCancel
    <3>2. Kept(h.r)' \subseteq {input}
      BY <3>1 DEF Kept
    <3>3. inputs'[input].holder = h.r /\ inputs'[input].status \in Busy
      BY <2>7, <2>8 DEF Busy
    <3>4. rows'[h.r].coins = rows[h.r].coins /\ rows'[h.r].first = rows[h.r].first
      BY <2>1, <2>4 DEF SameDraft
    <3> HIDE DEF input
    <3>5. \A c \in Kept(h.r)' : Owns(h.r, c)'
      BY <3>2, <3>3 DEF Owns
    <3> QED BY <2>7, <3>1, <3>4, <3>5, <1>3, <1>4 DEF Held
  <2>12. fork = 0 => executed[Cancel(h.r)] # None
    BY <1>2, <1>3 DEF HandlerSound
  <2>13. Consistent(h.r)'
    BY <1>3, <1>6, <2>1, <2>4, <2>5, <2>6, <2>12 DEF Consistent, Over, chain
  <2>14. HandlersMove /\ stops' \subseteq Reasons /\ alarm' \in BOOLEAN
    BY <1>6, DoneTypes, IdleSound, OneMoves
  <2> QED BY <1>3, <2>10, <2>11, <2>13, <2>14, OneWritten
<1>7. CASE ~(Fail(t, "operator-stopped") /\ NoWrite)
  <2>1. /\ rows[h.r].status \in {"pending", "unknown", "processing"}
        /\ rows' = [rows EXCEPT ![h.r].status = "ended", ![h.r].released = TRUE,
                                ![h.r].version = @ + 1]
        /\ inputs' = [c \in Coin |-> IF c = cancels[h.r].input \/ inputs[c].holder = h.r
                                     THEN [inputs[c] EXCEPT !.status = SettledInput(h.r, c)]
                                     ELSE inputs[c]]
        /\ cancels' = [cancels EXCEPT ![h.r].checkpoint = h.found]
        /\ Done(t)
        /\ UNCHANGED <<queue, admitting, chain>>
    BY <1>1, <1>7, Zenon DEF CancelEnd
  <2> QED BY <1>6, <2>1
<1> QED BY <1>5, <1>7
-----------------------------------------------------------------------------
(* The owners, the operators, restarts and the chain.                        *)

\* The confirmation of receipt keeps the invariant.
LEMMA ReceiveKeeps ==
    ASSUME IReward, NEW r \in Request, Receive(r)
    PROVE  IReward'
PROOF
<1>1. rows[r] \in RewardRow /\ Held(r) /\ Consistent(r)
  BY DEF IReward, TypeReward
<1> DEFINE x == [rows[r] EXCEPT !.status = "received", !.version = @ + 1]
<1>2. rows[r].status = "finalized" /\ rows' = [rows EXCEPT ![r] = x]
  BY DEF IReward, TypeReward, Receive
<1>3. rows[r].version + 1 \in Nat
  BY <1>1 DEF RewardRow
<1>4. x \in RewardRow
  BY <1>1, <1>3 DEF RewardRow, Over
<1>5. /\ x.status = "received" /\ x.phase = rows[r].phase /\ SameDraft(x, rows[r])
      /\ x.released = rows[r].released /\ x.attempt = rows[r].attempt
  BY <1>1 DEF RewardRow, SameDraft
<1> HIDE DEF x
<1>6. UNCHANGED <<inputs, queue, cancels, stops, alarm, admitting, handler, chain>>
  BY DEF Receive
<1>7. Writes(r) /\ rows'[r] = x
  <2>1. x.status # "none" /\ x.status \in Over
    BY <1>5 DEF Over
  <2> QED BY <1>2, <1>4, <1>5, <1>6, <2>1, RowWritten
<1>8. Held(r)'
  BY <1>1, <1>2, <1>5, <1>6, <1>7 DEF Held, Kept, Owns, SameDraft
<1>9. Consistent(r)'
  BY <1>1, <1>2, <1>5, <1>6, <1>7 DEF Consistent, Over, chain
<1> QED BY <1>6, <1>7, <1>8, <1>9, NoneMoves, OneWritten DEF IReward, TypeReward

\* A step that writes no records and leaves the handlers and the chain alone.
LEMMA FlagsKeep ==
    ASSUME IReward, UNCHANGED <<db, admitting, handler, chain>>,
           stops' \subseteq Reasons, alarm' \in BOOLEAN
    PROVE  IReward'
PROOF
<1>1. DOMAIN admitting' = Request /\ Admissions'
  BY DEF IReward, TypeReward, Admissions, db
<1> QED BY <1>1, NoneMoves, Unmoved

\* A request ends without a signature only when nothing of it was sent.
LEMMA EndUnsignedKeeps ==
    ASSUME IReward, NEW r \in Request, EndUnsigned(r)
    PROVE  IReward'
PROOF
<1>1. rows[r] \in RewardRow /\ Held(r) /\ Consistent(r)
  BY DEF IReward, TypeReward
<1>2. alarm' = TRUE /\ UNCHANGED <<queue, cancels, stops, admitting, handler, chain>>
  BY DEF EndUnsigned
<1>3. CASE UNCHANGED <<rows, inputs>>
  BY <1>2, <1>3, FlagsKeep DEF IReward, TypeReward, db
<1>4. CASE /\ Unsigned(r)
           /\ rows' = [rows EXCEPT ![r].status = "ended", ![r].released = TRUE,
                                   ![r].version = @ + 1]
           /\ inputs' = [c \in Coin |-> IF inputs[c].holder = r
                                        THEN [inputs[c] EXCEPT !.status = "released"]
                                        ELSE inputs[c]]
  <2> DEFINE x == [rows[r] EXCEPT !.status = "ended", !.released = TRUE, !.version = @ + 1]
  <2>1. rows' = [rows EXCEPT ![r] = x] /\ rows'[r] = x
    BY <1>4 DEF IReward, TypeReward
  <2>2. rows[r].version + 1 \in Nat
    BY <1>1 DEF RewardRow
  <2>3. x \in RewardRow
    BY <1>1, <2>2 DEF RewardRow, Over
  <2>4. /\ x.status = "ended" /\ x.phase = rows[r].phase /\ SameDraft(x, rows[r])
        /\ x.released = TRUE /\ x.attempt = rows[r].attempt
    BY <1>1 DEF RewardRow, SameDraft
  <2>5. rows[r].phase # "signature-started" /\ ~rows[r].attempt /\ rows[r].status # "none"
    BY <1>4 DEF Unsigned
  <2> HIDE DEF x
  <2>6. /\ inputs' \in [Coin -> InputRow]
        /\ \A c \in Coin : inputs[c].holder # r => inputs'[c] = inputs[c]
    BY <1>4, HolderInputs
  <2>7. cancels[r] \in CancelRow /\ cancels' = [cancels EXCEPT ![r] = cancels[r]]
    BY <1>2 DEF IReward, TypeReward
  <2>8. Writes(r)
    BY <1>2, <2>1, <2>3, <2>4, <2>5, <2>6, <2>7 DEF Writes, SameCancel, Over
  <2>9. Held(r)'
    BY <1>1, <1>2, <2>1, <2>4, <2>5 DEF Held, SameDraft
  <2>10. Consistent(r)'
    BY <1>1, <1>2, <2>1, <2>4, <2>5 DEF Consistent, Over, chain
  <2> QED BY <1>2, <2>8, <2>9, <2>10, NoneMoves, OneWritten DEF IReward, TypeReward
<1> QED BY <1>3, <1>4 DEF EndUnsigned

\* The operator's call keeps the invariant.
LEMMA CancelSignedKeeps ==
    ASSUME IReward, NEW r \in Request, CancelSigned(r)
    PROVE  IReward'
PROOF
<1>1. "operator" \in Thread
  BY DEF Thread
<1>2. UNCHANGED <<db, chain, admitting, alarm, stops>>
  BY DEF CancelSigned
<1> QED BY <1>1, <1>2, GoesTo DEF CancelSigned, Cancelling

\* A stop keeps the invariant.
LEMMA StopKeeps ==
    ASSUME IReward, NEW reason \in Stops, Stop(reason)
    PROVE  IReward'
PROOF
<1>1. stops' \subseteq Reasons /\ alarm' \in BOOLEAN
  BY RewardAssumption DEF Stop, IReward, TypeReward, Reasons
<1> QED BY <1>1, FlagsKeep DEF Stop

\* A resumption keeps the invariant.
LEMMA ResumeKeeps ==
    ASSUME IReward, Resume
    PROVE  IReward'
PROOF
<1>1. stops' \subseteq Reasons /\ alarm' \in BOOLEAN
  BY DEF Resume, IReward, TypeReward
<1> QED BY <1>1, FlagsKeep DEF Resume

\* A restart of the object keeps the invariant.
LEMMA RestartKeeps ==
    ASSUME IReward, Restart
    PROVE  IReward'
PROOF
<1>1. DOMAIN admitting' = Request /\ Admissions'
  BY DEF Restart, Admissions
<1>2. HandlersMove
  BY IdleSound DEF Restart, HandlersMove
<1>3. stops' \subseteq Reasons /\ alarm' \in BOOLEAN
  BY DEF Restart, IReward, TypeReward
<1> QED BY <1>1, <1>2, <1>3, Unmoved DEF Restart

\* A step of the chain: the service's records and handlers stay.
LEMMA ChainMoves ==
    ASSUME IReward, UNCHANGED <<db, stops, alarm, admitting, handler, sent>>,
           executed' \in [Op -> Nat \cup {None}], fork' \in Nat,
           fork' = 0 => fork = 0 /\ \A op \in Op : executed[op] # None => executed'[op] # None,
           ChainSound'
    PROVE  IReward'
PROOF
<1>1. TypeReward' /\ QueueSound' /\ Admissions'
  BY DEF IReward, TypeReward, QueueSound, Admissions, db
<1>2. ASSUME NEW r \in Request
      PROVE  Held(r)' /\ Consistent(r)'
  BY Operations DEF IReward, Held, Kept, Owns, Consistent, db
<1>3. Grows /\ Follows
  BY Operations DEF Grows, Follows, db
<1> QED BY <1>1, <1>2, <1>3, NoneMoves, HandlersSound DEF IReward

\* New funds keep the invariant.
LEMMA FundKeeps ==
    ASSUME IReward, NEW c \in Base, Fund(c)
    PROVE  IReward'
PROOF
<1>1. ChainSound'
  BY DEF Fund, IReward, ChainSound, InputsOf, db
<1> QED BY <1>1, ChainMoves DEF Fund, IReward, TypeReward

\* An operation becomes final only with coins that are there.
LEMMA FinalizeKeeps ==
    ASSUME IReward, NEW op \in Op, Finalize(op)
    PROVE  IReward'
PROOF
<1>1. executed \in [Op -> Nat \cup {None}] /\ fork \in Nat
  BY DEF IReward, TypeReward
<1>2. executed' = [executed EXCEPT ![op] = fork] /\ sent' = sent /\ op \in sent
      /\ UNCHANGED <<db, fork>>
  BY DEF Finalize
<1>3. executed' \in [Op -> Nat \cup {None}]
  BY <1>1, <1>2
<1>4. fork # None
  BY <1>1, RewardAssumption
<1>5. \A other \in Op : executed[other] # None => InputsOf(other) \cap InputsOf(op) = {}
  BY DEF Finalize, Available, Spent
<1>6. \A other \in Op : InputsOf(other)' = InputsOf(other)
  BY <1>2 DEF InputsOf, db
<1>7. ChainSound'
  <2>1. \A other \in Op : other # op => executed'[other] = executed[other]
    BY <1>1, <1>2
  <2>2. \A other \in Op : executed'[other] # None => other \in sent'
    BY <1>2, <2>1 DEF IReward, ChainSound
  <2>3. ASSUME NEW p \in Op, NEW q \in Op, executed'[p] # None, executed'[q] # None,
               InputsOf(p) \cap InputsOf(q) # {}
        PROVE  p = q
    BY <1>5, <2>1, <2>3 DEF IReward, ChainSound
  <2> QED BY <1>6, <2>2, <2>3 DEF ChainSound
<1>8. fork' = 0 => fork = 0 /\ \A other \in Op : executed[other] # None => executed'[other] # None
  BY <1>1, <1>2, <1>4
<1> QED BY <1>1, <1>2, <1>3, <1>7, <1>8, ChainMoves DEF Finalize

\* A reorganisation keeps the invariant.
LEMMA ReorganizeKeeps ==
    ASSUME IReward, NEW lost \in SUBSET Op, Reorganize(lost)
    PROVE  IReward'
PROOF
<1>1. executed \in [Op -> Nat \cup {None}] /\ fork \in Nat
  BY DEF IReward, TypeReward
<1>2. /\ executed' = [op \in Op |-> IF op \in lost THEN None ELSE executed[op]]
      /\ fork' = fork + 1 /\ sent' = sent /\ UNCHANGED db
  BY DEF Reorganize
<1>3. executed' \in [Op -> Nat \cup {None}] /\ fork' \in Nat /\ fork' # 0
  BY <1>1, <1>2
<1>4. \A op \in Op : /\ InputsOf(op)' = InputsOf(op)
                     /\ executed'[op] # None => executed[op] # None
  BY <1>2 DEF InputsOf, db
<1>5. ChainSound'
  BY <1>2, <1>4 DEF IReward, ChainSound
<1> QED BY <1>2, <1>3, <1>5, ChainMoves DEF Reorganize

-----------------------------------------------------------------------------
(* The invariant.                                                            *)

\* The invariant holds initially.
LEMMA InitReward == Init => IReward
PROOF
<1> SUFFICES ASSUME Init PROVE IReward
  OBVIOUS
<1>1. TypeReward
  <2>1. queue \in Seq(Request)
    BY DEF Init
  <2>2. rows \in [Request -> RewardRow]
    BY DEF Init, RewardRow
  <2>3. inputs \in [Coin -> InputRow] /\ cancels \in [Request -> CancelRow]
    BY DEF Init, InputRow, CancelRow
  <2>4. handler \in [Thread -> Handler]
    BY IdleSound DEF Init
  <2>5. executed \in [Op -> Nat \cup {None}]
    BY DEF Init, Op
  <2> QED BY <2>1, <2>2, <2>3, <2>4, <2>5 DEF Init, TypeReward
<1>2. ChainSound
  BY DEF Init, ChainSound, Op
<1>3. QueueSound
  BY DEF Init, QueueSound
<1>4. Admissions
  BY DEF Init, Admissions
<1>5. \A r \in Request : Held(r) /\ Consistent(r)
  BY DEF Init, Held, Kept, Consistent, Over
<1>6. \A t \in Thread : HandlerSound(t, handler[t])
  BY IdleSound DEF Init
<1> QED BY <1>1, <1>2, <1>3, <1>4, <1>5, <1>6 DEF IReward

\* The steps of a cancellation keep the invariant.
LEMMA CancellationKeeps ==
    ASSUME IReward, NEW t \in Thread, Cancellation(t)
    PROVE  IReward'
PROOF
<1> QED BY CancelEnterKeeps, CancelSignKeeps, CancelPrepareKeeps, CancelObserveKeeps, CancelEndKeeps
        DEF Cancellation

\* The steps of the alarm keep the invariant.
LEMMA AlarmStepKeeps ==
    ASSUME IReward, AlarmStep
    PROVE  IReward'
PROOF
<1>1. "alarm" \in Thread
  BY DEF Thread
<1>2. CASE AlarmStart \/ AlarmVerify \/ Submit \/ SaveAttempt \/ Broadcast
  BY <1>2, AlarmStartKeeps, AlarmVerifyKeeps, SubmitKeeps, SaveAttemptKeeps, BroadcastKeeps
<1>3. CASE Dispatch
  BY <1>3, DispatchFundsKeeps, DispatchClaimKeeps, DispatchBuildKeeps, DispatchSaveKeeps,
     DispatchMarkKeeps, DispatchSignKeeps, DispatchStoreKeeps DEF Dispatch
<1>4. CASE Reconcile
  BY <1>4, EvidenceReadKeeps, EvidenceJudgeKeeps DEF Reconcile
<1>5. CASE Cancellation("alarm")
  BY <1>1, <1>5, CancellationKeeps
<1> QED BY <1>2, <1>3, <1>4, <1>5 DEF AlarmStep

\* A step that changes nothing keeps the invariant.
LEMMA StutterReward ==
    ASSUME IReward, UNCHANGED vars
    PROVE  IReward'
PROOF
<1>1. UNCHANGED <<db, admitting, handler, chain>> /\ stops' \subseteq Reasons /\ alarm' \in BOOLEAN
  BY DEF vars, IReward, TypeReward
<1> QED BY <1>1, FlagsKeep

\* Every step keeps the invariant.
LEMMA NextReward ==
    ASSUME IReward, [Next]_vars
    PROVE  IReward'
PROOF
<1>1. CASE UNCHANGED vars
  BY <1>1, StutterReward
<1>2. ASSUME NEW r \in Request, NEW o \in Owner, AdmitStart(r, o)
      PROVE  IReward'
  BY <1>2, AdmitStartKeeps
<1>3. ASSUME NEW r \in Request,
             AdmitFunds(r) \/ AdmitCommit(r) \/ AdmitSchedule(r) \/ Receive(r)
      PROVE  IReward'
  BY <1>3, AdmitFundsKeeps, AdmitCommitKeeps, AdmitScheduleKeeps, ReceiveKeeps
<1>4. CASE AlarmStep
  BY <1>4, AlarmStepKeeps
<1>5. CASE Cancellation("operator")
  BY <1>5, CancellationKeeps DEF Thread
<1>6. ASSUME NEW r \in Request, EndUnsigned(r) \/ CancelSigned(r)
      PROVE  IReward'
  BY <1>6, EndUnsignedKeeps, CancelSignedKeeps
<1>7. ASSUME NEW reason \in Stops, Stop(reason)
      PROVE  IReward'
  BY <1>7, StopKeeps
<1>8. CASE Resume \/ Restart
  BY <1>8, ResumeKeeps, RestartKeeps
<1>9. ASSUME NEW c \in Base, Fund(c)
      PROVE  IReward'
  BY <1>9, FundKeeps
<1>10. ASSUME NEW op \in Op, Finalize(op)
       PROVE  IReward'
  BY <1>10, FinalizeKeeps
<1>11. ASSUME NEW lost \in SUBSET Op, Reorganize(lost)
       PROVE  IReward'
  BY <1>11, ReorganizeKeeps
<1> QED BY <1>1, <1>2, <1>3, <1>4, <1>5, <1>6, <1>7, <1>8, <1>9, <1>10, <1>11 DEF Next

\* The records agree with one another, with the chain and with the handlers in
\* progress: every step keeps what it read of them (queue.ts, cancellation.ts).
THEOREM RewardInvariant == Spec => []IReward
PROOF
<1>1. IReward /\ [Next]_vars => IReward'
  BY NextReward
<1> QED BY <1>1, InitReward, PTL DEF Spec

\* The reservation of funds is released exactly while the request is settled.
THEOREM RewardReservationsMatch == Spec => []ReservationsMatch
PROOF
<1>1. IReward => ReservationsMatch
  BY DEF IReward, Consistent, ReservationsMatch, Over
<1> QED BY <1>1, RewardInvariant, PTL

\* A payment and a cancellation of one request have an input in common.
LEMMA EndedUnpaid == IReward /\ fork = 0 => EndedNeverPaid
PROOF
<1> SUFFICES ASSUME IReward, fork = 0, NEW r \in Request,
                    rows[r].status = "ended", executed[Pay(r)] # None
             PROVE  FALSE
  BY DEF EndedNeverPaid
<1>1. Pay(r) \in sent
  BY Operations DEF IReward, ChainSound
<1>2. executed[Cancel(r)] # None
  BY <1>1 DEF IReward, Consistent
<1>3. cancels[r].phase # "none"
  BY <1>2, Operations DEF IReward, ChainSound, Consistent
<1>4. InputsOf(Pay(r)) \cap InputsOf(Cancel(r)) # {} /\ Pay(r) # Cancel(r)
  BY <1>3, Operations DEF IReward, Held
<1> QED BY <1>2, <1>4, Operations DEF IReward, ChainSound

\* A request that was ended is not paid: its transaction was never sent, or the
\* cancellation spends an input of its transaction.
THEOREM RewardEndedNeverPaid == Spec => []EndedNeverPaid
PROOF
<1>1. IReward => EndedNeverPaid
  BY EndedUnpaid DEF EndedNeverPaid
<1> QED BY <1>1, RewardInvariant, PTL
-----------------------------------------------------------------------------
(* The order of the signatures.                                              *)

\* No signature is asked for.
NoneSigns == \A r \in Request : rows'[r].phase \in {rows[r].phase, "claimed", "draft-saved"}

\* A step that writes no row asks for no signature.
LEMMA UnchangedSigns ==
    ASSUME rows' = rows
    PROVE  NoneSigns
PROOF
<1> QED BY DEF NoneSigns

\* Nor one that writes one row without such a mark.
LEMMA OneRowSigns ==
    ASSUME IReward, NEW r \in Request, NEW x, rows' = [rows EXCEPT ![r] = x],
           x.phase \in {rows[r].phase, "claimed", "draft-saved"}
    PROVE  NoneSigns
PROOF
<1> QED BY DEF IReward, TypeReward, NoneSigns

\* Admissions and receipts ask for no signature.
LEMMA AdmissionsSignNothing ==
    ASSUME IReward, NEW r \in Request,
           AdmitFunds(r) \/ AdmitCommit(r) \/ AdmitSchedule(r) \/ Receive(r)
    PROVE  NoneSigns
PROOF
<1>1. rows \in [Request -> RewardRow]
  BY DEF IReward, TypeReward
<1>2. CASE AdmitFunds(r) \/ AdmitSchedule(r)
  BY <1>2, UnchangedSigns DEF AdmitFunds, AdmitSchedule, db
<1>3. CASE AdmitCommit(r)
  <2> DEFINE x == [rows[r] EXCEPT !.status = "accepted", !.owner = admitting[r].owner,
                                  !.version = 1]
  <2>1. \/ rows' = rows
        \/ rows' = [rows EXCEPT ![r].status = "accepted", ![r].owner = admitting[r].owner,
                                ![r].version = 1]
    BY <1>3, Zenon DEF AdmitCommit
  <2>2. rows' = rows \/ rows' = [rows EXCEPT ![r] = x]
    BY <1>1, <2>1
  <2>3. x.phase = rows[r].phase
    BY <1>1 DEF RewardRow
  <2> HIDE DEF x
  <2> QED BY <2>2, <2>3, OneRowSigns, UnchangedSigns
<1>4. CASE Receive(r)
  BY <1>1, <1>4 DEF Receive, NoneSigns, RewardRow
<1> QED BY <1>2, <1>3, <1>4

\* Nor does the alarm outside a dispatch.
LEMMA AlarmSignsNothing ==
    ASSUME IReward, AlarmStart \/ AlarmVerify \/ Submit \/ SaveAttempt \/ Broadcast \/ Reconcile
    PROVE  NoneSigns
PROOF
<1>1. rows \in [Request -> RewardRow]
  BY DEF IReward, TypeReward
<1>2. CASE AlarmStart
  BY <1>2, UnchangedSigns DEF AlarmStart, db
<1>3. CASE AlarmVerify
  <2>1. rows' = rows \/ \E r \in Request : Invalidate(r)
    BY <1>3 DEF AlarmVerify, Unavailable, db
  <2>2. ASSUME NEW r \in Request, Invalidate(r)
        PROVE  NoneSigns
    <3> DEFINE Again(q) == [rows[q] EXCEPT !.status = "unknown", !.version = @ + 1, !.released = FALSE]
    <3>1. \A q \in Request : rows'[q] \in {rows[q], Again(q)}
      BY <2>2 DEF Invalidate
    <3>2. \A q \in Request : Again(q).phase = rows[q].phase
      BY <1>1 DEF RewardRow
    <3> HIDE DEF Again
    <3> QED BY <3>1, <3>2 DEF NoneSigns
  <2> QED BY <2>1, <2>2, UnchangedSigns
<1>4. CASE Submit
  <2>1. rows' = rows
    BY <1>4 DEF Submit, Unavailable, OutOfGas, NoWrite, db
  <2> QED BY <2>1, UnchangedSigns
<1>5. CASE SaveAttempt
  <2>1. \/ rows' = rows
        \/ rows' = [rows EXCEPT ![handler["alarm"].r].attempt = TRUE,
                                ![handler["alarm"].r].status = "pending",
                                ![handler["alarm"].r].version = @ + 1]
    BY <1>5 DEF SaveAttempt, NoWrite, db
  <2> QED BY <1>1, <2>1 DEF NoneSigns, RewardRow
<1>6. CASE Broadcast
  <2>1. rows' = rows
    BY <1>6 DEF Broadcast, NoWrite, db
  <2> QED BY <2>1, UnchangedSigns
<1>7. CASE EvidenceRead
  <2>1. rows' = rows
    BY <1>7 DEF EvidenceRead, Unavailable, NoWrite, db
  <2> QED BY <2>1, UnchangedSigns
<1>8. CASE EvidenceJudge
  <2> DEFINE h == handler["alarm"]
  <2>1. \/ rows' = rows
        \/ rows' = [rows EXCEPT ![h.r].status = "finalized", ![h.r].checkpoint = h.found,
                                ![h.r].released = TRUE, ![h.r].version = @ + 1]
    BY <1>8 DEF EvidenceJudge, NoWrite, db
  <2> HIDE DEF h
  <2> QED BY <1>1, <2>1 DEF NoneSigns, RewardRow
<1> QED BY <1>2, <1>3, <1>4, <1>5, <1>6, <1>7, <1>8 DEF Reconcile

\* Nor does a cancellation.
LEMMA CancellationSignsNothing ==
    ASSUME IReward, NEW t \in Thread, Cancellation(t)
    PROVE  NoneSigns
PROOF
<1>1. rows \in [Request -> RewardRow]
  BY DEF IReward, TypeReward
<1>2. CASE CancelEnter(t)
  <2>1. rows' = rows
    BY <1>2 DEF CancelEnter, Unavailable, NoWrite, db
  <2> QED BY <2>1, UnchangedSigns
<1>3. CASE CancelSign(t)
  BY <1>3, UnchangedSigns DEF CancelSign
<1>4. CASE CancelPrepare(t)
  <2>1. rows' = rows
    BY <1>4 DEF CancelPrepare, OriginalFinalized, Unavailable, OutOfGas, NoWrite, db
  <2> QED BY <2>1, UnchangedSigns
<1>5. CASE CancelObserve(t)
  <2>1. rows' = rows
    BY <1>5 DEF CancelObserve, OriginalFinalized, Unavailable, NoWrite, db
  <2> QED BY <2>1, UnchangedSigns
<1>6. CASE CancelEnd(t)
  <2> DEFINE r == handler[t].r
             x == [rows[r] EXCEPT !.status = "ended", !.released = TRUE, !.version = @ + 1]
  <2>1. handler[t] \in Handler /\ handler[t].pc = "cancel-end"
    <3>1. handler[t] \in Handler
      BY DEF IReward, TypeReward
    <3> QED BY <1>6, <3>1 DEF CancelEnd, At
  <2>2. r \in Request
    BY <2>1, HandlerTypes
  <2> HIDE DEF r
  <2>3. \/ rows' = rows
        \/ rows' = [rows EXCEPT ![r].status = "ended", ![r].released = TRUE, ![r].version = @ + 1]
    BY <1>6 DEF CancelEnd, NoWrite, db, r
  <2>4. rows' = rows \/ rows' = [rows EXCEPT ![r] = x]
    BY <1>1, <2>2, <2>3
  <2>5. x.phase = rows[r].phase
    BY <1>1, <2>2 DEF RewardRow
  <2> HIDE DEF x
  <2> QED BY <2>2, <2>4, <2>5, OneRowSigns, UnchangedSigns
<1> QED BY <1>2, <1>3, <1>4, <1>5, <1>6 DEF Cancellation

\* Nor does a dispatch outside its mark.
LEMMA DispatchSignsNothing ==
    ASSUME IReward, Dispatch, ~DispatchMark
    PROVE  NoneSigns
PROOF
<1>1. rows \in [Request -> RewardRow]
  BY DEF IReward, TypeReward
<1> DEFINE h == handler["alarm"]
<1>2. CASE DispatchFunds
  <2>1. rows' = rows
    BY <1>2 DEF DispatchFunds, Unavailable, NoWrite, db
  <2> QED BY <2>1, UnchangedSigns
<1>3. CASE DispatchBuild \/ DispatchSign
  <2>1. rows' = rows
    BY <1>3 DEF DispatchBuild, DispatchSign, NoWrite, db
  <2> QED BY <2>1, UnchangedSigns
<1>4. CASE DispatchClaim
  <2>1. \/ rows' = rows
        \/ rows' = [rows EXCEPT ![h.r].status = "processing", ![h.r].phase = "claimed",
                                ![h.r].version = @ + 1]
    BY <1>4 DEF DispatchClaim, NoWrite, db
  <2> HIDE DEF h
  <2> QED BY <1>1, <2>1 DEF NoneSigns, RewardRow
<1>5. CASE DispatchSave
  <2>1. \/ rows' = rows
        \/ \E c \in h.coins :
              rows' = [rows EXCEPT ![h.r].phase = "draft-saved", ![h.r].version = @ + 1,
                                   ![h.r].coins = h.coins, ![h.r].first = c,
                                   ![h.r].change = WorthOf(h.coins) - RewardAmount[h.r]]
    BY <1>5, Zenon DEF DispatchSave, NoWrite, db
  <2> HIDE DEF h
  <2>2. ASSUME NEW c, NEW rest,
               rows' = [rows EXCEPT ![h.r].phase = "draft-saved", ![h.r].version = @ + 1,
                                    ![h.r].coins = h.coins, ![h.r].first = c, ![h.r].change = rest]
        PROVE  NoneSigns
    BY <1>1, <2>2 DEF NoneSigns, RewardRow
  <2> QED BY <2>1, <2>2, UnchangedSigns
<1>6. CASE DispatchStore
  <2>1. \/ rows' = rows
        \/ rows' = [rows EXCEPT ![h.r].signed = TRUE, ![h.r].version = @ + 1]
    BY <1>6 DEF DispatchStore, NoWrite, db
  <2> HIDE DEF h
  <2> QED BY <1>1, <2>1 DEF NoneSigns, RewardRow
<1> QED BY <1>2, <1>3, <1>4, <1>5, <1>6 DEF Dispatch

\* The alarm asks for a signature only for the request it has in hand.
LEMMA MarkSignsItsOwn ==
    ASSUME IReward, DispatchMark, NEW r \in Request,
           rows[r].phase # "signature-started", rows'[r].phase = "signature-started"
    PROVE  Behind(r)
PROOF
<1>1. "alarm" \in Thread
  BY DEF Thread
<1>2. PICK h \in Handler : h = handler["alarm"]
  BY <1>1 DEF IReward, TypeReward
<1>3. h.pc = "mark"
  BY <1>2 DEF DispatchMark, At
<1>4. h.r \in Request /\ Behind(h.r)
  BY <1>1, <1>2, <1>3, Subject DEF HandlerSound, Ahead
<1>5. \/ rows' = rows
      \/ rows' = [rows EXCEPT ![h.r].phase = "signature-started", ![h.r].version = @ + 1]
  BY <1>2 DEF DispatchMark, NoWrite, db
<1>6. r = h.r
  BY <1>5 DEF IReward, TypeReward
<1> QED BY <1>4, <1>6

\* A signature is asked for only when every earlier request is settled.
LEMMA SignsInOrder ==
    ASSUME IReward, [Next]_vars, NEW r \in Request,
           rows[r].phase # "signature-started", rows'[r].phase = "signature-started"
    PROVE  Behind(r)
PROOF
<1> SUFFICES ASSUME ~DispatchMark
             PROVE  NoneSigns
  BY MarkSignsItsOwn DEF NoneSigns
<1>1. CASE UNCHANGED vars
  BY <1>1, UnchangedSigns DEF vars, db
<1>2. ASSUME NEW q \in Request, NEW o \in Owner, AdmitStart(q, o)
      PROVE  NoneSigns
  BY <1>2, UnchangedSigns DEF AdmitStart, db
<1>3. ASSUME NEW q \in Request,
             AdmitFunds(q) \/ AdmitCommit(q) \/ AdmitSchedule(q) \/ Receive(q)
      PROVE  NoneSigns
  BY <1>3, AdmissionsSignNothing
<1>4. CASE AlarmStep
  BY <1>4, AlarmSignsNothing, DispatchSignsNothing, CancellationSignsNothing DEF AlarmStep, Thread
<1>5. CASE Cancellation("operator")
  BY <1>5, CancellationSignsNothing DEF Thread
<1>6. ASSUME NEW q \in Request, EndUnsigned(q)
      PROVE  NoneSigns
  <2> DEFINE x == [rows[q] EXCEPT !.status = "ended", !.released = TRUE, !.version = @ + 1]
  <2>1. rows \in [Request -> RewardRow]
    BY DEF IReward, TypeReward
  <2>2. rows' = rows \/ rows' = [rows EXCEPT ![q] = x]
    BY <1>6, <2>1 DEF EndUnsigned
  <2>3. x.phase = rows[q].phase
    BY <2>1 DEF RewardRow
  <2> HIDE DEF x
  <2> QED BY <2>2, <2>3, OneRowSigns, UnchangedSigns
<1>7. ASSUME NEW q \in Request, CancelSigned(q)
      PROVE  NoneSigns
  BY <1>7, UnchangedSigns DEF CancelSigned, db
<1>8. ASSUME NEW reason \in Stops, Stop(reason)
      PROVE  NoneSigns
  BY <1>8, UnchangedSigns DEF Stop, db
<1>9. CASE Resume \/ Restart
  BY <1>9, UnchangedSigns DEF Resume, Restart, db
<1>10. ASSUME NEW c \in Base, Fund(c)
       PROVE  NoneSigns
  BY <1>10, UnchangedSigns DEF Fund, db
<1>11. ASSUME NEW op \in Op, Finalize(op)
       PROVE  NoneSigns
  BY <1>11, UnchangedSigns DEF Finalize, db
<1>12. ASSUME NEW lost \in SUBSET Op, Reorganize(lost)
       PROVE  NoneSigns
  BY <1>12, UnchangedSigns DEF Reorganize, db
<1> QED BY <1>1, <1>2, <1>3, <1>4, <1>5, <1>6, <1>7, <1>8, <1>9, <1>10, <1>11, <1>12 DEF Next

\* Signatures are asked for in the order of acceptance, each when every earlier
\* request is settled (runRewardAlarm), whoever else is at work.
THEOREM RewardInOrder == Spec => InOrder
PROOF
<1>1. IReward /\ [Next]_vars =>
        [\A r \in Request :
            rows[r].phase # "signature-started" /\ rows'[r].phase = "signature-started"
            => \A i, j \in DOMAIN queue :
                  i < j /\ queue[j] = r
                  => rows[queue[i]].status \in {"finalized", "received", "ended"}]_vars
  BY SignsInOrder DEF Behind, Over
<1> QED BY <1>1, RewardInvariant, PTL DEF Spec, InOrder
-----------------------------------------------------------------------------
(* The alarm is not forgotten.                                               *)

\* Past its verification, the alarm has seen the node answer.
Awake == handler["alarm"].pc \notin {"idle", "verify"} => "rpc-unavailable" \notin stops

IWork == IReward /\ Awake /\ WorkScheduled

Hopeful == {"healthy", "rpc-unavailable"}
Firm == {"restore-stopped", "quota-stopped", "operator-stopped"}

\* The reason that is shown is one of the flags, and a firm one before the others.
LEMMA ReasonFacts ==
    ASSUME NEW flags \in SUBSET Reasons
    PROVE  /\ flags = {} => ReasonOf(flags) = "healthy"
           /\ flags # {} => ReasonOf(flags) \in flags
           /\ ReasonOf(flags) \in Hopeful => flags \cap Firm = {}
           /\ ReasonOf(flags) \in Hopeful /\ "rpc-unavailable" \notin flags => flags = {}
PROOF
<1>1. /\ DOMAIN Priority = 1..6
      /\ Priority[1] = "restore-stopped" /\ Priority[2] = "quota-stopped"
      /\ Priority[3] = "operator-stopped" /\ Priority[4] = "rpc-unavailable"
      /\ Priority[5] = "funds-short" /\ Priority[6] = "gas-short"
  BY DEF Priority
<1>2. CASE flags = {}
  BY <1>2 DEF ReasonOf, Hopeful
<1>3. CASE flags # {}
  <2> DEFINE Least(i) == Priority[i] \in flags /\ \A j \in 1..(i - 1) : Priority[j] \notin flags
  <2>1. \E i \in 1..6 : Least(i)
    <3>1. CASE "restore-stopped" \in flags
      BY <1>1, <3>1
    <3>2. CASE "restore-stopped" \notin flags /\ "quota-stopped" \in flags
      <4>1. \A j \in 1..(2 - 1) : j = 1
        OBVIOUS
      <4>2. Least(2)
        BY <1>1, <3>2, <4>1
      <4> QED BY <4>2
    <3>3. CASE {"restore-stopped", "quota-stopped"} \cap flags = {} /\ "operator-stopped" \in flags
      <4>1. \A j \in 1..(3 - 1) : j \in {1, 2}
        OBVIOUS
      <4>2. Least(3)
        BY <1>1, <3>3, <4>1
      <4> QED BY <4>2
    <3>4. CASE Firm \cap flags = {} /\ "rpc-unavailable" \in flags
      <4>1. \A j \in 1..(4 - 1) : j \in {1, 2, 3}
        OBVIOUS
      <4>2. Least(4)
        BY <1>1, <3>4, <4>1 DEF Firm
      <4> QED BY <4>2
    <3>5. CASE (Firm \cup {"rpc-unavailable"}) \cap flags = {} /\ "funds-short" \in flags
      <4>1. \A j \in 1..(5 - 1) : j \in {1, 2, 3, 4}
        OBVIOUS
      <4>2. Least(5)
        BY <1>1, <3>5, <4>1 DEF Firm
      <4> QED BY <4>2
    <3>6. CASE (Firm \cup {"rpc-unavailable", "funds-short"}) \cap flags = {}
      <4>1. \A j \in 1..(6 - 1) : j \in {1, 2, 3, 4, 5}
        OBVIOUS
      <4>2. "gas-short" \in flags
        BY <1>3, <3>6 DEF Firm, Reasons
      <4>3. Least(6)
        BY <1>1, <3>6, <4>1, <4>2 DEF Firm
      <4> QED BY <4>3
    <3> QED BY <3>1, <3>2, <3>3, <3>4, <3>5, <3>6 DEF Firm
  <2> DEFINE k == CHOOSE i \in DOMAIN Priority : Least(i)
  <2>2. k \in 1..6 /\ Least(k)
    <3> HIDE DEF Least
    <3> QED BY <1>1, <2>1
  <2>3. ReasonOf(flags) = Priority[k]
    BY <1>3 DEF ReasonOf
  <2> HIDE DEF k
  <2>4. ReasonOf(flags) \in flags
    BY <2>2, <2>3
  <2>5. ReasonOf(flags) # "healthy"
    BY <2>4 DEF Reasons
  <2>6. ReasonOf(flags) = "rpc-unavailable" => k = 4
    <3>1. k = 1 \/ k = 2 \/ k = 3 \/ k = 4 \/ k = 5 \/ k = 6
      BY <2>2
    <3>2. k # 4 => Priority[k] # "rpc-unavailable"
      BY <1>1, <3>1
    <3> QED BY <2>3, <3>2
  <2>7. k = 4 => flags \cap Firm = {}
    <3>1. 1 \in 1..(4 - 1) /\ 2 \in 1..(4 - 1) /\ 3 \in 1..(4 - 1)
      OBVIOUS
    <3> QED BY <1>1, <2>2, <3>1 DEF Firm
  <2> QED BY <1>3, <2>4, <2>5, <2>6, <2>7 DEF Hopeful
<1> QED BY <1>2, <1>3

\* A step that leaves the work and the reasons as they are, or adds a firm reason.
LEMMA StillScheduled ==
    ASSUME IWork, stops' \subseteq Reasons,
           stops' = stops \/ stops' \cap Firm # {}, alarm => alarm',
           At("alarm", "idle")' => At("alarm", "idle"),
           \A r \in Request : Admitting(r, "schedule") => Admitting(r, "schedule")',
           \A r \in Request : rows'[r].status \in Unfinished => rows[r].status \in Unfinished
    PROVE  WorkScheduled'
PROOF
<1>1. CASE stops' = stops
  <2>1. Reason' = Reason
    BY <1>1 DEF Reason
  <2>2. Unsettled' # {} => Unsettled # {}
    BY DEF Unsettled
  <2> QED BY <2>1, <2>2 DEF IWork, WorkScheduled
<1>2. CASE stops' \cap Firm # {}
  BY <1>2, ReasonFacts DEF WorkScheduled, Reason, Hopeful
<1> QED BY <1>1, <1>2

\* How the alarm's handler ends, or goes on.
Outcome ==
    \/ Done("alarm")
    \/ \E reason \in Reasons : Fail("alarm", reason)
    \/ handler'["alarm"].pc # "idle" /\ UNCHANGED stops

\* Every such outcome leaves the queue scheduled.
LEMMA OutcomeSchedules ==
    ASSUME IWork, IReward', handler["alarm"].pc \notin {"idle", "verify"}, Outcome
    PROVE  Awake' /\ WorkScheduled'
PROOF
<1>1. handler \in [Thread -> Handler] /\ "alarm" \in Thread /\ "rpc-unavailable" \notin stops
  BY DEF IWork, IReward, TypeReward, Thread, Awake
<1>2. CASE Done("alarm")
  <2>1. handler'["alarm"].pc = "idle" /\ alarm' = TRUE
    BY <1>1, <1>2 DEF Done, Continue, Idle
  <2> QED BY <2>1 DEF Awake, WorkScheduled
<1>3. ASSUME NEW reason \in Reasons, Fail("alarm", reason)
      PROVE  Awake' /\ WorkScheduled'
  <2>1. handler'["alarm"].pc = "idle" /\ stops' = stops \cup {reason}
    BY <1>1, <1>3 DEF Fail, Continue, Idle
  <2>2. Awake'
    BY <2>1 DEF Awake
  <2>3. CASE reason = "rpc-unavailable"
    BY <1>3, <2>2, <2>3 DEF Fail, WorkScheduled
  <2>4. CASE reason # "rpc-unavailable"
    <3>1. stops' \in SUBSET Reasons /\ stops' # {} /\ "rpc-unavailable" \notin stops'
      BY <1>1, <2>1, <2>4 DEF IWork, IReward, TypeReward
    <3>2. Reason' \notin Hopeful
      BY <3>1, ReasonFacts DEF Reason
    <3> QED BY <2>2, <3>2 DEF WorkScheduled, Hopeful
  <2> QED BY <2>3, <2>4
<1>4. CASE handler'["alarm"].pc # "idle" /\ UNCHANGED stops
  BY <1>1, <1>4 DEF Awake, WorkScheduled, At
<1> QED BY <1>2, <1>3, <1>4 DEF Outcome

\* A handler that ends without a write has such an outcome.
LEMMA QuietOutcome ==
    ASSUME EndsQuietly("alarm")
    PROVE  Outcome
PROOF
<1>1. CASE Unavailable("alarm") \/ OutOfGas("alarm")
  BY <1>1 DEF Unavailable, OutOfGas, Outcome, Reasons
<1>2. CASE ~(Unavailable("alarm") \/ OutOfGas("alarm"))
  BY <1>2, Zenon DEF EndsQuietly, Outcome
<1> QED BY <1>1, <1>2

\* So has one that goes on.
LEMMA CarriesOn ==
    ASSUME IReward, NEW pc, pc # "idle", UNCHANGED stops,
           \/ \E r, c : Continue("alarm", [pc |-> pc, r |-> r, coins |-> c])
           \/ \E r : Continue("alarm", [pc |-> pc, r |-> r])
           \/ Continue("alarm", [handler["alarm"] EXCEPT !.pc = pc])
    PROVE  Outcome
PROOF
<1>1. handler \in [Thread -> Handler] /\ "alarm" \in Thread /\ handler["alarm"] \in Handler
  BY DEF IReward, TypeReward, Thread
<1>2. [handler["alarm"] EXCEPT !.pc = pc].pc = pc
  BY <1>1 DEF Handler
<1>3. handler'["alarm"].pc = pc
  <2>1. ASSUME NEW h, h.pc = pc, Continue("alarm", h)
        PROVE  handler'["alarm"].pc = pc
    BY <1>1, <2>1 DEF Continue
  <2>2. ASSUME NEW r, NEW c, Continue("alarm", [pc |-> pc, r |-> r, coins |-> c])
        PROVE  handler'["alarm"].pc = pc
    BY <1>1, <2>2 DEF Continue
  <2>3. ASSUME NEW r, Continue("alarm", [pc |-> pc, r |-> r])
        PROVE  handler'["alarm"].pc = pc
    BY <1>1, <2>3 DEF Continue
  <2> QED BY <1>2, <2>1, <2>2, <2>3
<1> QED BY <1>3 DEF Outcome

\* Every step of a dispatch has such an outcome.
LEMMA DispatchOutcome ==
    ASSUME IReward, Dispatch
    PROVE  Outcome /\ handler["alarm"].pc \notin {"idle", "verify"}
PROOF
<1> DEFINE h == handler["alarm"]
<1>1. "operator-stopped" \in Reasons /\ "funds-short" \in Reasons
  BY DEF Reasons
<1>2. CASE DispatchFunds
  <2>1. \/ EndsQuietly("alarm")
        \/ /\ \E c \in Selections(h.r) : Continue("alarm", [pc |-> "claim", r |-> h.r, coins |-> c])
           /\ UNCHANGED <<alarm, stops>>
    BY <1>1, <1>2, Zenon DEF DispatchFunds, EndsQuietly
  <2>2. CASE /\ \E c \in Selections(h.r) : Continue("alarm", [pc |-> "claim", r |-> h.r, coins |-> c])
             /\ UNCHANGED <<alarm, stops>>
    <3>1. "claim" # "idle" /\ \E r, c : Continue("alarm", [pc |-> "claim", r |-> r, coins |-> c])
      BY <2>2
    <3>2. Outcome
      BY <2>2, <3>1, CarriesOn
    <3> QED BY <1>2, <3>2 DEF DispatchFunds, At
  <2> QED BY <1>2, <2>1, <2>2, QuietOutcome DEF DispatchFunds, At
<1>3. CASE DispatchClaim
  <2>1. \/ EndsQuietly("alarm")
        \/ Continue("alarm", [h EXCEPT !.pc = "build"]) /\ UNCHANGED <<alarm, stops>>
    BY <1>1, <1>3 DEF DispatchClaim, EndsQuietly
  <2> QED BY <1>3, <2>1, CarriesOn, QuietOutcome DEF DispatchClaim, At
<1>4. CASE DispatchBuild
  <2>1. \/ Fail("alarm", "operator-stopped")
        \/ Continue("alarm", [h EXCEPT !.pc = "save"]) /\ UNCHANGED <<alarm, stops>>
    BY <1>4 DEF DispatchBuild
  <2> QED BY <1>1, <1>4, <2>1, CarriesOn DEF DispatchBuild, At, Outcome
<1>5. CASE DispatchSave
  <2>1. \/ Fail("alarm", "operator-stopped")
        \/ Continue("alarm", [pc |-> "mark", r |-> h.r]) /\ UNCHANGED <<alarm, stops>>
    BY <1>5 DEF DispatchSave
  <2> QED BY <1>1, <1>5, <2>1, CarriesOn DEF DispatchSave, At, Outcome
<1>6. CASE DispatchMark
  <2>1. \/ Fail("alarm", "operator-stopped")
        \/ Continue("alarm", [h EXCEPT !.pc = "sign"]) /\ UNCHANGED <<alarm, stops>>
    BY <1>6 DEF DispatchMark
  <2> QED BY <1>1, <1>6, <2>1, CarriesOn DEF DispatchMark, At, Outcome
<1>7. CASE DispatchSign
  <2>1. \/ Fail("alarm", "operator-stopped")
        \/ Continue("alarm", [h EXCEPT !.pc = "store"]) /\ UNCHANGED <<alarm, stops>>
    BY <1>7 DEF DispatchSign
  <2> QED BY <1>1, <1>7, <2>1, CarriesOn DEF DispatchSign, At, Outcome
<1>8. CASE DispatchStore
  <2>1. \/ Fail("alarm", "operator-stopped")
        \/ Continue("alarm", [h EXCEPT !.pc = "submit"]) /\ UNCHANGED <<alarm, stops>>
    BY <1>8 DEF DispatchStore
  <2> QED BY <1>1, <1>8, <2>1, CarriesOn DEF DispatchStore, At, Outcome
<1> QED BY <1>2, <1>3, <1>4, <1>5, <1>6, <1>7, <1>8 DEF Dispatch

\* So has every step of a submission and of a reconciliation.
LEMMA SendingOutcome ==
    ASSUME IReward, Submit \/ SaveAttempt \/ Broadcast \/ Reconcile
    PROVE  Outcome /\ handler["alarm"].pc \notin {"idle", "verify"}
PROOF
<1> DEFINE h == handler["alarm"]
<1>1. {"operator-stopped", "rpc-unavailable"} \subseteq Reasons
  BY DEF Reasons
<1>2. CASE Submit
  <2>1. \/ EndsQuietly("alarm")
        \/ Continue("alarm", [h EXCEPT !.pc = "attempt"]) /\ UNCHANGED <<alarm, stops>>
    BY <1>1, <1>2, Zenon DEF Submit, EndsQuietly, Reasons
  <2> QED BY <1>2, <2>1, CarriesOn, QuietOutcome DEF Submit, At
<1>3. CASE SaveAttempt
  <2>1. \/ Fail("alarm", "operator-stopped")
        \/ Continue("alarm", [h EXCEPT !.pc = "broadcast"]) /\ UNCHANGED <<alarm, stops>>
    BY <1>3 DEF SaveAttempt
  <2> QED BY <1>1, <1>3, <2>1, CarriesOn DEF SaveAttempt, At, Outcome
<1>4. CASE Broadcast
  BY <1>1, <1>4 DEF Broadcast, At, Outcome
<1>5. CASE EvidenceRead
  <2> DEFINE j == [pc |-> "judge", r |-> h.r, version |-> rows[h.r].version,
                   status |-> rows[h.r].status, found |-> executed[Pay(h.r)]]
  <2>1. \/ EndsQuietly("alarm")
        \/ Continue("alarm", j) /\ UNCHANGED <<alarm, stops>>
    BY <1>5, Zenon DEF EvidenceRead, EndsQuietly
  <2>2. j.pc = "judge"
    OBVIOUS
  <2> HIDE DEF j
  <2>3. Continue("alarm", j) => handler'["alarm"] = j
    BY ContinuesAt DEF Thread
  <2>4. Continue("alarm", j) => handler'["alarm"].pc = "judge"
    BY <2>2, <2>3
  <2> QED BY <1>5, <2>1, <2>4, QuietOutcome DEF EvidenceRead, At, Outcome
<1>6. CASE EvidenceJudge
  <2> DEFINE next == IF h.status = "processing"
                     THEN IF rows[h.r].signed THEN "submit" ELSE "idle"
                     ELSE IF rows[h.r].attempt THEN "broadcast" ELSE "idle"
  <2>1. \/ Done("alarm")
        \/ /\ next # "idle" /\ Continue("alarm", [pc |-> next, r |-> h.r])
           /\ UNCHANGED <<alarm, stops>>
    BY <1>6, Zenon DEF EvidenceJudge
  <2> HIDE DEF next
  <2> QED BY <1>6, <2>1, CarriesOn DEF EvidenceJudge, At, Outcome
<1> QED BY <1>2, <1>3, <1>4, <1>5, <1>6 DEF Reconcile

\* And every step of a cancellation.
LEMMA CancellationOutcome ==
    ASSUME IReward, Cancellation("alarm")
    PROVE  Outcome /\ handler["alarm"].pc \notin {"idle", "verify"}
PROOF
<1> DEFINE h == handler["alarm"]
<1>1. {"operator-stopped", "rpc-unavailable"} \subseteq Reasons /\ "alarm" \in Thread
  BY DEF Reasons, Thread
<1>2. CASE CancelEnter("alarm")
  <2>1. \/ EndsQuietly("alarm")
        \/ /\ cancels[h.r].phase # "none"
           /\ Continue("alarm", Resumed(h.r)) /\ UNCHANGED <<alarm, stops>>
        \/ Continue("alarm", [pc |-> "cancel-sign", r |-> h.r]) /\ UNCHANGED <<alarm, stops>>
    <3>1. UNCHANGED <<rows, queue, inputs, alarm, stops, admitting, chain>>
          => UNCHANGED <<alarm, stops>>
      OBVIOUS
    <3> QED BY <1>1, <1>2, <3>1, Zenon DEF CancelEnter, EndsQuietly, Reasons
  <2>2. CASE /\ cancels[h.r].phase # "none"
             /\ Continue("alarm", Resumed(h.r)) /\ UNCHANGED <<alarm, stops>>
    <3>1. h \in Handler /\ h.pc = "cancel"
      BY <1>1, <1>2 DEF IReward, TypeReward, CancelEnter, At
    <3>2. h.r \in Request
      BY <3>1, HandlerTypes
    <3>3. cancels[h.r].phase \in {"signature-started", "signed", "raw-saved"}
      BY <2>2, <3>2 DEF IReward, TypeReward, CancelRow
    <3>4. PICK pc \in {"cancel-sign", "cancel-prepare", "cancel-observe"} :
              Resumed(h.r) = [pc |-> pc, r |-> h.r]
      BY <3>3 DEF Resumed
    <3>5. Continue("alarm", [pc |-> pc, r |-> h.r]) /\ pc # "idle"
      BY <2>2, <3>4
    <3> QED BY <2>2, <3>1, <3>5, CarriesOn
  <2> QED BY <1>2, <2>1, <2>2, CarriesOn, QuietOutcome DEF CancelEnter, At
<1>3. CASE CancelSign("alarm")
  <2>1. PICK pc \in {"cancel-prepare", "cancel-observe"} :
              Continue("alarm", [pc |-> pc, r |-> h.r])
    BY <1>3 DEF CancelSign
  <2> QED BY <1>3, <2>1, CarriesOn DEF CancelSign, At
<1>4. ASSUME OriginalFinalized("alarm")
      PROVE  Outcome
  BY <1>4, CarriesOn DEF OriginalFinalized
<1>5. CASE CancelPrepare("alarm")
  <2>1. \/ EndsQuietly("alarm") \/ OriginalFinalized("alarm")
        \/ Continue("alarm", [pc |-> "cancel-observe", r |-> h.r]) /\ UNCHANGED <<alarm, stops>>
    <3>1. UNCHANGED <<rows, queue, inputs, alarm, stops, admitting, chain>>
          => UNCHANGED <<alarm, stops>>
      OBVIOUS
    <3> QED BY <1>1, <1>5, <3>1, Zenon DEF CancelPrepare, EndsQuietly, Reasons
  <2> QED BY <1>4, <1>5, <2>1, CarriesOn, QuietOutcome DEF CancelPrepare, At
<1>6. CASE CancelObserve("alarm")
  <2> DEFINE e == [pc |-> "cancel-end", r |-> h.r, found |-> executed[Cancel(h.r)]]
  <2>1. \/ EndsQuietly("alarm") \/ OriginalFinalized("alarm")
        \/ Continue("alarm", e) /\ UNCHANGED <<alarm, stops>>
        \/ Done("alarm")
    BY <1>1, <1>6, Zenon DEF CancelObserve, EndsQuietly, Reasons
  <2>2. e.pc = "cancel-end"
    OBVIOUS
  <2> HIDE DEF e
  <2>3. Continue("alarm", e) => handler'["alarm"] = e
    BY <1>1, ContinuesAt
  <2>4. Continue("alarm", e) => handler'["alarm"].pc = "cancel-end"
    BY <2>2, <2>3
  <2> QED BY <1>4, <1>6, <2>1, <2>4, QuietOutcome DEF CancelObserve, At, Outcome
<1>7. CASE CancelEnd("alarm")
  BY <1>1, <1>7 DEF CancelEnd, At, Outcome
<1> QED BY <1>2, <1>3, <1>5, <1>6, <1>7 DEF Cancellation

\* No step of the alarm forgets the queue.
LEMMA AlarmStepScheduled ==
    ASSUME IWork, IReward', AlarmStep
    PROVE  Awake' /\ WorkScheduled'
PROOF
<1>1. handler \in [Thread -> Handler] /\ "alarm" \in Thread
  BY DEF IWork, IReward, TypeReward, Thread
<1>2. CASE AlarmStart
  <2>1. CASE Continue("alarm", [pc |-> "verify"])
    BY <1>1, <2>1 DEF Continue, Awake, WorkScheduled, At
  <2>2. CASE /\ ~(Reason \in Hopeful /\ \E r \in Request : rows[r].status \notin {"none", "ended"})
             /\ UNCHANGED handler
    <3>1. UNCHANGED <<rows, stops>> /\ handler["alarm"].pc = "idle"
      BY <1>2 DEF AlarmStart, At, db
    <3>2. Reason' = Reason /\ Unsettled' = Unsettled
      BY <3>1 DEF Reason, Unsettled
    <3>3. Unsettled # {} => \E r \in Request : rows[r].status \notin {"none", "ended"}
      BY DEF Unsettled, Unfinished
    <3> QED BY <2>2, <3>1, <3>2, <3>3 DEF Awake, WorkScheduled, Hopeful
  <2> QED BY <1>2, <2>1, <2>2 DEF AlarmStart, Hopeful
<1>3. CASE AlarmVerify
  <2>1. CASE Unavailable("alarm")
    <3>1. PICK reason \in {"rpc-unavailable", "operator-stopped"} : Fail("alarm", reason)
      BY <2>1 DEF Unavailable
    <3>2. Awake'
      BY <1>1, <3>1 DEF Fail, Continue, Idle, Awake
    <3>3. CASE reason = "rpc-unavailable"
      BY <3>1, <3>2, <3>3 DEF Fail, WorkScheduled
    <3>4. CASE reason = "operator-stopped"
      <4>1. stops' = stops \cup {"operator-stopped"} /\ stops' \in SUBSET Reasons
        BY <3>1, <3>4 DEF Fail, IReward, TypeReward
      <4>2. Reason' \notin Hopeful
        BY <4>1, ReasonFacts DEF Reason, Firm
      <4> QED BY <3>2, <4>2 DEF WorkScheduled, Hopeful
    <3> QED BY <3>3, <3>4
  <2>2. CASE /\ stops' = (stops \ {"rpc-unavailable"}) \cup {"restore-stopped"}
             /\ Continue("alarm", Idle)
    <3>1. stops' \in SUBSET Reasons /\ "restore-stopped" \in stops'
      BY <2>2 DEF IReward, TypeReward
    <3>2. Reason' \notin Hopeful
      BY <3>1, ReasonFacts DEF Reason, Firm
    <3>3. Awake'
      BY <1>1, <2>2 DEF Continue, Idle, Awake
    <3> QED BY <3>2, <3>3 DEF WorkScheduled, Hopeful
  <2>3. CASE /\ stops' = stops \ {"rpc-unavailable"} /\ UNCHANGED db
             /\ IF ReasonOf(stops') = "healthy" /\ Unsettled # {}
                THEN \E r \in Request : First(Unsettled, r) /\ Continue("alarm", Take(r))
                ELSE Continue("alarm", Idle)
    <3>1. Awake'
      BY <2>3 DEF Awake
    <3>2. Unsettled' = Unsettled
      BY <2>3 DEF Unsettled, db
    <3>3. Reason' \in Hopeful => ReasonOf(stops') = "healthy"
      <4>1. stops' \in SUBSET Reasons /\ "rpc-unavailable" \notin stops'
        BY <2>3 DEF IReward, TypeReward
      <4> QED BY <4>1, ReasonFacts DEF Reason
    <3>4. ASSUME NEW r \in Request, Continue("alarm", Take(r))
          PROVE  ~At("alarm", "idle")'
      <4>1. Take(r).pc # "idle"
        BY DEF Take
      <4> QED BY <1>1, <3>4, <4>1 DEF Continue, At
    <3> QED BY <2>3, <3>1, <3>2, <3>3, <3>4 DEF WorkScheduled, Hopeful
  <2> QED BY <1>3, <2>1, <2>2, <2>3 DEF AlarmVerify
<1>4. CASE Dispatch \/ Submit \/ SaveAttempt \/ Broadcast \/ Reconcile \/ Cancellation("alarm")
  <2>1. Outcome /\ handler["alarm"].pc \notin {"idle", "verify"}
    BY <1>4, DispatchOutcome, SendingOutcome, CancellationOutcome DEF IWork
  <2> QED BY <2>1, OutcomeSchedules
<1> QED BY <1>2, <1>3, <1>4 DEF AlarmStep

\* Nor does a step of an operator's cancellation.
LEMMA OperatorStepScheduled ==
    ASSUME IWork, IReward', Cancellation("operator")
    PROVE  Awake' /\ WorkScheduled'
PROOF
<1>1. handler \in [Thread -> Handler] /\ "operator" \in Thread /\ "alarm" \in Thread
  BY DEF IWork, IReward, TypeReward, Thread
<1>2. CASE Done("operator")
  <2>1. handler'["alarm"] = handler["alarm"] /\ alarm' = TRUE /\ stops' = stops
    BY <1>1, <1>2 DEF Done, Continue
  <2> QED BY <2>1 DEF IWork, Awake, WorkScheduled
<1>3. ASSUME NEW h, Continue("operator", h), UNCHANGED stops, alarm => alarm',
             UNCHANGED <<rows, admitting>>
      PROVE  Awake' /\ WorkScheduled'
  <2>1. handler'["alarm"] = handler["alarm"]
    BY <1>1, <1>3 DEF Continue
  <2>2. Awake'
    BY <1>3, <2>1 DEF IWork, Awake
  <2>3. stops' \subseteq Reasons
    BY DEF IReward, TypeReward
  <2>4. \A r \in Request : Admitting(r, "schedule") => Admitting(r, "schedule")'
    BY <1>3 DEF Admitting
  <2>5. At("alarm", "idle")' => At("alarm", "idle")
    BY <2>1 DEF At
  <2>6. WorkScheduled'
    BY <1>3, <2>3, <2>4, <2>5, StillScheduled
  <2> QED BY <2>2, <2>6
<1>4. ASSUME NEW reason, Fail("operator", reason)
      PROVE  Continue("operator", Idle) /\ UNCHANGED stops /\ (alarm => alarm')
  BY <1>4 DEF Fail
<1>5. ASSUME EndsQuietly("operator")
      PROVE  Awake' /\ WorkScheduled'
  <2>1. CASE Unavailable("operator") \/ OutOfGas("operator")
    <3>1. PICK reason \in Reasons : Fail("operator", reason)
      BY <2>1 DEF Unavailable, OutOfGas, Reasons
    <3>2. UNCHANGED <<rows, admitting>>
      BY <2>1 DEF Unavailable, OutOfGas, db
    <3> QED BY <1>3, <1>4, <3>1, <3>2
  <2>2. ASSUME NEW reason \in Reasons, Fail("operator", reason), NoWrite
        PROVE  Awake' /\ WorkScheduled'
    <3>1. UNCHANGED <<rows, admitting>>
      BY <2>2 DEF NoWrite, db
    <3> QED BY <1>3, <1>4, <2>2, <3>1
  <2> QED BY <1>2, <1>5, <2>1, <2>2 DEF EndsQuietly
<1>6. ASSUME OriginalFinalized("operator")
      PROVE  Awake' /\ WorkScheduled'
  <2>1. /\ Continue("operator", Idle) /\ UNCHANGED stops /\ (alarm => alarm')
        /\ UNCHANGED <<rows, admitting>>
    BY <1>6 DEF OriginalFinalized, NoWrite, db
  <2> QED BY <1>3, <2>1
<1> DEFINE GoesAhead == /\ \E h : Continue("operator", h)
                        /\ UNCHANGED <<alarm, stops>> /\ UNCHANGED <<rows, admitting>>
<1>7. ASSUME GoesAhead
      PROVE  Awake' /\ WorkScheduled'
  <2>1. PICK h : Continue("operator", h)
    BY <1>7
  <2> QED BY <1>3, <1>7, <2>1
<1>8. NoWrite => UNCHANGED <<rows, admitting>>
  BY DEF NoWrite, db
<1>9. UNCHANGED <<rows, queue, inputs, alarm, stops, admitting, chain>>
      => UNCHANGED <<alarm, stops>> /\ UNCHANGED <<rows, admitting>>
  OBVIOUS
<1> HIDE DEF GoesAhead
<1>10. CASE CancelEnter("operator")
  <2>1. EndsQuietly("operator") \/ GoesAhead
    BY <1>8, <1>9, <1>10, Zenon DEF CancelEnter, EndsQuietly, Reasons, GoesAhead
  <2> QED BY <1>5, <1>7, <2>1
<1>11. CASE CancelSign("operator")
  <2>1. GoesAhead
    BY <1>9, <1>11, Zenon DEF CancelSign, GoesAhead
  <2> QED BY <1>7, <2>1
<1>12. CASE CancelPrepare("operator")
  <2>1. EndsQuietly("operator") \/ OriginalFinalized("operator") \/ GoesAhead
    BY <1>8, <1>9, <1>12, Zenon DEF CancelPrepare, EndsQuietly, Reasons, GoesAhead
  <2> QED BY <1>5, <1>6, <1>7, <2>1
<1>13. CASE CancelObserve("operator")
  <2>1. \/ EndsQuietly("operator") \/ OriginalFinalized("operator") \/ GoesAhead
        \/ Done("operator")
    BY <1>8, <1>9, <1>13, Zenon DEF CancelObserve, EndsQuietly, Reasons, GoesAhead
  <2> QED BY <1>2, <1>5, <1>6, <1>7, <2>1
<1>14. CASE CancelEnd("operator")
  <2>1. EndsQuietly("operator") \/ Done("operator")
    BY <1>14, Zenon DEF CancelEnd, EndsQuietly, Reasons
  <2> QED BY <1>2, <1>5, <2>1
<1> QED BY <1>10, <1>11, <1>12, <1>13, <1>14 DEF Cancellation

\* A step that leaves the alarm's handler, the records of work and the alarm alone.
LEMMA AsideScheduled ==
    ASSUME IWork, IReward', handler'["alarm"] = handler["alarm"], alarm' = alarm,
           stops' = stops \/ \E reason \in Firm : stops' = stops \cup {reason},
           \A r \in Request : Admitting(r, "schedule") => Admitting(r, "schedule")',
           \A r \in Request : rows'[r].status \in Unfinished => rows[r].status \in Unfinished
    PROVE  Awake' /\ WorkScheduled'
PROOF
<1>1. Awake'
  BY DEF IWork, Awake, Firm
<1>2. stops' \subseteq Reasons /\ (stops' = stops \/ stops' \cap Firm # {})
  BY DEF IReward, TypeReward
<1>3. At("alarm", "idle")' => At("alarm", "idle")
  BY DEF At
<1> QED BY <1>1, <1>2, <1>3, StillScheduled

\* An admission sets the alarm or still has to.
LEMMA AdmissionScheduled ==
    ASSUME IWork, IReward', NEW r \in Request,
           \/ \E o \in Owner : AdmitStart(r, o)
           \/ AdmitFunds(r) \/ AdmitCommit(r) \/ AdmitSchedule(r) \/ Receive(r)
    PROVE  Awake' /\ WorkScheduled'
PROOF
<1>1. DOMAIN admitting = Request /\ rows \in [Request -> RewardRow]
  BY DEF IWork, IReward, TypeReward
<1>2. ASSUME NEW o \in Owner, AdmitStart(r, o)
      PROVE  Awake' /\ WorkScheduled'
  <2>1. /\ UNCHANGED <<rows, stops, alarm, handler>>
        /\ \A q \in Request : q # r => admitting'[q] = admitting[q]
        /\ ~Admitting(r, "schedule")
    BY <1>1, <1>2 DEF AdmitStart, Admitting, db
  <2> QED BY <2>1, AsideScheduled DEF Admitting
<1>3. CASE AdmitFunds(r)
  <2>1. /\ UNCHANGED <<rows, alarm, handler>>
        /\ stops' = stops \/ stops' = stops \cup {"restore-stopped"}
        /\ \A q \in Request : q # r => admitting'[q] = admitting[q]
        /\ ~Admitting(r, "schedule")
    BY <1>1, <1>3 DEF AdmitFunds, Admitting, db
  <2> QED BY <2>1, AsideScheduled DEF Admitting, Firm
<1>4. CASE AdmitCommit(r)
  <2>1. /\ UNCHANGED <<stops, alarm, handler>>
        /\ \A q \in Request : q # r => admitting'[q] = admitting[q]
        /\ ~Admitting(r, "schedule")
    BY <1>1, <1>4 DEF AdmitCommit, Admitting
  <2>2. CASE UNCHANGED rows
    BY <2>1, <2>2, AsideScheduled DEF Admitting
  <2>3. CASE admitting' = [admitting EXCEPT ![r] = [pc |-> "schedule"]]
    <3>1. Admitting(r, "schedule")'
      BY <1>1, <2>3, RewardAssumption DEF Admitting
    <3>2. Awake'
      BY <2>1 DEF IWork, Awake
    <3> QED BY <3>1, <3>2 DEF WorkScheduled
  <2> QED BY <1>4, <2>2, <2>3 DEF AdmitCommit
<1>5. CASE AdmitSchedule(r)
  BY <1>5 DEF AdmitSchedule, IWork, Awake, WorkScheduled
<1>6. CASE Receive(r)
  <2>1. UNCHANGED <<stops, alarm, handler, admitting>>
    BY <1>6 DEF Receive
  <2>2. rows[r].status = "finalized" /\ rows'[r].status = "received"
    BY <1>1, <1>6 DEF Receive, RewardRow
  <2>3. \A q \in Request : q # r => rows'[q] = rows[q]
    BY <1>1, <1>6 DEF Receive
  <2>4. \A q \in Request : rows'[q].status \in Unfinished => rows[q].status \in Unfinished
    BY <2>2, <2>3 DEF Unfinished
  <2> QED BY <2>1, <2>4, AsideScheduled DEF Admitting
<1> QED BY <1>2, <1>3, <1>4, <1>5, <1>6

\* No other step forgets the queue.
LEMMA RestScheduled ==
    ASSUME IWork, IReward', ~AdmissionCrash,
           \/ UNCHANGED vars
           \/ \E r \in Request : EndUnsigned(r) \/ CancelSigned(r)
           \/ \E reason \in Stops : Stop(reason)
           \/ Resume \/ Restart
           \/ \E c \in Base : Fund(c)
           \/ \E op \in Op : Finalize(op)
           \/ \E lost \in SUBSET Op : Reorganize(lost)
    PROVE  Awake' /\ WorkScheduled'
PROOF
<1>1. handler \in [Thread -> Handler] /\ "operator" \in Thread /\ "alarm" \in Thread
  BY DEF IWork, IReward, TypeReward, Thread
<1>2. ASSUME UNCHANGED <<rows, stops, alarm, handler, admitting>>
      PROVE  Awake' /\ WorkScheduled'
  BY <1>2, AsideScheduled DEF Admitting
<1>3. CASE UNCHANGED vars
  <2>1. UNCHANGED db /\ UNCHANGED <<stops, alarm, handler, admitting>>
    BY <1>3 DEF vars
  <2>2. UNCHANGED rows
    BY <2>1 DEF db
  <2> QED BY <1>2, <2>1, <2>2
<1>4. ASSUME NEW r \in Request, EndUnsigned(r)
      PROVE  Awake' /\ WorkScheduled'
  BY <1>4 DEF EndUnsigned, IWork, Awake, WorkScheduled
<1>5. ASSUME NEW r \in Request, CancelSigned(r)
      PROVE  Awake' /\ WorkScheduled'
  <2>1. UNCHANGED <<rows, stops, alarm, admitting>> /\ handler'["alarm"] = handler["alarm"]
    BY <1>1, <1>5 DEF CancelSigned, Continue, db
  <2> QED BY <2>1, AsideScheduled DEF Admitting
<1>6. ASSUME NEW reason \in Stops, Stop(reason)
      PROVE  Awake' /\ WorkScheduled'
  <2>1. UNCHANGED <<rows, alarm, admitting, handler>> /\ stops' = stops \cup {reason}
    BY <1>6 DEF Stop, db
  <2>2. reason \in Firm
    BY RewardAssumption DEF Firm
  <2> QED BY <2>1, <2>2, AsideScheduled DEF Admitting
<1>7. CASE Resume
  <2>1. alarm' = TRUE /\ stops' \subseteq stops /\ UNCHANGED handler
    BY <1>7 DEF Resume
  <2> QED BY <2>1 DEF IWork, Awake, WorkScheduled
<1>8. CASE Restart
  <2>1. handler'["alarm"].pc = "idle" /\ UNCHANGED <<rows, stops>>
    BY <1>1, <1>8 DEF Restart, Idle, db
  <2>2. Awake'
    BY <2>1 DEF Awake
  <2>3. alarm' = (alarm \/ handler["alarm"] # Idle)
    BY <1>8 DEF Restart
  <2>4. At("alarm", "idle") \/ handler["alarm"] # Idle
    BY DEF At, Idle
  <2>5. \A r \in Request : ~Admitting(r, "schedule")
    BY <1>8 DEF Restart
  <2>6. Reason' = Reason /\ Unsettled' = Unsettled
    BY <2>1 DEF Reason, Unsettled
  <2> QED BY <2>2, <2>3, <2>4, <2>5, <2>6 DEF IWork, WorkScheduled
<1>9. ASSUME NEW c \in Base, Fund(c)
      PROVE  Awake' /\ WorkScheduled'
  BY <1>2, <1>9 DEF Fund, db
<1>10. ASSUME NEW op \in Op, Finalize(op)
       PROVE  Awake' /\ WorkScheduled'
  BY <1>2, <1>10 DEF Finalize, db
<1>11. ASSUME NEW lost \in SUBSET Op, Reorganize(lost)
       PROVE  Awake' /\ WorkScheduled'
  BY <1>2, <1>11 DEF Reorganize, db
<1> QED BY <1>3, <1>4, <1>5, <1>6, <1>7, <1>8, <1>9, <1>10, <1>11

\* As long as the object does not stop between an admission and its alarm, no early
\* return and no failure of runRewardAlarm forgets work that may go on.
THEOREM RewardWorkScheduled ==
    ASSUME ~AdmissionCrash
    PROVE  Spec => []WorkScheduled
PROOF
<1>1. Init => IWork
  BY InitReward DEF Init, IWork, Awake, WorkScheduled, Unsettled, Unfinished, Idle, Thread
<1>2. IWork /\ [Next]_vars => IWork'
  <2> SUFFICES ASSUME IWork, [Next]_vars
               PROVE  IWork'
    OBVIOUS
  <2>1. IReward'
    BY NextReward DEF IWork
  <2>2. Awake' /\ WorkScheduled'
    <3>1. CASE AlarmStep
      BY <2>1, <3>1, AlarmStepScheduled
    <3>2. CASE Cancellation("operator")
      BY <2>1, <3>2, OperatorStepScheduled
    <3>3. CASE \E r \in Request, o \in Owner : AdmitStart(r, o)
      BY <2>1, <3>3, AdmissionScheduled
    <3>4. CASE \E r \in Request :
                  AdmitFunds(r) \/ AdmitCommit(r) \/ AdmitSchedule(r) \/ Receive(r)
      BY <2>1, <3>4, AdmissionScheduled
    <3>5. CASE \/ UNCHANGED vars
               \/ \E r \in Request : EndUnsigned(r) \/ CancelSigned(r)
               \/ \E reason \in Stops : Stop(reason)
               \/ Resume \/ Restart
               \/ \E c \in Base : Fund(c)
               \/ \E op \in Op : Finalize(op)
               \/ \E lost \in SUBSET Op : Reorganize(lost)
      BY <2>1, <3>5, RestScheduled
    <3> QED BY <3>1, <3>2, <3>3, <3>4, <3>5, Zenon DEF Next
  <2> QED BY <2>1, <2>2 DEF IWork
<1>3. IWork => WorkScheduled
  BY DEF IWork
<1> QED BY <1>1, <1>2, <1>3, PTL DEF Spec
-----------------------------------------------------------------------------
(***************************************************************************)
(* What was promised is covered.  While finalized history stands, the       *)
(* records of final results agree with the chain, so a step gives back a     *)
(* promise only for good; a draft accounts for all its inputs are worth; and *)
(* an admission that will commit, because the version of the ledger is still *)
(* the one it started from, has counted the coins of a time since which only *)
(* paid promises consumed any.                                              *)
(***************************************************************************)

Unpaid == {r \in ActiveReservations : executed[Pay(r)] = None}

\* A recorded result is that of the chain.
Confirmed(r) ==
    /\ rows[r].status \in {"finalized", "received"} =>
          executed[Pay(r)] # None /\ executed[Pay(r)] = rows[r].checkpoint
    /\ rows[r].status = "ended" /\ cancels[r].phase # "none" =>
          executed[Cancel(r)] # None /\ executed[Cancel(r)] = cancels[r].checkpoint
    /\ rows[r].status = "none" => rows[r].version = 0 /\ rows[r].phase = "none"
    /\ cancels[r].checkpoint # None => rows[r].status = "ended"

\* These coins exist and suffice for what is asked for.
Enough(r, coins) == (\A c \in coins : Made(c)) /\ WorthOf(coins) >= RewardAmount[r]

Drawn == {"draft-saved", "signature-started"}

\* A draft x accounts for all its inputs are worth, a cancellation y for all of its input.
Balanced(r, x, y) ==
    /\ x.phase \in Drawn => Enough(r, x.coins) /\ x.change = WorthOf(x.coins) - RewardAmount[r]
    /\ y.phase # "none" => Made(y.input) /\ y.amount = Worth(y.input)

\* What a handler has found is final, the coins it has chosen exist.
FoundSound(h) ==
    /\ h.pc = "judge" /\ h.found # None => executed[Pay(h.r)] = h.found
    /\ h.pc = "cancel-end" => executed[Cancel(h.r)] = h.found
    /\ h.pc \in Building => Enough(h.r, h.coins)

\* An admission may promise what it has counted.
Covered(a) ==
    a # None /\ a.pc \in {"funds", "commit"} =>
        /\ a.version \in Nat /\ a.version <= LedgerVersion
        /\ a.pc = "commit" =>
              /\ a.total \in Nat
              /\ a.version = LedgerVersion =>
                    a.total + AmountOf(Unpaid) <= WorthOf(Available) + AmountOf(ActiveReservations)

Book ==
    /\ \A r \in Request : Confirmed(r) /\ Balanced(r, rows[r], cancels[r]) /\ Covered(admitting[r])
    /\ \A t \in Thread : FoundSound(handler[t])
    /\ AmountOf(Unpaid) <= WorthOf(Available)

IBacked == IReward /\ (fork = 0 => Book)

\* The versions of some rows, added up.
VersionOf(u) == SumOver([r \in Request |-> u[r].version], Request)

\* The ledger's version is a sum over the requests.
LEMMA VersionsSum ==
    ASSUME NEW u, \A r \in Request : u[r].version \in Nat
    PROVE  MapThenSumSet(LAMBDA r : u[r].version, Request)
             = SumOver([r \in Request |-> u[r].version], Request)
PROOF
<1> DEFINE S == Request
           g == [r \in S |-> u[r].version]
           Body(F, s) == IF s = {} THEN 0 ELSE u[Chosen(s)].version + F[s \ {Chosen(s)}]
           G == CHOOSE F : F = [s \in SUBSET S |-> Body(F, s)]
<1>1. MapThenSumSet(LAMBDA r : u[r].version, S) = G[S]
  BY DEF MapThenSumSet, MapThenFoldSet, Chosen
<1>2. \A F : FoldedBy(F, g, S) <=> F = [s \in SUBSET S |-> Body(F, s)]
  <2> SUFFICES ASSUME NEW F
               PROVE  FoldedBy(F, g, S) <=> F = [s \in SUBSET S |-> Body(F, s)]
    OBVIOUS
  <2>1. \A s \in SUBSET S : s # {} => u[Chosen(s)].version = g[Chosen(s)]
    BY ChosenIn
  <2>2. [s \in SUBSET S |-> Body(F, s)]
          = [s \in SUBSET S |-> IF s = {} THEN 0 ELSE g[Chosen(s)] + F[s \ {Chosen(s)}]]
    <3> HIDE DEF g
    <3> QED BY <2>1
  <2> QED BY <2>2 DEF FoldedBy
<1>3. \A x \in S : g[x] \in Int
  OBVIOUS
<1> HIDE DEF g
<1>4. IsFiniteSet(S)
  BY FiniteAssumption
<1>5. \E F : FoldedBy(F, g, S)
  BY <1>3, <1>4, FoldsExist
<1> HIDE DEF Body
<1>6. G = [s \in SUBSET S |-> Body(G, s)]
  BY <1>2, <1>5
<1> HIDE DEF G
<1>7. FoldedBy(G, g, S)
  BY <1>2, <1>6
<1>8. SumOver(g, S) = G[S]
  BY <1>3, <1>4, <1>7, SumValue
<1> QED BY <1>1, <1>8 DEF g

\* The version of the ledger is a number that grows with the rows' versions, and
\* one that stays the same says that none of them changed.
LEMMA LedgerGrows ==
    ASSUME NEW u, NEW v,
           \A r \in Request : /\ u[r].version \in Nat /\ v[r].version \in Nat
                              /\ u[r].version <= v[r].version
    PROVE  /\ VersionOf(u) \in Nat /\ VersionOf(v) \in Nat /\ VersionOf(u) <= VersionOf(v)
           /\ VersionOf(u) = VersionOf(v) => \A r \in Request : u[r].version = v[r].version
PROOF
<1> DEFINE g == [r \in Request |-> u[r].version]
           h == [r \in Request |-> v[r].version]
<1>1. VersionOf(u) = SumOver(g, Request) /\ VersionOf(v) = SumOver(h, Request)
  BY DEF VersionOf
<1>2. \A r \in Request : /\ g[r] = u[r].version /\ h[r] = v[r].version
                         /\ g[r] \in Nat /\ h[r] \in Nat /\ g[r] <= h[r]
  OBVIOUS
<1> HIDE DEF g, h
<1>3. SumOver(g, Request) \in Nat /\ SumOver(h, Request) \in Nat
  BY <1>2, FiniteAssumption, SumType
<1>4. SumOver(g, Request) <= SumOver(h, Request)
  BY <1>2, FiniteAssumption, SumGrows
<1>5. ASSUME SumOver(g, Request) = SumOver(h, Request), NEW r \in Request
      PROVE  g[r] = h[r]
  BY <1>2, <1>5, FiniteAssumption, SumKeeps
<1> QED BY <1>1, <1>2, <1>3, <1>4, <1>5

\* The version of the ledger is that of its rows.
LedgerSummed == LedgerVersion = VersionOf(rows)

\* It is, in every state that the invariant allows.
LEMMA LedgerSum == IReward => LedgerSummed
PROOF
<1>1. ASSUME IReward
      PROVE  \A r \in Request : rows[r].version \in Nat
  BY <1>1 DEF IReward, TypeReward, RewardRow
<1> QED BY <1>1, VersionsSum DEF LedgerSummed, LedgerVersion, VersionOf

\* It is so after a step too.
LEMMA LedgerSumNext == IReward' => LedgerSummed'
PROOF
<1>1. IReward => LedgerSummed
  BY LedgerSum
<1> QED BY <1>1, PTL

\* Amounts add up to a number, of more requests to more.
LEMMA AmountSums ==
    /\ AmountOf({}) = 0
    /\ \A S \in SUBSET Request : AmountOf(S) \in Nat
    /\ \A S \in SUBSET Request : \A T \in SUBSET S : AmountOf(T) <= AmountOf(S)
    /\ \A S \in SUBSET Request : \A r \in Request :
          /\ r \in S => AmountOf(S \ {r}) = AmountOf(S) - RewardAmount[r]
          /\ AmountOf(S \cup {r}) <= AmountOf(S) + RewardAmount[r]
PROOF
<1>1. \A S : AmountOf(S) = SumOver(RewardAmount, S)
  BY DEF AmountOf, SumOver
<1>2. \A r \in Request : RewardAmount[r] \in Nat
  BY RewardAssumption
<1>3. \A S \in SUBSET Request : IsFiniteSet(S)
  BY FiniteAssumption, FS_Subset
<1>4. AmountOf({}) = 0
  BY <1>1, <1>2, FiniteAssumption, SumType
<1>5. ASSUME NEW S \in SUBSET Request
      PROVE  AmountOf(S) \in Nat
  <2>1. \A r \in S : RewardAmount[r] \in Nat
    BY <1>2
  <2> QED BY <1>1, <1>3, <2>1, SumType
<1>6. ASSUME NEW S \in SUBSET Request, NEW T \in SUBSET S
      PROVE  AmountOf(T) <= AmountOf(S)
  <2>1. \A r \in S : RewardAmount[r] \in Nat
    BY <1>2
  <2> QED BY <1>1, <1>3, <2>1, SumOfPart
<1>7. ASSUME NEW S \in SUBSET Request, NEW r \in S
      PROVE  AmountOf(S \ {r}) = AmountOf(S) - RewardAmount[r]
  <2>1. \A q \in S : RewardAmount[q] \in Int
    BY <1>2
  <2>2. AmountOf(S) = RewardAmount[r] + AmountOf(S \ {r})
    BY <1>1, <1>3, <2>1, SumWithout
  <2>3. AmountOf(S \ {r}) \in Nat /\ RewardAmount[r] \in Nat
    BY <1>2, <1>5
  <2> QED BY <2>2, <2>3
<1>8. ASSUME NEW S \in SUBSET Request, NEW r \in Request
      PROVE  AmountOf(S \cup {r}) <= AmountOf(S) + RewardAmount[r]
  <2>1. CASE r \in S
    <3>1. S \cup {r} = S
      BY <2>1
    <3>2. AmountOf(S \cup {r}) = AmountOf(S) /\ AmountOf(S) \in Nat /\ RewardAmount[r] \in Nat
      BY <1>2, <1>5, <3>1
    <3> QED BY <3>2
  <2>2. CASE r \notin S
    <3>1. \A q \in S \cup {r} : RewardAmount[q] \in Int
      BY <1>2
    <3>2. AmountOf(S \cup {r}) = RewardAmount[r] + AmountOf(S)
      BY <1>1, <1>3, <2>2, <3>1, SumWith
    <3> QED BY <1>2, <1>5, <3>2
  <2> QED BY <2>1, <2>2
<1> QED BY <1>4, <1>5, <1>6, <1>7, <1>8

\* Coins that exist are worth something, more of them more.
Valued ==
    /\ \A c \in Coin : Worth(c) \in Int /\ (Made(c) => Worth(c) \in Nat)
    /\ \A S \in SUBSET Coin : WorthOf(S) = SumOver(Worths, S) /\ WorthOf(S) \in Int
    /\ \A S \in SUBSET Available : WorthOf(S) \in Nat
    /\ \A S \in SUBSET Coin : \A T \in SUBSET S : (\A c \in S : Made(c)) => WorthOf(T) <= WorthOf(S)
    /\ \A c \in Coin : WorthOf({c}) = Worth(c)

\* What the amounts of coins are, one by one and added up.
LEMMA CoinsValued == TypeReward => Valued
PROOF
<1> SUFFICES ASSUME TypeReward
             PROVE  Valued
  OBVIOUS
<1>1. \A c \in Coin : Worth(c) \in Int
  BY WorthType
<1>2. ASSUME NEW c \in Coin, Made(c)
      PROVE  Worth(c) \in Nat
  <2>1. CASE c \in Base
    BY <2>1, RewardAssumption DEF Worth
  <2>2. CASE c \notin Base
    BY <1>1, <1>2, <2>2 DEF Made
  <2> QED BY <2>1, <2>2
<1>3. \A S \in SUBSET Coin : WorthOf(S) = SumOver(Worths, S)
  BY <1>1, WorthSums
<1>4. \A S \in SUBSET Coin : WorthOf(S) \in Int
  BY WorthType
<1>5. \A S \in SUBSET Coin : IsFiniteSet(S)
  BY FinitelyMany
<1>6. ASSUME NEW S \in SUBSET Coin, \A c \in S : Made(c)
      PROVE  WorthOf(S) \in Nat /\ \A T \in SUBSET S : WorthOf(T) <= WorthOf(S)
  <2>1. \A c \in S : Worths[c] \in Nat
    BY <1>2, <1>6 DEF Worths
  <2>2. WorthOf(S) \in Nat
    BY <1>3, <1>5, <2>1, SumType
  <2>3. ASSUME NEW T \in SUBSET S
        PROVE  WorthOf(T) <= WorthOf(S)
    <3>1. SumOver(Worths, T) <= SumOver(Worths, S)
      BY <1>5, <2>1, SumOfPart
    <3> QED BY <1>3, <3>1
  <2> QED BY <2>2, <2>3
<1>7. \A S \in SUBSET Available : WorthOf(S) \in Nat
  <2>1. \A S \in SUBSET Available : S \in SUBSET Coin /\ \A c \in S : Made(c)
    BY DEF Available
  <2> QED BY <1>6, <2>1
<1>8. ASSUME NEW c \in Coin
      PROVE  WorthOf({c}) = Worth(c)
  <2>1. IsFiniteSet({c}) /\ {c} \in SUBSET Coin /\ {c} \ {c} = {} /\ Worths[c] = Worth(c)
    BY <1>5 DEF Worths
  <2>2. \A x \in {c} : Worths[x] \in Int
    BY <1>1, <2>1
  <2>3. SumOver(Worths, {c}) = Worths[c] + SumOver(Worths, {c} \ {c}) /\ SumOver(Worths, {}) = 0
    BY <2>1, <2>2, SumWithout, SumIsInt
  <2>4. SumOver(Worths, {c}) = Worths[c] + 0 /\ Worths[c] \in Int
    BY <2>1, <2>2, <2>3
  <2> QED BY <1>3, <2>1, <2>4
<1> QED BY <1>1, <1>2, <1>3, <1>4, <1>6, <1>7, <1>8 DEF Valued

\* They are so after a step too.
LEMMA CoinsValuedNext == TypeReward' => Valued'
PROOF
<1>1. TypeReward => Valued
  BY CoinsValued
<1> QED BY <1>1, PTL

\* What is counted are numbers.
Counts ==
    /\ Available \in SUBSET Coin /\ ActiveReservations \in SUBSET Request
    /\ Unpaid \in SUBSET ActiveReservations /\ Unpaid \in SUBSET Request
    /\ WorthOf(Available) \in Nat
    /\ AmountOf(ActiveReservations) \in Nat /\ AmountOf(Unpaid) \in Nat
    /\ AmountOf(Unpaid) <= AmountOf(ActiveReservations)

\* They hold whenever the invariant does.
LEMMA Counted == IReward => Counts
PROOF
<1> SUFFICES ASSUME IReward
             PROVE  Counts
  OBVIOUS
<1>1. /\ Available \in SUBSET Coin /\ ActiveReservations \in SUBSET Request
      /\ Unpaid \in SUBSET ActiveReservations /\ Unpaid \in SUBSET Request
  BY DEF Available, ActiveReservations, Unpaid
<1>2. WorthOf(Available) \in Nat
  BY <1>1, CoinsValued DEF IReward, Valued
<1> QED BY <1>1, <1>2, AmountSums DEF Counts

\* And after a step.
LEMMA CountedNext == IReward' => Counts'
PROOF
<1>1. IReward => Counts
  BY Counted
<1> QED BY <1>1, PTL

\* A step in which no operation becomes final.
NothingSettles == UNCHANGED <<deposited, executed, fork>>

\* The coins that exist stay what they are.
CoinsStay == \A c \in Coin : Made(c) => Made(c)' /\ Worth(c)' = Worth(c)

\* They are together worth what they were.
LEMMA WorthStays ==
    ASSUME TypeReward, TypeReward', NEW S \in SUBSET Coin, \A c \in S : Worth(c)' = Worth(c)
    PROVE  WorthOf(S)' = WorthOf(S)
PROOF
<1>1. WorthOf(S) = SumOver(Worths, S) /\ WorthOf(S)' = SumOver(Worths', S)
  BY CoinsValued, CoinsValuedNext DEF Valued
<1>2. IsFiniteSet(S)
  BY FinitelyMany
<1>3. \A c \in S : Worths[c] \in Int /\ Worths'[c] = Worths[c]
  BY CoinsValued DEF Valued, Worths
<1>4. SumOver(Worths', S) = SumOver(Worths, S)
  BY ONLY <1>2, <1>3, SumAgrees
<1> QED BY <1>1, <1>4

\* The coins there are depend on the chain and on what was signed.
LEMMA AvailableKept ==
    ASSUME IReward, IReward', NothingSettles, DraftsKept
    PROVE  CoinsStay /\ Available' = Available /\ WorthOf(Available)' = WorthOf(Available)
PROOF
<1>1. executed' = executed /\ deposited' = deposited
  BY DEF NothingSettles
<1>2. ASSUME NEW op \in Op, executed[op] # None
      PROVE  InputsOf(op)' = InputsOf(op) /\ (op \notin Base => Worth(op)' = Worth(op))
  <2>1. op[2] \in Request /\ op \in {Pay(op[2]), Cancel(op[2])}
    BY Operations
  <2>2. op \in sent
    BY <1>2 DEF IReward, ChainSound
  <2>3. CASE op = Pay(op[2])
    <3>1. rows[op[2]].phase = "signature-started"
      BY <2>1, <2>2, <2>3 DEF IReward, Consistent
    <3>2. op[1] = "pay"
      BY <2>3 DEF Pay
    <3> QED BY <2>1, <3>1, <3>2 DEF InputsOf, Worth, DraftsKept, SameDraft
  <2>4. CASE op = Cancel(op[2])
    <3>1. cancels[op[2]].phase # "none"
      BY <2>1, <2>2, <2>4 DEF IReward, Consistent
    <3>2. op[1] = "cancel"
      BY <2>4 DEF Cancel
    <3> QED BY <2>1, <3>1, <3>2 DEF InputsOf, Worth, DraftsKept, SameCancel
  <2> QED BY <2>1, <2>3, <2>4
<1>3. ASSUME NEW c \in Coin
      PROVE  /\ Made(c)' <=> Made(c)
             /\ Made(c) => Worth(c)' = Worth(c)
  <2>1. CASE c \in Base
    BY <1>1, <2>1 DEF Made, Worth
  <2>2. CASE c \notin Base
    <3>1. c \in Op
      BY <2>2 DEF Coin
    <3> QED BY <1>1, <1>2, <2>2, <3>1 DEF Made
  <2> QED BY <2>1, <2>2
<1>4. \A c \in Coin : Spent(c)' <=> Spent(c)
  BY <1>1, <1>2 DEF Spent
<1>5. Available' = Available
  BY <1>3, <1>4 DEF Available
<1>6. WorthOf(Available)' = WorthOf(Available)
  <2>1. PICK S : S = Available
    OBVIOUS
  <2>2. S \in SUBSET Coin /\ \A c \in S : Worth(c)' = Worth(c)
    BY <1>3, <2>1 DEF Available
  <2>3. WorthOf(S)' = WorthOf(S)
    BY <2>2, WorthStays DEF IReward
  <2>4. WorthOf(Available)' = WorthOf(S)'
    BY <1>5, <2>1
  <2> QED BY <2>1, <2>3, <2>4
<1> QED BY <1>3, <1>5, <1>6 DEF CoinsStay

-----------------------------------------------------------------------------
\* How a step in which nothing becomes final changes one request's records.
Booked(q) ==
    /\ rows[q].version <= rows'[q].version
    /\ rows'[q].version = rows[q].version =>
          rows'[q].status = rows[q].status /\ rows'[q].released = rows[q].released
    /\ rows[q].status = "none" => rows'[q].status = "none"
    /\ rows[q].released /\ executed[Pay(q)] = None => rows'[q].released
    /\ Confirmed(q)'

\* The records are balanced by what the coins are worth at the time of the step.
BalancedNext == \A q \in Request : \E x, y : rows'[q] = x /\ cancels'[q] = y /\ Balanced(q, x, y)

\* Handlers go on with sound findings; admissions end.
FoundMove ==
    \A t \in Thread : handler'[t] = handler[t] \/ \E h : handler'[t] = h /\ FoundSound(h)
AdmissionsFade ==
    \A r \in Request : admitting'[r] \in {admitting[r], None, [pc |-> "schedule"]}
Accounted ==
    /\ NothingSettles /\ DraftsKept /\ BalancedNext
    /\ \A q \in Request : Booked(q)
    /\ FoundMove /\ AdmissionsFade

\* What is final stays so.
FinalStays == \A op \in Op : executed[op] # None => executed'[op] = executed[op]

\* Drafts that were balanced and findings that were sound stay so.
LEMMA FindingsKept ==
    ASSUME IReward, IReward', Book, CoinsStay, FinalStays, FoundMove, BalancedNext
    PROVE  /\ \A q \in Request : Balanced(q, rows[q], cancels[q])'
           /\ \A t \in Thread : FoundSound(handler[t])'
PROOF
<1>1. ASSUME NEW r \in Request, NEW S \in SUBSET Coin, Enough(r, S)
      PROVE  Enough(r, S)' /\ WorthOf(S)' = WorthOf(S)
  <2>1. \A c \in S : Made(c)' /\ Worth(c)' = Worth(c)
    BY <1>1 DEF Enough, CoinsStay
  <2>2. WorthOf(S)' = WorthOf(S)
    BY <2>1, WorthStays DEF IReward
  <2> QED BY <1>1, <2>1, <2>2 DEF Enough
<1>2. ASSUME NEW q \in Request
      PROVE  Balanced(q, rows[q], cancels[q])'
  <2>1. PICK x, y : rows'[q] = x /\ cancels'[q] = y /\ Balanced(q, x, y)
    BY DEF BalancedNext
  <2>2. x \in RewardRow /\ y \in CancelRow /\ Held(q)'
    BY <2>1 DEF IReward, TypeReward
  <2>3. x.coins \in SUBSET Coin
    BY <2>2 DEF RewardRow
  <2>4. y.phase # "none" => y.input \in Coin
    BY <2>1, <2>2, <2>3 DEF Held
  <2>5. Balanced(q, x, y)'
    BY <1>1, <2>1, <2>3, <2>4 DEF Balanced, CoinsStay
  <2> QED BY <2>1, <2>5
<1>3. ASSUME NEW h \in Handler, FoundSound(h)
      PROVE  FoundSound(h)'
  <2>1. ASSUME h.pc = "judge", h.found # None
        PROVE  executed'[Pay(h.r)] = h.found
    <3>1. Pay(h.r) \in Op /\ executed[Pay(h.r)] = h.found
      BY <1>3, <2>1, HandlerTypes, Operations DEF FoundSound
    <3> QED BY <2>1, <3>1 DEF FinalStays
  <2>2. ASSUME h.pc = "cancel-end"
        PROVE  executed'[Cancel(h.r)] = h.found
    <3>1. Cancel(h.r) \in Op /\ executed[Cancel(h.r)] = h.found /\ h.found # None
      BY <1>3, <2>2, HandlerTypes, Operations, RewardAssumption DEF FoundSound
    <3> QED BY <3>1 DEF FinalStays
  <2>3. ASSUME h.pc \in Building
        PROVE  Enough(h.r, h.coins)'
    <3>1. h.r \in Request /\ h.coins \in SUBSET Coin
      BY <2>3, HandlerTypes DEF Building
    <3>2. Enough(h.r, h.coins)
      BY <1>3, <2>3 DEF FoundSound
    <3> QED BY <1>1, <3>1, <3>2
  <2> QED BY <2>1, <2>2, <2>3 DEF FoundSound, Pay, Cancel
<1>4. ASSUME NEW t \in Thread
      PROVE  FoundSound(handler[t])'
  <2>1. PICK h \in Handler : h = handler'[t]
    BY DEF IReward, TypeReward
  <2>2. FoundSound(h)
    BY <2>1 DEF FoundMove, Book
  <2>3. FoundSound(h)'
    BY <1>3, <2>2
  <2> QED BY <2>1, <2>3
<1> QED BY <1>2, <1>4

\* Such a step keeps the books.
LEMMA AccountedKeeps ==
    ASSUME IReward, IReward', Book, Accounted
    PROVE  Book'
PROOF
<1>1. rows \in [Request -> RewardRow] /\ rows' \in [Request -> RewardRow]
  BY DEF IReward, TypeReward
<1>2. CoinsStay /\ Available' = Available /\ WorthOf(Available)' = WorthOf(Available)
  BY AvailableKept DEF Accounted
<1>3. executed' = executed
  BY DEF Accounted, NothingSettles
<1>4. /\ \A q \in Request : Balanced(q, rows[q], cancels[q])'
      /\ \A t \in Thread : FoundSound(handler[t])'
  <2>1. FinalStays
    BY <1>3 DEF FinalStays
  <2> QED BY <1>2, <2>1, FindingsKept DEF Accounted
<1>5. \A r \in Request : Confirmed(r)'
  BY DEF Accounted, Booked
<1>6. Counts /\ Counts'
  BY Counted, CountedNext
<1>7. Unpaid' \subseteq Unpaid
  <2>1. ASSUME NEW q \in Request, rows'[q].status # "none", ~rows'[q].released,
               executed[Pay(q)] = None
        PROVE  rows[q].status # "none" /\ ~rows[q].released
    <3>1. Booked(q)
      BY DEF Accounted
    <3> QED BY <2>1, <3>1 DEF Booked
  <2> QED BY <1>3, <2>1 DEF Unpaid, ActiveReservations, Pay
<1>8. AmountOf(Unpaid') <= AmountOf(Unpaid) /\ AmountOf(Unpaid') \in Nat
  BY <1>6, <1>7, AmountSums DEF Counts
<1>9. LedgerVersion \in Nat /\ LedgerVersion' \in Nat /\ LedgerVersion <= LedgerVersion'
  <2>1. \A r \in Request : /\ rows[r].version \in Nat /\ rows'[r].version \in Nat
                           /\ rows[r].version <= rows'[r].version
    BY <1>1 DEF RewardRow, Accounted, Booked
  <2> QED BY <2>1, LedgerGrows, LedgerSum, LedgerSumNext DEF LedgerSummed
<1>10. ASSUME LedgerVersion' = LedgerVersion
       PROVE  ActiveReservations' = ActiveReservations
  <2>1. \A r \in Request : /\ rows[r].version \in Nat /\ rows'[r].version \in Nat
                           /\ rows[r].version <= rows'[r].version
    BY <1>1 DEF RewardRow, Accounted, Booked
  <2>2. \A r \in Request : rows[r].version = rows'[r].version
    <3>1. VersionOf(rows) = VersionOf(rows')
      BY <1>10, LedgerSum, LedgerSumNext DEF LedgerSummed
    <3> QED BY ONLY <2>1, <3>1, LedgerGrows
  <2> QED BY <2>2 DEF Accounted, Booked, ActiveReservations
<1>11. ASSUME NEW r \in Request
       PROVE  Covered(admitting[r])'
  <2> SUFFICES ASSUME admitting'[r] # None, admitting'[r].pc \in {"funds", "commit"}
               PROVE  Covered(admitting[r])'
    BY DEF Covered
  <2>1. admitting'[r] = admitting[r]
    <3>1. [pc |-> "schedule"].pc = "schedule"
      OBVIOUS
    <3> QED BY <3>1 DEF Accounted, AdmissionsFade
  <2>2. PICK a : a = admitting[r]
    OBVIOUS
  <2>3. Covered(a) /\ a # None /\ a.pc \in {"funds", "commit"}
    BY <2>1, <2>2 DEF Book
  <2>4. a.version \in Nat /\ a.version <= LedgerVersion
    BY <2>3 DEF Covered
  <2>5. a.version <= LedgerVersion'
    BY <1>9, <2>4
  <2>6. ASSUME a.pc = "commit", a.version = LedgerVersion'
        PROVE  a.total + AmountOf(Unpaid') <= WorthOf(Available)' + AmountOf(ActiveReservations')
    <3>1. LedgerVersion' = LedgerVersion
      BY <1>9, <2>4, <2>6
    <3>2. /\ a.total \in Nat
          /\ a.total + AmountOf(Unpaid) <= WorthOf(Available) + AmountOf(ActiveReservations)
      BY <2>3, <2>6, <3>1 DEF Covered
    <3>3. ActiveReservations' = ActiveReservations
      BY <1>10, <3>1
    <3>4. /\ AmountOf(Unpaid) \in Nat /\ WorthOf(Available) \in Nat
          /\ AmountOf(ActiveReservations) \in Nat
      BY <1>6 DEF Counts
    <3>5. a.total + AmountOf(Unpaid') <= WorthOf(Available) + AmountOf(ActiveReservations)
      BY <1>8, <3>2, <3>4
    <3> QED BY <1>2, <3>3, <3>5
  <2>7. Covered(a)'
    BY <2>3, <2>4, <2>5, <2>6 DEF Covered
  <2> QED BY <2>1, <2>2, <2>7
<1>12. AmountOf(Unpaid') <= WorthOf(Available)'
  <2>1. AmountOf(Unpaid) <= WorthOf(Available)
    BY DEF Book
  <2>2. AmountOf(Unpaid) \in Nat /\ WorthOf(Available) \in Nat
    BY <1>6 DEF Counts
  <2> QED BY <1>2, <1>8, <2>1, <2>2
<1> QED BY <1>4, <1>5, <1>11, <1>12 DEF Book

\* A draft is kept as it was, or is a new one.
Redraws(r, x) ==
    SameDraft(x, rows[r]) /\ (x.phase \in Drawn => rows[r].phase \in Drawn)
Draws(r, x) ==
    /\ rows[r].phase # "signature-started"
    /\ Enough(r, x.coins) /\ x.change = WorthOf(x.coins) - RewardAmount[r]

\* A step that writes no row, and no result of a cancellation, changes no account.
LEMMA RowsStay ==
    ASSUME IReward, Book, NothingSettles, rows' = rows, FoundMove, AdmissionsFade,
           NEW r \in Request, NEW y, cancels' = [cancels EXCEPT ![r] = y],
           y.checkpoint = cancels[r].checkpoint,
           rows[r].status # "ended" \/ cancels[r].phase # "none",
           cancels[r].phase # "none" => SameCancel(y, cancels[r]),
           Balanced(r, rows[r], y)
    PROVE  Accounted
PROOF
<1>1. executed' = executed /\ cancels \in [Request -> CancelRow]
  BY DEF NothingSettles, IReward, TypeReward
<1>2. cancels'[r] = y /\ \A q \in Request : q # r => cancels'[q] = cancels[q]
  BY <1>1
<1>3. ASSUME NEW q \in Request
      PROVE  Booked(q)
  <2>1. rows[q].version <= rows[q].version
    BY DEF IReward, TypeReward, RewardRow
  <2>2. Confirmed(q)
    BY DEF Book
  <2> QED BY <1>1, <1>2, <2>1, <2>2 DEF Booked, Confirmed, Pay, Cancel
<1>4. DraftsKept
  BY <1>2 DEF DraftsKept, SameDraft, SameCancel
<1>5. BalancedNext
  BY <1>2 DEF BalancedNext, Book
<1> QED BY <1>3, <1>4, <1>5 DEF Accounted

\* A step that writes nothing in the records.
LEMMA RecordsStay ==
    ASSUME IReward, Book, NothingSettles, rows' = rows, cancels' = cancels,
           FoundMove, AdmissionsFade
    PROVE  Accounted
PROOF
<1>1. executed' = executed
  BY DEF NothingSettles
<1>2. ASSUME NEW q \in Request
      PROVE  Booked(q)
  <2>1. rows[q].version <= rows[q].version
    BY DEF IReward, TypeReward, RewardRow
  <2>2. Confirmed(q)
    BY DEF Book
  <2> QED BY <1>1, <2>1, <2>2 DEF Booked, Confirmed, Pay, Cancel
<1>3. DraftsKept /\ BalancedNext
  BY DEF DraftsKept, SameDraft, SameCancel, BalancedNext, Book
<1> QED BY <1>2, <1>3 DEF Accounted

\* A step that writes the row of one request, with what the chain says of it.
LEMMA RowBooked ==
    ASSUME IReward, Book, NothingSettles, FoundMove, AdmissionsFade,
           NEW r \in Request, NEW x, rows' = [rows EXCEPT ![r] = x],
           rows[r].status # "none", x.status # "none", x.version = rows[r].version + 1,
           rows[r].status = "ended" => x.status = "ended",
           Redraws(r, x) \/ Draws(r, x),
           rows[r].released => x.released,
           x.status \in {"finalized", "received"} =>
              executed[Pay(r)] # None /\ executed[Pay(r)] = x.checkpoint,
           x.status = "ended" /\ cancels'[r].phase # "none" =>
              executed[Cancel(r)] # None /\ executed[Cancel(r)] = cancels'[r].checkpoint,
           cancels'[r].checkpoint # cancels[r].checkpoint => x.status = "ended",
           cancels'[r].phase = cancels[r].phase, SameCancel(cancels'[r], cancels[r]),
           \A q \in Request : q # r => cancels'[q] = cancels[q]
    PROVE  Accounted
PROOF
<1>1. executed' = executed
  BY DEF NothingSettles
<1>2. /\ rows'[r] = x /\ \A q \in Request : q # r => rows'[q] = rows[q]
      /\ \A q \in Request : rows[q].version \in Nat
  BY DEF IReward, TypeReward, RewardRow
<1>3. Confirmed(r) /\ Balanced(r, rows[r], cancels[r])
  BY DEF Book
<1>4. Booked(r)
  BY <1>1, <1>2, <1>3 DEF Booked, Confirmed, Pay, Cancel
<1>5. ASSUME NEW q \in Request, q # r
      PROVE  Booked(q)
  <2>1. Confirmed(q)
    BY DEF Book
  <2> QED BY <1>1, <1>2, <1>5, <2>1 DEF Booked, Confirmed, Pay, Cancel
<1>6. DraftsKept
  <2>1. rows[r].phase = "signature-started" => SameDraft(x, rows[r])
    BY DEF Redraws, Draws
  <2> QED BY <1>2, <2>1 DEF DraftsKept, SameDraft, SameCancel
<1>7. Balanced(r, x, cancels'[r])
  BY <1>3 DEF Balanced, Redraws, Draws, SameDraft, SameCancel
<1>8. BalancedNext
  BY <1>2, <1>7 DEF BalancedNext, Book
<1> QED BY <1>4, <1>5, <1>6, <1>8 DEF Accounted

\* Handlers that go on without a finding.
Findings == {"judge", "cancel-end"} \cup Building
Blank(h) == h.pc \notin Findings
Quits(t) == Unavailable(t) \/ OutOfGas(t) \/ Done(t) \/ \E reason : Fail(t, reason)
Leads(t, pc) ==
    \/ \E r : Continue(t, [pc |-> pc, r |-> r])
    \/ Continue(t, [handler[t] EXCEPT !.pc = pc])

\* One handler moves, with a sound finding.
LEMMA OneFinds ==
    ASSUME IReward, NEW t \in Thread, NEW h, Continue(t, h), FoundSound(h)
    PROVE  FoundMove
PROOF
<1>1. handler \in [Thread -> Handler]
  BY DEF IReward, TypeReward
<1>2. handler'[t] = h /\ \A u \in Thread : u # t => handler'[u] = handler[u]
  BY <1>1 DEF Continue
<1> QED BY <1>2 DEF FoundMove

\* One handler moves without a finding.
LEMMA BlankMoves ==
    ASSUME IReward, NEW t \in Thread, NEW h, Continue(t, h), Blank(h)
    PROVE  FoundMove
PROOF
<1>1. FoundSound(h)
  BY DEF FoundSound, Blank, Findings
<1> QED BY <1>1, OneFinds

\* A handler that ends, or goes on to another step than a finding, finds nothing.
LEMMA Undirected ==
    ASSUME IReward, NEW t \in Thread, Quits(t) \/ \E pc : pc \notin Findings /\ Leads(t, pc)
    PROVE  FoundMove
PROOF
<1>1. Blank(Idle)
  BY DEF Blank, Idle, Findings, Building
<1>2. Quits(t) => Continue(t, Idle)
  BY DEF Quits, Unavailable, OutOfGas, Done, Fail
<1>3. ASSUME NEW pc, pc \notin Findings, Leads(t, pc)
      PROVE  FoundMove
  <2>1. ASSUME NEW r
        PROVE  Blank([pc |-> pc, r |-> r])
    BY <1>3 DEF Blank
  <2>2. Blank([handler[t] EXCEPT !.pc = pc])
    <3>1. handler[t] \in Handler
      BY DEF IReward, TypeReward
    <3>2. [handler[t] EXCEPT !.pc = pc].pc = pc
      BY <3>1 DEF Handler
    <3> QED BY <1>3, <3>2 DEF Blank
  <2> QED BY <1>3, <2>1, <2>2, BlankMoves DEF Leads
<1> QED BY <1>1, <1>2, <1>3, BlankMoves

\* A handler that goes on with the coins it has chosen.
LEMMA KeepsChoice ==
    ASSUME IReward, Book, handler["alarm"].pc \in Building, NEW pc \in Building,
           Continue("alarm", [handler["alarm"] EXCEPT !.pc = pc])
    PROVE  FoundMove
PROOF
<1>1. "alarm" \in Thread
  BY DEF Thread
<1>2. PICK h \in Handler : h = handler["alarm"]
  BY <1>1 DEF IReward, TypeReward
<1>3. Enough(h.r, h.coins)
  BY <1>1, <1>2 DEF Book, FoundSound
<1>4. h \in [pc : Building, r : Request, coins : SUBSET Coin]
  BY <1>2, HandlerShapes
<1>5. PICK g : g = [h EXCEPT !.pc = pc]
  OBVIOUS
<1>6. g.pc = pc /\ g.r = h.r /\ g.coins = h.coins
  BY <1>4, <1>5
<1>7. FoundSound(g)
  BY <1>3, <1>6 DEF FoundSound, Building
<1> QED BY <1>1, <1>2, <1>5, <1>7, OneFinds

\* A step that writes nothing in the database.
LEMMA DatabaseStays ==
    ASSUME IReward, Book, UNCHANGED db, NothingSettles, FoundMove, AdmissionsFade
    PROVE  Accounted
PROOF
<1>1. rows' = rows /\ cancels' = cancels
  BY DEF db
<1> QED BY <1>1, RecordsStay

\* A step of a handler that writes no record changes no account.
LEMMA NoWriteAccounted ==
    ASSUME IReward, Book, NoWrite, FoundMove
    PROVE  Accounted
PROOF
<1>1. UNCHANGED db /\ NothingSettles /\ AdmissionsFade
  BY DEF NoWrite, chain, NothingSettles, AdmissionsFade
<1> QED BY <1>1, DatabaseStays

\* A handler that ends without a write.
LEMMA QuietlyAccounted ==
    ASSUME IReward, Book, NEW t \in Thread, EndsQuietly(t)
    PROVE  Accounted
PROOF
<1>1. FoundMove
  <2>1. Quits(t)
    BY DEF EndsQuietly, Quits
  <2> QED BY <2>1, Undirected
<1>2. UNCHANGED db /\ NothingSettles /\ AdmissionsFade
  BY DEF EndsQuietly, Unavailable, OutOfGas, NoWrite, chain, NothingSettles, AdmissionsFade
<1> QED BY <1>1, <1>2, DatabaseStays

\* Finalized history confirms every result: the verification has nothing to invalidate.
LEMMA NothingRefuted ==
    ASSUME IReward, Book, fork = 0
    PROVE  /\ RefutedCancellations = {} /\ RefutedPayments = {}
           /\ \A r \in Request : ~Refuted(r)
PROOF
<1>1. RefutedCancellations = {}
  <2> SUFFICES ASSUME NEW r \in Cancelled
               PROVE  CancellationValid(r)
    BY DEF RefutedCancellations
  <2>1. r \in Request /\ rows[r].status = "ended" /\ cancels[r].phase # "none"
    BY DEF Cancelled
  <2>2. executed[Pay(r)] = None
    BY <2>1, EndedUnpaid DEF EndedNeverPaid
  <2>3. executed[Cancel(r)] = cancels[r].checkpoint
    BY <2>1 DEF Book, Confirmed
  <2> QED BY <2>2, <2>3 DEF CancellationValid
<1>2. RefutedPayments = {}
  BY DEF RefutedPayments, Book, Confirmed
<1>3. \A r \in Request : ~Refuted(r)
  BY <1>1, <1>2 DEF Refuted, First
<1> QED BY <1>1, <1>2, <1>3

\* The start and the verification of the alarm change no account.
LEMMA AlarmAccounted ==
    ASSUME IReward, Book, fork = 0, AlarmStart \/ AlarmVerify
    PROVE  Accounted
PROOF
<1>1. "alarm" \in Thread
  BY DEF Thread
<1>2. CASE AlarmStart
  <2>1. UNCHANGED db /\ NothingSettles /\ AdmissionsFade
    BY <1>2 DEF AlarmStart, chain, NothingSettles, AdmissionsFade
  <2>2. CASE Continue("alarm", [pc |-> "verify"])
    <3>1. Blank([pc |-> "verify"])
      BY DEF Blank, Findings, Building
    <3> QED BY <1>1, <2>1, <2>2, <3>1, BlankMoves, DatabaseStays
  <2>3. CASE UNCHANGED handler
    <3>1. FoundMove
      BY <2>3 DEF FoundMove
    <3> QED BY <2>1, <3>1, DatabaseStays
  <2> QED BY <1>2, <2>2, <2>3 DEF AlarmStart
<1>3. CASE AlarmVerify
  <2>1. CASE Unavailable("alarm")
    BY <1>1, <2>1, QuietlyAccounted DEF EndsQuietly
  <2>2. CASE /\ UNCHANGED <<db, alarm, admitting, chain, disturbances>>
             /\ \/ \E r \in Request : Continue("alarm", Take(r))
                \/ Continue("alarm", Idle)
    <3>1. UNCHANGED db /\ NothingSettles /\ AdmissionsFade
      BY <2>2 DEF chain, NothingSettles, AdmissionsFade
    <3>2. Blank(Idle) /\ \A r \in Request : Blank(Take(r))
      BY DEF Blank, Idle, Take, Findings, Building
    <3>3. FoundMove
      BY <1>1, <2>2, <3>2, BlankMoves
    <3> QED BY <3>1, <3>3, DatabaseStays
  <2>3. \A r \in Request : ~Refuted(r)
    BY NothingRefuted
  <2> QED BY <1>3, <2>1, <2>2, <2>3 DEF AlarmVerify
<1> QED BY <1>2, <1>3

\* The row of the request in hand, written without a final result.
LEMMA WorkBooked ==
    ASSUME IReward, Book, FoundMove, NEW r \in Request, NEW x,
           rows' = [rows EXCEPT ![r] = x], UNCHANGED <<cancels, admitting, chain>>,
           rows[r].status # "none", x.status \in {rows[r].status, "processing", "pending"},
           rows[r].status \in {"accepted", "processing"},
           x.version = rows[r].version + 1, x.released = rows[r].released,
           Redraws(r, x) \/ Draws(r, x)
    PROVE  Accounted
PROOF
<1>1. NothingSettles /\ AdmissionsFade
  BY DEF chain, NothingSettles, AdmissionsFade
<1>2. x.status \notin {"none", "finalized", "received", "ended"} /\ rows[r].status # "ended"
  OBVIOUS
<1>3. /\ cancels'[r].checkpoint = cancels[r].checkpoint /\ cancels'[r].phase = cancels[r].phase
      /\ SameCancel(cancels'[r], cancels[r])
      /\ \A q \in Request : q # r => cancels'[q] = cancels[q]
  BY DEF SameCancel
<1> QED BY <1>1, <1>2, <1>3, RowBooked

\* The request a step of the alarm writes.
LEMMA InHand ==
    ASSUME IReward, handler["alarm"].pc \notin {"idle", "verify"}
    PROVE  /\ handler["alarm"].r \in Request /\ handler["alarm"] \in Handler
           /\ rows[handler["alarm"].r] \in RewardRow /\ rows[handler["alarm"].r].status # "none"
           /\ rows \in [Request -> RewardRow] /\ "alarm" \in Thread
PROOF
<1>1. "alarm" \in Thread /\ rows \in [Request -> RewardRow]
  BY DEF Thread, IReward, TypeReward
<1>2. PICK h \in Handler : h = handler["alarm"]
  BY <1>1 DEF IReward, TypeReward
<1>3. h.r \in Request /\ rows[h.r] \in RewardRow /\ rows[h.r].status # "none"
  BY <1>1, <1>2, Subject
<1> QED BY <1>1, <1>2, <1>3

\* The steps of a dispatch change no account.
LEMMA DispatchAccounted ==
    ASSUME IReward, Book, Dispatch
    PROVE  Accounted
PROOF
<1> DEFINE h == handler["alarm"]
           r == h.r
<1>1. h.pc \notin {"idle", "verify"}
  BY Zenon DEF Dispatch, DispatchFunds, DispatchClaim, DispatchBuild, DispatchSave, DispatchMark,
               DispatchSign, DispatchStore, At
<1>2. /\ r \in Request /\ rows[r] \in RewardRow /\ rows[r].status # "none"
      /\ rows \in [Request -> RewardRow] /\ "alarm" \in Thread
  BY <1>1, InHand
<1>3. "operator-stopped" \in Reasons /\ "funds-short" \in Reasons
  BY DEF Reasons
<1>4. CASE DispatchFunds
  <2>1. \/ EndsQuietly("alarm")
        \/ /\ \E coins \in Selections(r) : Continue("alarm", [pc |-> "claim", r |-> r, coins |-> coins])
           /\ NoWrite
    BY <1>3, <1>4, Zenon DEF DispatchFunds, EndsQuietly
  <2>2. CASE /\ \E coins \in Selections(r) : Continue("alarm", [pc |-> "claim", r |-> r, coins |-> coins])
             /\ NoWrite
    <3>1. PICK coins \in Selections(r) : Continue("alarm", [pc |-> "claim", r |-> r, coins |-> coins])
      BY <2>2
    <3> HIDE DEF r
    <3>2. Enough(r, coins)
      BY <1>2, SelectionFacts DEF Enough, Available
    <3>3. PICK g : g = [pc |-> "claim", r |-> r, coins |-> coins]
      OBVIOUS
    <3>4. g.pc = "claim" /\ g.r = r /\ g.coins = coins
      BY <3>3
    <3>5. FoundSound(g)
      BY <3>2, <3>4 DEF FoundSound
    <3>6. FoundMove
      BY <1>2, <3>1, <3>3, <3>5, OneFinds
    <3> QED BY <2>2, <3>6, NoWriteAccounted
  <2> QED BY <1>2, <2>1, <2>2, QuietlyAccounted
<1>5. CASE DispatchClaim
  <2>1. \/ EndsQuietly("alarm")
        \/ /\ rows[r].status = "accepted" /\ rows[r].phase = "none"
           /\ rows' = [rows EXCEPT ![r].status = "processing", ![r].phase = "claimed",
                                   ![r].version = @ + 1]
           /\ Continue("alarm", [h EXCEPT !.pc = "build"])
           /\ UNCHANGED <<queue, inputs, cancels, alarm, stops, admitting, chain, disturbances>>
    BY <1>3, <1>5 DEF DispatchClaim, EndsQuietly
  <2>2. CASE /\ rows[r].status = "accepted" /\ rows[r].phase = "none"
             /\ rows' = [rows EXCEPT ![r].status = "processing", ![r].phase = "claimed",
                                     ![r].version = @ + 1]
             /\ Continue("alarm", [h EXCEPT !.pc = "build"])
             /\ UNCHANGED <<queue, inputs, cancels, alarm, stops, admitting, chain, disturbances>>
    <3> DEFINE x == [rows[r] EXCEPT !.status = "processing", !.phase = "claimed", !.version = @ + 1]
    <3>1. h.pc \in Building /\ "build" \in Building
      BY <1>5 DEF DispatchClaim, At, Building
    <3>2. FoundMove
      BY <2>2, <3>1, KeepsChoice
    <3> HIDE DEF r
    <3>3. rows' = [rows EXCEPT ![r] = x]
      BY <1>2, <2>2
    <3>4. /\ x.status = "processing" /\ x.version = rows[r].version + 1
          /\ x.released = rows[r].released /\ Redraws(r, x)
      BY <1>2 DEF RewardRow, Redraws, SameDraft, Drawn
    <3> HIDE DEF x
    <3> QED BY <1>2, <2>2, <3>2, <3>3, <3>4, WorkBooked
  <2> QED BY <1>2, <2>1, <2>2, QuietlyAccounted
<1>6. CASE DispatchBuild \/ DispatchSign
  <2>1. \/ EndsQuietly("alarm")
        \/ DispatchBuild /\ Continue("alarm", [h EXCEPT !.pc = "save"]) /\ NoWrite
        \/ Continue("alarm", [h EXCEPT !.pc = "store"]) /\ NoWrite
    BY <1>3, <1>6, Zenon DEF DispatchBuild, DispatchSign, EndsQuietly
  <2>2. ASSUME Continue("alarm", [h EXCEPT !.pc = "store"]), NoWrite
        PROVE  Accounted
    <3>1. "store" \notin Findings /\ Leads("alarm", "store")
      BY <2>2 DEF Leads, Findings, Building
    <3> QED BY <1>2, <2>2, <3>1, Undirected, NoWriteAccounted
  <2>3. ASSUME DispatchBuild, Continue("alarm", [h EXCEPT !.pc = "save"]), NoWrite
        PROVE  Accounted
    <3>1. h.pc \in Building /\ "save" \in Building
      BY <2>3 DEF DispatchBuild, At, Building
    <3> QED BY <2>3, <3>1, KeepsChoice, NoWriteAccounted
  <2> QED BY <1>2, <2>1, <2>2, <2>3, QuietlyAccounted
<1>7. CASE DispatchSave
  <2> DEFINE left == WorthOf(h.coins) - RewardAmount[r]
  <2>1. \/ EndsQuietly("alarm")
        \/ /\ rows[r].status = "processing" /\ rows[r].phase = "claimed"
           /\ \E c \in h.coins :
                 rows' = [rows EXCEPT ![r].phase = "draft-saved", ![r].version = @ + 1,
                                      ![r].coins = h.coins, ![r].first = c, ![r].change = left]
           /\ Continue("alarm", [pc |-> "mark", r |-> r])
           /\ UNCHANGED <<queue, cancels, alarm, stops, admitting, chain, disturbances>>
    BY <1>3, <1>7 DEF DispatchSave, EndsQuietly
  <2>2. CASE /\ rows[r].status = "processing" /\ rows[r].phase = "claimed"
             /\ \E c \in h.coins :
                   rows' = [rows EXCEPT ![r].phase = "draft-saved", ![r].version = @ + 1,
                                        ![r].coins = h.coins, ![r].first = c, ![r].change = left]
             /\ Continue("alarm", [pc |-> "mark", r |-> r])
             /\ UNCHANGED <<queue, cancels, alarm, stops, admitting, chain, disturbances>>
    <3>1. "mark" \notin Findings /\ Leads("alarm", "mark")
      BY <2>2 DEF Leads, Findings, Building
    <3>2. FoundMove
      BY <1>2, <3>1, Undirected
    <3>3. Enough(r, h.coins)
      <4>1. h.pc \in Building
        BY <1>7 DEF DispatchSave, At, Building
      <4> QED BY <1>2, <4>1 DEF Book, FoundSound
    <3>4. PICK c : rows' = [rows EXCEPT ![r].phase = "draft-saved", ![r].version = @ + 1,
                                        ![r].coins = h.coins, ![r].first = c, ![r].change = left]
      BY <2>2
    <3>5. PICK coins, k : coins = h.coins /\ k = left
      OBVIOUS
    <3> DEFINE x == [rows[r] EXCEPT !.phase = "draft-saved", !.version = @ + 1, !.coins = coins,
                                    !.first = c, !.change = k]
    <3>6. k = WorthOf(coins) - RewardAmount[r] /\ Enough(r, coins)
      BY <3>3, <3>5
    <3> HIDE DEF r, h, left
    <3>7. rows' = [rows EXCEPT ![r] = x]
      BY <1>2, <3>4, <3>5
    <3>8. /\ x.status = rows[r].status /\ x.version = rows[r].version + 1
          /\ x.released = rows[r].released /\ x.coins = coins /\ x.change = k
      BY <1>2 DEF RewardRow
    <3>9. Draws(r, x)
      BY <2>2, <3>6, <3>8 DEF Draws
    <3> HIDE DEF x
    <3> QED BY <1>2, <2>2, <3>2, <3>7, <3>8, <3>9, WorkBooked
  <2> QED BY <1>2, <2>1, <2>2, QuietlyAccounted
<1>8. CASE DispatchMark
  <2>1. \/ EndsQuietly("alarm")
        \/ /\ rows[r].status = "processing" /\ rows[r].phase = "draft-saved"
           /\ rows' = [rows EXCEPT ![r].phase = "signature-started", ![r].version = @ + 1]
           /\ Fail("alarm", "operator-stopped") \/ Continue("alarm", [h EXCEPT !.pc = "sign"])
           /\ UNCHANGED <<queue, inputs, cancels, admitting, chain, disturbances>>
    BY <1>3, <1>8 DEF DispatchMark, EndsQuietly
  <2>2. CASE /\ rows[r].status = "processing" /\ rows[r].phase = "draft-saved"
             /\ rows' = [rows EXCEPT ![r].phase = "signature-started", ![r].version = @ + 1]
             /\ Fail("alarm", "operator-stopped") \/ Continue("alarm", [h EXCEPT !.pc = "sign"])
             /\ UNCHANGED <<queue, inputs, cancels, admitting, chain, disturbances>>
    <3> DEFINE x == [rows[r] EXCEPT !.phase = "signature-started", !.version = @ + 1]
    <3>1. /\ "sign" \notin Findings
          /\ Quits("alarm") \/ Leads("alarm", "sign")
      BY <2>2 DEF Leads, Findings, Building, Quits
    <3>2. FoundMove
      BY <1>2, <3>1, Undirected
    <3> HIDE DEF r, h
    <3>3. rows' = [rows EXCEPT ![r] = x]
      BY <1>2, <2>2
    <3>4. /\ x.status = rows[r].status /\ x.version = rows[r].version + 1
          /\ x.released = rows[r].released /\ Redraws(r, x)
      BY <1>2, <2>2 DEF RewardRow, Redraws, SameDraft, Drawn
    <3> HIDE DEF x
    <3> QED BY <1>2, <2>2, <3>2, <3>3, <3>4, WorkBooked
  <2> QED BY <1>2, <2>1, <2>2, QuietlyAccounted
<1>9. CASE DispatchStore
  <2>1. \/ EndsQuietly("alarm")
        \/ /\ rows[r].status = "processing"
           /\ rows' = [rows EXCEPT ![r].signed = TRUE, ![r].version = @ + 1]
           /\ Continue("alarm", [h EXCEPT !.pc = "submit"])
           /\ UNCHANGED <<queue, inputs, cancels, alarm, stops, admitting, chain, disturbances>>
    BY <1>3, <1>9 DEF DispatchStore, EndsQuietly
  <2>2. CASE /\ rows[r].status = "processing"
             /\ rows' = [rows EXCEPT ![r].signed = TRUE, ![r].version = @ + 1]
             /\ Continue("alarm", [h EXCEPT !.pc = "submit"])
             /\ UNCHANGED <<queue, inputs, cancels, alarm, stops, admitting, chain, disturbances>>
    <3> DEFINE x == [rows[r] EXCEPT !.signed = TRUE, !.version = @ + 1]
    <3>1. "submit" \notin Findings /\ Leads("alarm", "submit")
      BY <2>2 DEF Leads, Findings, Building
    <3>2. FoundMove
      BY <1>2, <3>1, Undirected
    <3> HIDE DEF r, h
    <3>3. rows' = [rows EXCEPT ![r] = x]
      BY <1>2, <2>2
    <3>4. /\ x.status = rows[r].status /\ x.version = rows[r].version + 1
          /\ x.released = rows[r].released /\ Redraws(r, x)
      BY <1>2 DEF RewardRow, Redraws, SameDraft
    <3> HIDE DEF x
    <3> QED BY <1>2, <2>2, <3>2, <3>3, <3>4, WorkBooked
  <2> QED BY <1>2, <2>1, <2>2, QuietlyAccounted
<1>10. \/ DispatchFunds \/ DispatchClaim \/ DispatchSave \/ DispatchMark \/ DispatchStore
       \/ DispatchBuild \/ DispatchSign
  BY Zenon DEF Dispatch
<1> QED BY ONLY <1>4, <1>5, <1>6, <1>7, <1>8, <1>9, <1>10

\* A transaction given to a node is not final yet.
LEMMA SendSettlesNothing ==
    ASSUME NEW op, Send(op), UNCHANGED <<db, admitting, deposited, executed, fork>>
    PROVE  UNCHANGED db /\ NothingSettles /\ AdmissionsFade
PROOF
<1> QED BY DEF NothingSettles, AdmissionsFade

\* The steps of a submission change no account.
LEMMA SendingAccounted ==
    ASSUME IReward, Book, Submit \/ SaveAttempt \/ Broadcast
    PROVE  Accounted
PROOF
<1> DEFINE h == handler["alarm"]
           r == h.r
<1>1. h.pc \notin {"idle", "verify"}
  BY DEF Submit, SaveAttempt, Broadcast, At
<1>2. /\ r \in Request /\ rows[r] \in RewardRow /\ rows[r].status # "none"
      /\ rows \in [Request -> RewardRow] /\ "alarm" \in Thread
  BY <1>1, InHand
<1>3. "operator-stopped" \in Reasons /\ "rpc-unavailable" \in Reasons
  BY DEF Reasons
<1>4. CASE Submit
  <2>1. \/ EndsQuietly("alarm")
        \/ Continue("alarm", [h EXCEPT !.pc = "attempt"]) /\ NoWrite
    BY <1>3, <1>4, Zenon DEF Submit, EndsQuietly
  <2>2. CASE Continue("alarm", [h EXCEPT !.pc = "attempt"]) /\ NoWrite
    <3>1. "attempt" \notin Findings /\ Leads("alarm", "attempt")
      BY <2>2 DEF Leads, Findings, Building
    <3> QED BY <1>2, <2>2, <3>1, Undirected, NoWriteAccounted
  <2> QED BY <1>2, <2>1, <2>2, QuietlyAccounted
<1>5. CASE SaveAttempt
  <2>1. \/ EndsQuietly("alarm")
        \/ /\ rows[r].status = "processing"
           /\ rows' = [rows EXCEPT ![r].attempt = TRUE, ![r].status = "pending",
                                   ![r].version = @ + 1]
           /\ Continue("alarm", [h EXCEPT !.pc = "broadcast"])
           /\ UNCHANGED <<queue, inputs, cancels, alarm, stops, admitting, chain, disturbances>>
    BY <1>3, <1>5 DEF SaveAttempt, EndsQuietly
  <2>2. CASE /\ rows[r].status = "processing"
             /\ rows' = [rows EXCEPT ![r].attempt = TRUE, ![r].status = "pending",
                                     ![r].version = @ + 1]
             /\ Continue("alarm", [h EXCEPT !.pc = "broadcast"])
             /\ UNCHANGED <<queue, inputs, cancels, alarm, stops, admitting, chain, disturbances>>
    <3> DEFINE x == [rows[r] EXCEPT !.attempt = TRUE, !.status = "pending", !.version = @ + 1]
    <3>1. "broadcast" \notin Findings /\ Leads("alarm", "broadcast")
      BY <2>2 DEF Leads, Findings, Building
    <3>2. FoundMove
      BY <1>2, <3>1, Undirected
    <3> HIDE DEF r, h
    <3>3. rows' = [rows EXCEPT ![r] = x]
      BY <1>2, <2>2
    <3>4. /\ x.status = "pending" /\ x.version = rows[r].version + 1
          /\ x.released = rows[r].released /\ Redraws(r, x)
      BY <1>2 DEF RewardRow, Redraws, SameDraft
    <3> HIDE DEF x
    <3> QED BY <1>2, <2>2, <3>2, <3>3, <3>4, WorkBooked
  <2> QED BY <1>2, <2>1, <2>2, QuietlyAccounted
<1>6. CASE Broadcast
  <2>1. \/ EndsQuietly("alarm")
        \/ /\ Send(Pay(r)) /\ Done("alarm")
           /\ UNCHANGED <<db, admitting, deposited, executed, fork>>
    BY <1>3, <1>6, Zenon DEF Broadcast, EndsQuietly
  <2>2. CASE /\ Send(Pay(r)) /\ Done("alarm")
             /\ UNCHANGED <<db, admitting, deposited, executed, fork>>
    <3>1. FoundMove
      BY <1>2, <2>2, Undirected DEF Quits
    <3> QED BY <2>2, <3>1, SendSettlesNothing, DatabaseStays
  <2> QED BY <1>2, <2>1, <2>2, QuietlyAccounted
<1> QED BY <1>4, <1>5, <1>6

\* What is recorded of a payment is what was found of it.
LEMMA ReconcileAccounted ==
    ASSUME IReward, Book, Reconcile
    PROVE  Accounted
PROOF
<1> DEFINE h == handler["alarm"]
           r == h.r
<1>1. h.pc \notin {"idle", "verify"}
  BY DEF Reconcile, EvidenceRead, EvidenceJudge, At
<1>2. /\ r \in Request /\ rows[r] \in RewardRow /\ rows[r].status # "none"
      /\ rows \in [Request -> RewardRow] /\ "alarm" \in Thread
  BY <1>1, InHand
<1>3. CASE EvidenceRead
  <2>1. PICK j : j = [pc |-> "judge", r |-> r, version |-> rows[r].version,
                      status |-> rows[r].status, found |-> executed[Pay(r)]]
    OBVIOUS
  <2>2. \/ EndsQuietly("alarm")
        \/ Continue("alarm", j) /\ NoWrite
    BY <1>3, <2>1, Zenon DEF EvidenceRead, EndsQuietly
  <2>3. CASE Continue("alarm", j) /\ NoWrite
    <3>1. j.pc = "judge" /\ j.found = executed[Pay(j.r)]
      BY <2>1
    <3>3. FoundSound(j)
      BY <3>1 DEF FoundSound, Building
    <3>4. FoundMove
      BY <1>2, <2>3, <3>3, OneFinds
    <3> QED BY <2>3, <3>4, NoWriteAccounted
  <2> QED BY <1>2, <2>2, <2>3, QuietlyAccounted
<1>4. CASE EvidenceJudge
  <2>1. h.pc = "judge" /\ FoundSound(h)
    BY <1>2, <1>4 DEF EvidenceJudge, At, Book
  <2>2. CASE Done("alarm") /\ NoWrite
    BY <1>2, <2>2, QuietlyAccounted DEF EndsQuietly
  <2>3. ASSUME NEW next, next \in {"submit", "broadcast"},
               Continue("alarm", [pc |-> next, r |-> r]), NoWrite
        PROVE  Accounted
    <3>1. next \notin Findings /\ Leads("alarm", next)
      BY <2>3 DEF Leads, Findings, Building
    <3> QED BY <1>2, <2>3, <3>1, Undirected, NoWriteAccounted
  <2>4. CASE /\ h.found # None /\ rows[r].status \in {"pending", "unknown"}
             /\ rows' = [rows EXCEPT ![r].status = "finalized", ![r].checkpoint = h.found,
                                     ![r].released = TRUE, ![r].version = @ + 1]
             /\ Done("alarm")
             /\ UNCHANGED <<queue, cancels, admitting, chain, disturbances>>
    <3> DEFINE x == [rows[r] EXCEPT !.status = "finalized", !.checkpoint = h.found,
                                    !.released = TRUE, !.version = @ + 1]
    <3>1. FoundMove
      BY <1>2, <2>4, Undirected DEF Quits
    <3>2. executed[Pay(r)] = h.found
      BY <2>1, <2>4 DEF FoundSound
    <3> HIDE DEF r, h
    <3>3. rows' = [rows EXCEPT ![r] = x]
      BY <1>2, <2>4
    <3>4. /\ x.status = "finalized" /\ x.version = rows[r].version + 1
          /\ x.released = TRUE /\ Redraws(r, x) /\ x.checkpoint = h.found
      BY <1>2 DEF RewardRow, Redraws, SameDraft
    <3>5. NothingSettles /\ AdmissionsFade
      BY <2>4 DEF chain, NothingSettles, AdmissionsFade
    <3> HIDE DEF x
    <3>6. rows[r].released => x.released
      BY <3>4
    <3>7. executed[Pay(r)] # None /\ executed[Pay(r)] = x.checkpoint
      BY <2>4, <3>2, <3>4
    <3>8. /\ cancels' = cancels /\ SameCancel(cancels'[r], cancels[r])
          /\ r \in Request /\ rows[r].status \notin {"none", "ended"}
      BY <1>2, <2>4 DEF SameCancel
    <3> QED BY ONLY <3>1, <3>3, <3>4, <3>5, <3>6, <3>7, <3>8, IReward, Book, RowBooked
  <2>5. \/ Done("alarm") /\ NoWrite
        \/ /\ h.found # None /\ rows[r].status \in {"pending", "unknown"}
           /\ rows' = [rows EXCEPT ![r].status = "finalized", ![r].checkpoint = h.found,
                                   ![r].released = TRUE, ![r].version = @ + 1]
           /\ Done("alarm")
           /\ UNCHANGED <<queue, cancels, admitting, chain, disturbances>>
        \/ \E next \in {"submit", "broadcast"} :
              Continue("alarm", [pc |-> next, r |-> r]) /\ NoWrite
    BY <1>4, Zenon DEF EvidenceJudge, RecordCurrent
  <2> QED BY <2>2, <2>3, <2>4, <2>5
<1> QED BY <1>3, <1>4 DEF Reconcile

\* A step of a cancellation that changes no more than its phase.
LEMMA PhaseAccounted ==
    ASSUME IReward, Book, FoundMove, NEW r \in Request, NEW phase,
           cancels' = [cancels EXCEPT ![r].phase = phase],
           UNCHANGED <<rows, admitting, chain>>, cancels[r].phase # "none"
    PROVE  Accounted
PROOF
<1>1. NothingSettles /\ AdmissionsFade /\ rows' = rows
  BY DEF chain, NothingSettles, AdmissionsFade
<1>2. PICK y : y = [cancels[r] EXCEPT !.phase = phase]
  OBVIOUS
<1>3. cancels \in [Request -> CancelRow] /\ cancels[r] \in CancelRow
  BY DEF IReward, TypeReward
<1>4. cancels' = [cancels EXCEPT ![r] = y]
  BY <1>2, <1>3
<1>5. y.checkpoint = cancels[r].checkpoint /\ SameCancel(y, cancels[r])
  BY <1>2, <1>3 DEF CancelRow, SameCancel
<1>6. Balanced(r, rows[r], y)
  BY <1>5 DEF Book, Balanced, SameCancel
<1> QED BY <1>1, <1>4, <1>5, <1>6, RowsStay

\* A cancellation begins with an input that is there.
LEMMA EnterAccounted ==
    ASSUME IReward, Book, FoundMove, NEW r \in Request,
           cancels' = [cancels EXCEPT ![r].phase = "signature-started", ![r].input = rows[r].first,
                                      ![r].amount = Worth(rows[r].first)],
           UNCHANGED <<rows, admitting, chain>>,
           rows[r].first \in Available, rows[r].status # "ended", cancels[r].phase = "none"
    PROVE  Accounted
PROOF
<1>1. NothingSettles /\ AdmissionsFade /\ rows' = rows
  BY DEF chain, NothingSettles, AdmissionsFade
<1>2. PICK c, k : c = rows[r].first /\ k = Worth(rows[r].first)
  OBVIOUS
<1>3. PICK y : y = [cancels[r] EXCEPT !.phase = "signature-started", !.input = c, !.amount = k]
  OBVIOUS
<1>4. cancels \in [Request -> CancelRow] /\ cancels[r] \in CancelRow
  BY DEF IReward, TypeReward
<1>5. cancels' = [cancels EXCEPT ![r] = y]
  BY <1>2, <1>3, <1>4
<1>6. y.checkpoint = cancels[r].checkpoint /\ y.input = c /\ y.amount = k
  BY <1>3, <1>4 DEF CancelRow
<1>7. Made(c) /\ k = Worth(c)
  BY <1>2 DEF Available
<1>8. Balanced(r, rows[r], y)
  BY <1>6, <1>7 DEF Book, Balanced
<1> QED BY <1>1, <1>5, <1>6, <1>8, RowsStay

\* What is recorded of a cancellation is what was found of it.
LEMMA CancelEndAccounted ==
    ASSUME IReward, Book, NEW t \in Thread, CancelEnd(t)
    PROVE  Accounted
PROOF
<1>1. PICK h \in Handler : h = handler[t]
  <2>1. handler \in [Thread -> Handler]
    BY DEF IReward, TypeReward
  <2> QED BY ONLY <2>1, t \in Thread
<1>2. h.pc = "cancel-end" /\ FoundSound(h)
  BY <1>1 DEF CancelEnd, At, Book
<1>3. h.r \in Request /\ rows[h.r] \in RewardRow /\ rows[h.r].status # "none"
  BY <1>1, <1>2, Subject
<1>4. PICK r \in Request : r = h.r
  BY <1>3
<1>5. executed[Cancel(r)] = h.found /\ h.found # None
  BY <1>1, <1>2, <1>4, HandlerTypes, RewardAssumption DEF FoundSound
<1>6. rows \in [Request -> RewardRow] /\ cancels \in [Request -> CancelRow]
      /\ "operator-stopped" \in Reasons
  BY DEF IReward, TypeReward, Reasons
<1>7. \/ Fail(t, "operator-stopped") /\ NoWrite
      \/ /\ rows' = [rows EXCEPT ![r].status = "ended", ![r].released = TRUE, ![r].version = @ + 1]
         /\ cancels' = [cancels EXCEPT ![r].checkpoint = h.found]
         /\ Done(t)
         /\ UNCHANGED <<queue, admitting, chain, disturbances>>
  BY <1>1, <1>4, Zenon DEF CancelEnd
<1>8. CASE Fail(t, "operator-stopped") /\ NoWrite
  BY <1>6, <1>8, QuietlyAccounted DEF EndsQuietly
<1>9. CASE /\ rows' = [rows EXCEPT ![r].status = "ended", ![r].released = TRUE,
                                   ![r].version = @ + 1]
           /\ cancels' = [cancels EXCEPT ![r].checkpoint = h.found]
           /\ Done(t)
           /\ UNCHANGED <<queue, admitting, chain, disturbances>>
  <2>1. PICK x : x = [rows[r] EXCEPT !.status = "ended", !.released = TRUE, !.version = @ + 1]
    OBVIOUS
  <2>2. rows' = [rows EXCEPT ![r] = x]
    BY <1>6, <1>9, <2>1
  <2>3. /\ x.status = "ended" /\ x.version = rows[r].version + 1
        /\ x.released = TRUE /\ Redraws(r, x)
    BY <1>3, <1>4, <2>1 DEF RewardRow, Redraws, SameDraft
  <2>4. /\ cancels'[r].checkpoint = h.found /\ cancels'[r].phase = cancels[r].phase
        /\ SameCancel(cancels'[r], cancels[r])
        /\ \A q \in Request : q # r => cancels'[q] = cancels[q]
    BY <1>6, <1>9 DEF CancelRow, SameCancel
  <2>5. FoundMove
    BY <1>9, Undirected DEF Quits
  <2>6. NothingSettles /\ AdmissionsFade
    BY <1>9 DEF chain, NothingSettles, AdmissionsFade
  <2> QED BY <1>3, <1>4, <1>5, <2>2, <2>3, <2>4, <2>5, <2>6, RowBooked
<1> QED BY <1>7, <1>8, <1>9

\* The steps of a cancellation change no account.
LEMMA CancellationAccounted ==
    ASSUME IReward, Book, NEW t \in Thread, Cancellation(t)
    PROVE  Accounted
PROOF
<1>1. PICK h \in Handler : h = handler[t]
  <2>1. handler \in [Thread -> Handler]
    BY DEF IReward, TypeReward
  <2> QED BY ONLY <2>1, t \in Thread
<1>2. h.pc \in {"cancel", "cancel-sign", "cancel-prepare", "cancel-observe", "cancel-end"}
  BY <1>1, Zenon DEF Cancellation, CancelEnter, CancelSign, CancelPrepare, CancelObserve,
               CancelEnd, At
<1>3. PICK r \in Request : r = h.r
  BY <1>2, HandlerTypes
<1>4. h.pc \in Cancelling => cancels[r].phase # "none"
  BY <1>1, <1>3 DEF IReward, HandlerSound
<1>5. "operator-stopped" \in Reasons /\ "rpc-unavailable" \in Reasons
  BY DEF Reasons
<1>6. ASSUME NEW pc, pc \notin Findings, Continue(t, [pc |-> pc, r |-> r])
      PROVE  FoundMove
  BY <1>6, Undirected DEF Leads
<1>7. CASE CancelEnter(t)
  <2>1. \/ EndsQuietly(t)
        \/ cancels[r].phase # "none" /\ Continue(t, Resumed(r)) /\ NoWrite
        \/ /\ rows[r].status # "ended" /\ cancels[r].phase = "none" /\ rows[r].first \in Available
           /\ cancels' = [cancels EXCEPT ![r].phase = "signature-started", ![r].input = rows[r].first,
                                         ![r].amount = Worth(rows[r].first)]
           /\ Continue(t, [pc |-> "cancel-sign", r |-> r])
           /\ UNCHANGED <<rows, queue, inputs, alarm, stops, admitting, chain, disturbances>>
    BY <1>1, <1>3, <1>5, <1>7, Zenon DEF CancelEnter, EndsQuietly
  <2>2. CASE cancels[r].phase # "none" /\ Continue(t, Resumed(r)) /\ NoWrite
    <3>1. cancels[r].phase \in {"signature-started", "signed", "raw-saved"}
      BY <2>2 DEF IReward, TypeReward, CancelRow
    <3>2. PICK pc \in {"cancel-sign", "cancel-prepare", "cancel-observe"} :
              Resumed(r) = [pc |-> pc, r |-> r]
      BY <3>1 DEF Resumed
    <3>3. FoundMove
      BY <1>6, <2>2, <3>2 DEF Findings, Building
    <3> QED BY <2>2, <3>3, NoWriteAccounted
  <2>3. CASE /\ rows[r].status # "ended" /\ cancels[r].phase = "none" /\ rows[r].first \in Available
             /\ cancels' = [cancels EXCEPT ![r].phase = "signature-started", ![r].input = rows[r].first,
                                           ![r].amount = Worth(rows[r].first)]
             /\ Continue(t, [pc |-> "cancel-sign", r |-> r])
             /\ UNCHANGED <<rows, queue, inputs, alarm, stops, admitting, chain, disturbances>>
    <3>1. "cancel-sign" \notin Findings
      BY DEF Findings, Building
    <3>2. FoundMove
      BY <1>6, <2>3, <3>1
    <3> QED BY <2>3, <3>2, EnterAccounted
  <2> QED BY <2>1, <2>2, <2>3, QuietlyAccounted
<1>8. CASE CancelSign(t)
  <2>1. h.pc \in Cancelling
    BY <1>1, <1>8 DEF CancelSign, At, Cancelling
  <2>2. PICK phase : cancels' = [cancels EXCEPT ![r].phase = phase]
    BY <1>1, <1>3, <1>8 DEF CancelSign, IReward, TypeReward
  <2>3. PICK pc \in {"cancel-prepare", "cancel-observe"} : Continue(t, [pc |-> pc, r |-> r])
    BY <1>1, <1>3, <1>8 DEF CancelSign
  <2>4. UNCHANGED <<rows, admitting, chain>>
    BY <1>8 DEF CancelSign
  <2>5. FoundMove
    BY <1>6, <2>3 DEF Findings, Building
  <2> QED BY <1>4, <2>1, <2>2, <2>4, <2>5, PhaseAccounted
<1>9. CASE OriginalFinalized(t)
  <2>1. Blank(Idle) /\ Blank([pc |-> "evidence", r |-> r])
    BY DEF Blank, Idle, Findings, Building
  <2>2. FoundMove
    BY <1>1, <1>3, <1>9, <2>1, BlankMoves DEF OriginalFinalized
  <2> QED BY <1>9, <2>2, NoWriteAccounted DEF OriginalFinalized
<1>10. CASE CancelPrepare(t)
  <2>1. h.pc \in Cancelling
    BY <1>1, <1>10 DEF CancelPrepare, At, Cancelling
  <2>2. \/ EndsQuietly(t) \/ OriginalFinalized(t)
        \/ /\ cancels' = [cancels EXCEPT ![r].phase = "raw-saved"]
           /\ Continue(t, [pc |-> "cancel-observe", r |-> r])
           /\ UNCHANGED <<rows, queue, inputs, alarm, stops, admitting, chain, disturbances>>
    BY <1>1, <1>3, <1>5, <1>10, Zenon DEF CancelPrepare, EndsQuietly
  <2>3. CASE /\ cancels' = [cancels EXCEPT ![r].phase = "raw-saved"]
             /\ Continue(t, [pc |-> "cancel-observe", r |-> r])
             /\ UNCHANGED <<rows, queue, inputs, alarm, stops, admitting, chain, disturbances>>
    <3>1. FoundMove
      BY <1>6, <2>3 DEF Findings, Building
    <3> QED BY <1>4, <2>1, <2>3, <3>1, PhaseAccounted
  <2> QED BY <1>9, <2>2, <2>3, QuietlyAccounted
<1>11. CASE CancelObserve(t)
  <2>1. PICK e : e = [pc |-> "cancel-end", r |-> r, found |-> executed[Cancel(r)]]
    OBVIOUS
  <2>2. \/ EndsQuietly(t) \/ OriginalFinalized(t)
        \/ Continue(t, e) /\ NoWrite
        \/ /\ Send(Cancel(r)) /\ Done(t)
           /\ UNCHANGED <<db, admitting, deposited, executed, fork>>
    BY <1>1, <1>3, <1>5, <1>11, <2>1, Zenon DEF CancelObserve, EndsQuietly
  <2>3. CASE Continue(t, e) /\ NoWrite
    <3>1. e.pc = "cancel-end" /\ e.r = r /\ e.found = executed[Cancel(r)]
      BY <2>1
    <3>3. FoundSound(e)
      BY <3>1 DEF FoundSound, Building
    <3>4. FoundMove
      BY <2>3, <3>3, OneFinds
    <3> QED BY <2>3, <3>4, NoWriteAccounted
  <2>4. CASE /\ Send(Cancel(r)) /\ Done(t)
             /\ UNCHANGED <<db, admitting, deposited, executed, fork>>
    <3>1. FoundMove
      BY <2>4, Undirected DEF Quits
    <3> QED BY <2>4, <3>1, SendSettlesNothing, DatabaseStays
  <2> QED BY <1>9, <2>2, <2>3, <2>4, QuietlyAccounted
<1> QED BY <1>7, <1>8, <1>10, <1>11, CancelEndAccounted, Zenon DEF Cancellation

-----------------------------------------------------------------------------
\* Only admissions moved.
LEMMA AdmissionKeeps ==
    ASSUME IReward, IReward', Book, UNCHANGED <<db, chain, handler>>,
           NEW r \in Request, NEW a, admitting' = [admitting EXCEPT ![r] = a], Covered(a)
    PROVE  Book'
PROOF
<1>1. /\ rows' = rows /\ cancels' = cancels /\ handler' = handler
      /\ executed' = executed /\ NothingSettles
  BY DEF db, chain, NothingSettles
<1>2. LedgerVersion' = LedgerVersion
  BY <1>1, LedgerSum, LedgerSumNext DEF LedgerSummed
<1>3. DraftsKept /\ BalancedNext /\ FoundMove /\ FinalStays
  BY <1>1 DEF DraftsKept, SameDraft, SameCancel, BalancedNext, Book, FoundMove, FinalStays
<1>4. CoinsStay /\ Available' = Available /\ WorthOf(Available)' = WorthOf(Available)
  BY <1>1, <1>3, AvailableKept
<1>5. ActiveReservations' = ActiveReservations /\ Unpaid' = Unpaid
  BY <1>1 DEF ActiveReservations, Unpaid, Pay
<1>6. /\ \A q \in Request : Balanced(q, rows[q], cancels[q])'
      /\ \A t \in Thread : FoundSound(handler[t])'
  BY <1>3, <1>4, FindingsKept
<1>7. \A q \in Request : Confirmed(q)'
  BY <1>1 DEF Book, Confirmed, Pay, Cancel
<1>8. ASSUME NEW q \in Request
      PROVE  Covered(admitting[q])'
  <2>1. PICK b : b = admitting'[q]
    OBVIOUS
  <2>2. Covered(b)
    BY <2>1 DEF IReward, TypeReward, Book
  <2>3. Covered(b)'
    BY <1>2, <1>4, <1>5, <2>2 DEF Covered
  <2> QED BY <2>1, <2>3
<1>9. AmountOf(Unpaid)' <= WorthOf(Available)'
  BY <1>4, <1>5 DEF Book
<1> QED BY <1>6, <1>7, <1>8, <1>9 DEF Book

\* An admission starts with the version of the ledger.
LEMMA AdmitStartCounts ==
    ASSUME IReward, IReward', Book, NEW r \in Request, NEW o \in Owner, AdmitStart(r, o)
    PROVE  Book'
PROOF
<1>1. LedgerVersion \in Nat
  <2>1. \A q \in Request : rows[q].version \in Nat /\ rows[q].version <= rows[q].version
    BY DEF IReward, TypeReward, RewardRow
  <2> QED BY <2>1, LedgerGrows, LedgerSum DEF LedgerSummed
<1>2. PICK a : a = [pc |-> "funds", owner |-> o, version |-> LedgerVersion]
  OBVIOUS
<1>3. admitting' = [admitting EXCEPT ![r] = a] /\ UNCHANGED <<db, chain, handler>>
  BY <1>2 DEF AdmitStart
<1>4. Covered(a)
  <2>1. a.pc = "funds" /\ a.version = LedgerVersion
    BY <1>2
  <2> QED BY <1>1, <2>1 DEF Covered
<1> QED BY <1>3, <1>4, AdmissionKeeps

\* It counts the coins there are.
LEMMA AdmitFundsCounts ==
    ASSUME IReward, IReward', Book, NEW r \in Request, AdmitFunds(r)
    PROVE  Book'
PROOF
<1>1. UNCHANGED <<db, chain, handler>>
  BY DEF AdmitFunds
<1>2. CASE admitting' = [admitting EXCEPT ![r] = None]
  <2>1. Covered(None)
    BY DEF Covered
  <2> QED BY <1>1, <1>2, <2>1, AdmissionKeeps
<1>3. ASSUME admitting' = [admitting EXCEPT ![r] = [pc |-> "commit", owner |-> @.owner,
                                                   version |-> @.version,
                                                   total |-> WorthOf(Available)]]
      PROVE  Book'
  <2>1. PICK a : a = [pc |-> "commit", owner |-> admitting[r].owner,
                      version |-> admitting[r].version,
                      total |-> WorthOf(Available)]
    OBVIOUS
  <2>2. admitting' = [admitting EXCEPT ![r] = a]
    BY <1>3, <2>1
  <2>3. a.pc = "commit" /\ a.version = admitting[r].version /\ a.total = WorthOf(Available)
    BY <2>1
  <2>4. admitting[r] # None /\ admitting[r].pc = "funds" /\ Covered(admitting[r])
    BY DEF AdmitFunds, Admitting, Book
  <2>5. a.version \in Nat /\ a.version <= LedgerVersion
    BY <2>3, <2>4 DEF Covered
  <2>6. /\ WorthOf(Available) \in Nat /\ AmountOf(Unpaid) \in Nat
        /\ AmountOf(ActiveReservations) \in Nat
        /\ AmountOf(Unpaid) <= AmountOf(ActiveReservations)
    BY Counted DEF Counts
  <2>7. Covered(a)
    BY <2>3, <2>5, <2>6 DEF Covered
  <2> QED BY <1>1, <2>2, <2>7, AdmissionKeeps
<1> QED BY <1>2, <1>3 DEF AdmitFunds

\* An admission commits only when the ledger is the one whose funds it counted,
\* and then every other admission that counted has to start again.
LEMMA AcceptBacked ==
    ASSUME IReward, IReward', Book, NEW r \in Request, NEW a,
           Admitting(r, "commit"), a = admitting[r], SameLedger(a.version),
           a.total >= AmountOf(ActiveReservations) + RewardAmount[r],
           rows' = [rows EXCEPT ![r].status = "accepted", ![r].owner = a.owner, ![r].version = 1],
           admitting' = [admitting EXCEPT ![r] = [pc |-> "schedule"]],
           UNCHANGED <<inputs, cancels, stops, alarm, handler, chain, disturbances>>
    PROVE  Book'
PROOF
<1>1. rows \in [Request -> RewardRow] /\ DOMAIN admitting = Request
  BY DEF IReward, TypeReward
<1>2. rows[r].status = "none" /\ rows[r].version = 0 /\ ~rows[r].released
  BY DEF Admitting, IReward, Admissions, Consistent, Over, Book, Confirmed
<1>3. /\ rows'[r].status = "accepted" /\ rows'[r].version = 1
      /\ rows'[r].released = rows[r].released
      /\ rows'[r].phase = rows[r].phase /\ SameDraft(rows'[r], rows[r])
      /\ rows'[r].status # "none"
      /\ \A q \in Request : q # r => rows'[q] = rows[q]
  BY <1>1 DEF RewardRow, SameDraft
<1>4. NothingSettles /\ executed' = executed /\ deposited' = deposited /\ handler' = handler
      /\ cancels' = cancels
  BY DEF chain, NothingSettles
<1>5. DraftsKept /\ FoundMove /\ FinalStays /\ BalancedNext
  <2>1. DraftsKept /\ FoundMove /\ FinalStays
    BY <1>3, <1>4 DEF DraftsKept, SameDraft, SameCancel, FoundMove, FinalStays
  <2>2. ASSUME NEW q \in Request
        PROVE  Balanced(q, rows'[q], cancels[q])
    <3>1. Balanced(q, rows[q], cancels[q]) /\ rows'[q].phase = rows[q].phase /\ SameDraft(rows'[q], rows[q])
      BY <1>3 DEF Book, SameDraft
    <3> QED BY <3>1 DEF Balanced, SameDraft
  <2>3. BalancedNext
    BY <1>4, <2>2 DEF BalancedNext
  <2> QED BY <2>1, <2>3
<1>6. /\ CoinsStay /\ Available' = Available /\ WorthOf(Available)' = WorthOf(Available)
      /\ \A q \in Request : Balanced(q, rows[q], cancels[q])'
      /\ \A t \in Thread : FoundSound(handler[t])'
  BY <1>4, <1>5, AvailableKept, FindingsKept
<1>7. ASSUME NEW q \in Request
      PROVE  Confirmed(q)'
  <2>1. CASE q = r
    <3>1. cancels[r].checkpoint = None
      BY <1>2 DEF Book, Confirmed
    <3> QED BY <1>3, <1>4, <2>1, <3>1 DEF Confirmed
  <2>2. CASE q # r
    <3>1. Confirmed(q) /\ rows'[q] = rows[q] /\ cancels'[q] = cancels[q] /\ executed' = executed
      BY <1>3, <1>4, <2>2 DEF Book
    <3> QED BY ONLY <3>1 DEF Confirmed, Pay, Cancel
  <2> QED BY <2>1, <2>2
<1>9. /\ LedgerVersion \in Nat /\ LedgerVersion' \in Nat /\ LedgerVersion < LedgerVersion'
  <2>1. \A q \in Request : /\ rows[q].version \in Nat /\ rows'[q].version \in Nat
                           /\ rows[q].version <= rows'[q].version
    BY <1>1, <1>2, <1>3 DEF RewardRow
  <2>2. /\ LedgerVersion \in Nat /\ LedgerVersion' \in Nat /\ LedgerVersion <= LedgerVersion'
        /\ LedgerVersion = LedgerVersion' => rows[r].version = rows'[r].version
    <3>1. LedgerVersion = VersionOf(rows) /\ LedgerVersion' = VersionOf(rows')
      BY LedgerSum, LedgerSumNext DEF LedgerSummed
    <3> QED BY ONLY <2>1, <3>1, LedgerGrows
  <2> QED BY <1>2, <1>3, <2>2
<1>10. ASSUME NEW q \in Request
       PROVE  Covered(admitting[q])'
  <2>1. PICK b : b = admitting'[q]
    OBVIOUS
  <2>2. CASE q = r
    <3>1. b = [pc |-> "schedule"]
      BY <1>1, <2>1, <2>2
    <3>2. b.pc \notin {"funds", "commit"}
      BY <3>1
    <3>3. Covered(b)'
      BY <3>2 DEF Covered
    <3> QED BY <2>1, <3>3
  <2>3. CASE q # r
    <3>1. Covered(b)
      BY <1>1, <2>1, <2>3 DEF Book
    <3>2. Covered(b)'
      BY <1>9, <3>1 DEF Covered
    <3> QED BY <2>1, <3>2
  <2> QED BY <2>2, <2>3
<1>11. AmountOf(Unpaid') <= WorthOf(Available)'
  <2>1. Unpaid' \subseteq Unpaid \cup {r}
    BY <1>3, <1>4 DEF Unpaid, ActiveReservations, Pay
  <2>2. Counts
    BY Counted
  <2>3. PICK T : T = Unpaid \cup {r}
    OBVIOUS
  <2>4. T \in SUBSET Request /\ Unpaid' \in SUBSET T
    BY <2>1, <2>2, <2>3 DEF Counts
  <2>5. AmountOf(Unpaid') <= AmountOf(T) /\ AmountOf(T) <= AmountOf(Unpaid) + RewardAmount[r]
    BY <2>2, <2>3, <2>4, AmountSums DEF Counts
  <2>6. AmountOf(Unpaid') \in Nat /\ AmountOf(T) \in Nat
    BY <2>4, AmountSums
  <2>7. /\ a.total \in Nat
        /\ a.total + AmountOf(Unpaid) <= WorthOf(Available) + AmountOf(ActiveReservations)
    BY DEF Book, Covered, Admitting, SameLedger
  <2>8. /\ AmountOf(Unpaid) \in Nat /\ WorthOf(Available) \in Nat
        /\ AmountOf(ActiveReservations) \in Nat /\ RewardAmount[r] \in Nat
    BY <2>2, RewardAssumption DEF Counts
  <2>9. a.total >= AmountOf(ActiveReservations) + RewardAmount[r]
    OBVIOUS
  <2>10. AmountOf(Unpaid) + RewardAmount[r] <= WorthOf(Available)
    BY ONLY <2>7, <2>8, <2>9
  <2>11. AmountOf(Unpaid') <= WorthOf(Available)
    BY ONLY <2>5, <2>6, <2>8, <2>10
  <2> QED BY <1>6, <2>11
<1> QED BY <1>6, <1>7, <1>10, <1>11 DEF Book

\* The transaction of an admission keeps the books.
LEMMA AdmitCommitBacked ==
    ASSUME IReward, IReward', Book, NEW r \in Request, AdmitCommit(r)
    PROVE  Book'
PROOF
<1>1. PICK a : a = admitting[r]
  OBVIOUS
<1>2. CASE /\ UNCHANGED <<rows, queue>> /\ admitting' = [admitting EXCEPT ![r] = None]
           /\ UNCHANGED <<inputs, cancels, stops, alarm, handler, chain, disturbances>>
  <2>1. Covered(None)
    BY DEF Covered
  <2> QED BY <1>2, <2>1, AdmissionKeeps DEF db
<1>3. CASE /\ SameLedger(a.version) /\ a.total >= AmountOf(ActiveReservations) + RewardAmount[r]
           /\ rows' = [rows EXCEPT ![r].status = "accepted", ![r].owner = a.owner, ![r].version = 1]
           /\ admitting' = [admitting EXCEPT ![r] = [pc |-> "schedule"]]
           /\ UNCHANGED <<inputs, cancels, stops, alarm, handler, chain, disturbances>>
  <2>1. Admitting(r, "commit")
    BY DEF AdmitCommit
  <2> QED BY <1>1, <1>3, <2>1, AcceptBacked
<1> QED BY <1>1, <1>2, <1>3, Zenon DEF AdmitCommit

\* The steps beside the handlers that let nothing become final.
LEMMA AsideAccounted ==
    ASSUME IReward, Book,
           \/ \E r \in Request : AdmitSchedule(r) \/ Receive(r) \/ EndUnsigned(r) \/ CancelSigned(r)
           \/ \E reason \in Stops : Stop(reason)
           \/ Resume \/ Restart \/ UNCHANGED vars
    PROVE  Accounted
PROOF
<1>1. rows \in [Request -> RewardRow] /\ DOMAIN admitting = Request
  BY DEF IReward, TypeReward
<1>2. ASSUME handler' = handler
      PROVE  FoundMove
  BY <1>2 DEF FoundMove
<1>3. ASSUME UNCHANGED <<admitting, chain>>
      PROVE  NothingSettles /\ AdmissionsFade
  BY <1>3 DEF chain, NothingSettles, AdmissionsFade
<1>4. ASSUME NEW r \in Request, AdmitSchedule(r)
      PROVE  Accounted
  <2>1. UNCHANGED db /\ NothingSettles /\ handler' = handler
    BY <1>4 DEF AdmitSchedule, chain, NothingSettles
  <2>2. AdmissionsFade
    BY <1>1, <1>4 DEF AdmitSchedule, AdmissionsFade
  <2> QED BY <1>2, <2>1, <2>2, DatabaseStays
<1>5. ASSUME NEW r \in Request, Receive(r)
      PROVE  Accounted
  <2>1. PICK x : x = [rows[r] EXCEPT !.status = "received", !.version = @ + 1]
    OBVIOUS
  <2>2. rows[r] \in RewardRow
    BY <1>1
  <2>3. /\ rows' = [rows EXCEPT ![r] = x] /\ rows[r].status = "finalized"
        /\ executed[Pay(r)] = rows[r].checkpoint
        /\ cancels' = cancels /\ handler' = handler /\ UNCHANGED <<admitting, chain>>
    BY <1>1, <1>5, <2>1 DEF Receive
  <2>4. /\ x.status = "received" /\ x.version = rows[r].version + 1 /\ Redraws(r, x)
        /\ x.released = rows[r].released /\ x.checkpoint = rows[r].checkpoint
        /\ SameCancel(cancels'[r], cancels[r])
    BY <2>1, <2>2, <2>3 DEF RewardRow, Redraws, SameDraft, SameCancel
  <2>5. executed[Pay(r)] # None
    BY <2>3 DEF Book, Confirmed
  <2> QED BY <1>2, <1>3, <2>3, <2>4, <2>5, RowBooked
<1>6. ASSUME NEW r \in Request, EndUnsigned(r)
      PROVE  Accounted
  <2>1. /\ cancels' = cancels /\ handler' = handler /\ UNCHANGED <<admitting, chain>>
    BY <1>6 DEF EndUnsigned
  <2>2. CASE rows' = rows
    BY <1>2, <1>3, <2>1, <2>2, RecordsStay
  <2>3. CASE /\ Unsigned(r)
             /\ rows' = [rows EXCEPT ![r].status = "ended", ![r].released = TRUE,
                                     ![r].version = @ + 1]
    <3>1. PICK x : x = [rows[r] EXCEPT !.status = "ended", !.released = TRUE, !.version = @ + 1]
      OBVIOUS
    <3>2. rows[r] \in RewardRow
      BY <1>1
    <3>3. rows' = [rows EXCEPT ![r] = x]
      BY <1>1, <2>3, <3>1
    <3>4. /\ x.status = "ended" /\ x.version = rows[r].version + 1 /\ Redraws(r, x)
          /\ x.released = TRUE
      BY <3>1, <3>2 DEF RewardRow, Redraws, SameDraft
    <3>5. cancels[r].phase = "none" /\ rows[r].status # "none"
      BY <2>3 DEF Unsigned, IReward, Consistent
    <3>6. FoundMove /\ NothingSettles /\ AdmissionsFade /\ cancels' = cancels
      BY <1>2, <1>3, <2>1
    <3>7. /\ \A q \in Request : q # r => cancels'[q] = cancels[q]
          /\ SameCancel(cancels'[r], cancels[r]) /\ cancels'[r].phase = cancels[r].phase
          /\ cancels'[r].checkpoint = cancels[r].checkpoint
      BY <3>6 DEF SameCancel
    <3>8. rows[r].released => x.released
      BY <3>4
    <3>9. cancels'[r].phase = "none"
      BY <3>5, <3>6
    <3> QED BY ONLY <3>3, <3>4, <3>5, <3>6, <3>7, <3>8, <3>9,
           r \in Request, IReward, Book, RowBooked
  <2> QED BY <1>6, <2>2, <2>3 DEF EndUnsigned
<1>7. ASSUME NEW r \in Request, CancelSigned(r)
      PROVE  Accounted
  <2>1. "operator" \in Thread /\ "cancel" \notin Findings /\ Leads("operator", "cancel")
    BY <1>7 DEF CancelSigned, Leads, Thread, Findings, Building
  <2>2. UNCHANGED db /\ UNCHANGED <<admitting, chain>>
    BY <1>7 DEF CancelSigned
  <2> QED BY <1>3, <2>1, <2>2, Undirected, DatabaseStays
<1>8. CASE (\E reason \in Stops : Stop(reason)) \/ Resume \/ UNCHANGED vars
  <2>1. UNCHANGED db /\ UNCHANGED <<admitting, chain>> /\ handler' = handler
    BY <1>8 DEF Stop, Resume, vars
  <2> QED BY <1>2, <1>3, <2>1, DatabaseStays
<1>9. CASE Restart
  <2>1. UNCHANGED db /\ NothingSettles /\ AdmissionsFade
    BY <1>9 DEF Restart, chain, NothingSettles, AdmissionsFade
  <2>2. FoundSound(Idle)
    BY DEF FoundSound, Idle, Building
  <2>3. FoundMove
    BY <1>9, <2>2 DEF Restart, FoundMove
  <2> QED BY <2>1, <2>3, DatabaseStays
<1> QED BY <1>4, <1>5, <1>6, <1>7, <1>8, <1>9

\* What a step that only moves the chain on leaves alone.
Onward ==
    /\ UNCHANGED <<rows, cancels, handler, admitting>>
    /\ deposited \subseteq deposited' /\ FinalStays

\* The records stay balanced, the findings sound, and what was promised is what it was.
LEMMA OnwardKeeps ==
    ASSUME IReward, IReward', Book, Onward
    PROVE  /\ \A q \in Request : Balanced(q, rows[q], cancels[q])'
           /\ \A t \in Thread : FoundSound(handler[t])'
           /\ \A c \in Coin : (Made(c) => Made(c)') /\ Worth(c)' = Worth(c)
           /\ \A S \in SUBSET Coin : WorthOf(S)' = WorthOf(S)
           /\ LedgerVersion' = LedgerVersion /\ ActiveReservations' = ActiveReservations
           /\ \A op : InputsOf(op)' = InputsOf(op)
PROOF
<1>1. \A c : Worth(c)' = Worth(c)
  BY DEF Onward, Worth
<1>2. ASSUME NEW c \in Coin, Made(c)
      PROVE  Made(c)'
  <2>1. CASE c \in Base
    BY <1>2, <2>1 DEF Made, Onward
  <2>2. CASE c \notin Base
    <3>1. c \in Op
      BY <2>2 DEF Coin
    <3> QED BY <1>1, <1>2, <2>2, <3>1 DEF Made, Onward, FinalStays
  <2> QED BY <2>1, <2>2
<1>3. CoinsStay /\ FinalStays /\ FoundMove /\ BalancedNext
  BY <1>1, <1>2 DEF CoinsStay, Onward, FoundMove, BalancedNext, Book
<1>4. \A S \in SUBSET Coin : WorthOf(S)' = WorthOf(S)
  BY <1>1, WorthStays DEF IReward
<1>5. LedgerVersion' = LedgerVersion
  BY LedgerSum, LedgerSumNext DEF LedgerSummed, Onward
<1>6. ActiveReservations' = ActiveReservations /\ \A op : InputsOf(op)' = InputsOf(op)
  BY DEF Onward, ActiveReservations, InputsOf
<1> QED BY <1>1, <1>2, <1>3, <1>4, <1>5, <1>6, FindingsKept

\* What changes by as much on both sides of the account, or to the good.
LEMMA AccountMoves ==
    ASSUME IReward, Book, ActiveReservations' = ActiveReservations, LedgerVersion' = LedgerVersion,
           admitting' = admitting, NEW k \in Int, AmountOf(Unpaid') \in Nat, WorthOf(Available)' \in Nat,
           AmountOf(Unpaid') = AmountOf(Unpaid) - k, WorthOf(Available)' >= WorthOf(Available) - k
    PROVE  /\ \A q \in Request : Covered(admitting[q])'
           /\ AmountOf(Unpaid') <= WorthOf(Available)'
PROOF
<1>1. /\ WorthOf(Available) \in Nat /\ AmountOf(Unpaid) \in Nat
      /\ AmountOf(ActiveReservations) \in Nat
  BY Counted DEF Counts
<1>2. ASSUME NEW q \in Request
      PROVE  Covered(admitting[q])'
  <2>1. PICK b : b = admitting[q]
    OBVIOUS
  <2>2. Covered(b)
    BY <2>1 DEF Book
  <2>3. ASSUME b.total \in Nat,
               b.total + AmountOf(Unpaid) <= WorthOf(Available) + AmountOf(ActiveReservations)
        PROVE  b.total + AmountOf(Unpaid') <= WorthOf(Available)' + AmountOf(ActiveReservations)
    BY <1>1, <2>3
  <2>4. Covered(b)'
    BY <2>2, <2>3 DEF Covered
  <2> QED BY <2>1, <2>4
<1>3. AmountOf(Unpaid) <= WorthOf(Available)
  BY DEF Book
<1>4. AmountOf(Unpaid') <= WorthOf(Available)'
  BY <1>1, <1>3
<1> QED BY <1>2, <1>4

\* New funds back more.
LEMMA FundBacked ==
    ASSUME IReward, IReward', Book, NEW c \in Base, Fund(c)
    PROVE  Book'
PROOF
<1>1. /\ rows' = rows /\ cancels' = cancels /\ handler' = handler /\ admitting' = admitting
      /\ executed' = executed /\ deposited' = deposited \cup {c}
  BY DEF Fund, db
<1>2. Onward
  BY <1>1 DEF Onward, FinalStays
<1>3. /\ \A q \in Request : Balanced(q, rows[q], cancels[q])'
      /\ \A t \in Thread : FoundSound(handler[t])'
      /\ \A d \in Coin : (Made(d) => Made(d)') /\ Worth(d)' = Worth(d)
      /\ \A S \in SUBSET Coin : WorthOf(S)' = WorthOf(S)
      /\ LedgerVersion' = LedgerVersion /\ ActiveReservations' = ActiveReservations
      /\ \A op : InputsOf(op)' = InputsOf(op)
  BY <1>2, OnwardKeeps
<1>4. \A d \in Coin : Spent(d)' <=> Spent(d)
  BY <1>1, <1>3 DEF Spent
<1>5. Available \subseteq Available'
  BY <1>3, <1>4 DEF Available
<1>6. Unpaid' = Unpaid
  BY <1>1, <1>3 DEF Unpaid, Pay
<1>7. Counts /\ Counts'
  BY Counted, CountedNext
<1>8. WorthOf(Available)' >= WorthOf(Available)
  <2>1. PICK S, T : S = Available' /\ T = Available
    OBVIOUS
  <2>2. S \in SUBSET Coin /\ T \in SUBSET S /\ \A d \in S : Made(d)'
    BY <1>5, <2>1 DEF Available
  <2>3. WorthOf(T)' <= WorthOf(S)'
    BY <2>2, CoinsValuedNext DEF Valued, IReward
  <2>4. WorthOf(T)' = WorthOf(T)
    BY <1>3, <2>2
  <2>5. WorthOf(S)' = WorthOf(Available)'
    BY <2>1
  <2>6. WorthOf(Available)' \in Nat /\ WorthOf(T) \in Nat
    BY <1>7, <2>1 DEF Counts
  <2> QED BY <2>1, <2>3, <2>4, <2>5, <2>6
<1>9. \A q \in Request : Confirmed(q)'
  BY <1>1 DEF Book, Confirmed, Pay, Cancel
<1>10. /\ \A q \in Request : Covered(admitting[q])'
       /\ AmountOf(Unpaid') <= WorthOf(Available)'
  <2>1. /\ AmountOf(Unpaid') \in Nat /\ WorthOf(Available)' \in Nat
        /\ AmountOf(Unpaid') = AmountOf(Unpaid) - 0
        /\ WorthOf(Available)' >= WorthOf(Available) - 0
    BY <1>6, <1>7, <1>8 DEF Counts
  <2> QED BY <1>1, <1>3, <2>1, AccountMoves
<1> QED BY <1>3, <1>9, <1>10 DEF Book

\* Inputs that make place for a new coin.
LEMMA Exchanged ==
    ASSUME TypeReward, NEW S \in SUBSET Coin, NEW T \in SUBSET S, NEW c \in Coin, c \notin S
    PROVE  /\ WorthOf(S \ T) = WorthOf(S) - WorthOf(T)
           /\ WorthOf((S \ T) \cup {c}) = WorthOf(S) - WorthOf(T) + Worth(c)
PROOF
<1>1. \A R \in SUBSET Coin : WorthOf(R) = SumOver(Worths, R) /\ WorthOf(R) \in Int /\ IsFiniteSet(R)
  BY CoinsValued, FinitelyMany DEF Valued
<1>2. \A x \in Coin : Worths[x] \in Int /\ Worths[x] = Worth(x)
  BY CoinsValued DEF Valued, Worths
<1>3. PICK R : R = S \ T
  OBVIOUS
<1>4. R \in SUBSET Coin /\ T \in SUBSET Coin /\ R \cup {c} \in SUBSET Coin /\ c \notin R
  BY <1>3
<1>5. SumOver(Worths, S) = SumOver(Worths, T) + SumOver(Worths, R)
  <2>1. \A x \in S : Worths[x] \in Int
    BY <1>2
  <2> QED BY <1>1, <1>3, <2>1, SumParts
<1>6. SumOver(Worths, R \cup {c}) = Worths[c] + SumOver(Worths, R)
  <2>1. \A x \in R \cup {c} : Worths[x] \in Int
    BY <1>2, <1>4
  <2> QED BY <1>1, <1>4, <2>1, SumWith
<1>7. WorthOf(S) = WorthOf(T) + WorthOf(R) /\ WorthOf(R \cup {c}) = Worth(c) + WorthOf(R)
  BY <1>1, <1>2, <1>4, <1>5, <1>6
<1>8. WorthOf(S) \in Int /\ WorthOf(T) \in Int /\ WorthOf(R) \in Int /\ Worth(c) \in Int
  BY <1>1, <1>2, <1>4
<1> QED BY <1>3, <1>7, <1>8

\* What holds of an operation that becomes final: its inputs make place for what it makes.
LEMMA FinalizeFacts ==
    ASSUME IReward, IReward', Book, NEW op \in Op, Finalize(op), Worth(op) >= 0
    PROVE  /\ Onward
           /\ executed[op] = None /\ executed'[op] # None /\ op \in sent
           /\ \A other \in Op : other # op => executed'[other] = executed[other]
           /\ InputsOf(op) \subseteq Available
           /\ WorthOf(Available)' = WorthOf(Available) - WorthOf(InputsOf(op)) + Worth(op)
PROOF
<1>1. /\ rows' = rows /\ cancels' = cancels /\ handler' = handler /\ admitting' = admitting
      /\ deposited' = deposited /\ op \in sent /\ executed[op] = None
      /\ InputsOf(op) \subseteq Available /\ executed' = [executed EXCEPT ![op] = fork]
  BY DEF Finalize, db
<1>2. fork # None /\ executed \in [Op -> Nat \cup {None}]
  BY RewardAssumption DEF IReward, TypeReward
<1>3. /\ executed'[op] # None
      /\ \A other \in Op : other # op => executed'[other] = executed[other]
      /\ \A other \in Op : executed[other] # None => executed'[other] = executed[other]
  BY <1>1, <1>2
<1>4. Onward
  BY <1>1, <1>3 DEF Onward, FinalStays
<1>5. /\ \A c \in Coin : (Made(c) => Made(c)') /\ Worth(c)' = Worth(c)
      /\ \A S \in SUBSET Coin : WorthOf(S)' = WorthOf(S)
      /\ \A other : InputsOf(other)' = InputsOf(other)
  BY <1>4, OnwardKeeps
<1>6. \A c \in Coin : Spent(c)' <=> Spent(c) \/ c \in InputsOf(op)
  BY <1>1, <1>3, <1>5 DEF Spent
<1>7. op \in Coin /\ op \notin Base /\ ~Made(op) /\ (Made(op)' <=> Worth(op) > 0)
  <2>1. op \in Coin /\ op \notin Base
    BY RewardAssumption DEF Coin
  <2> QED BY <1>1, <1>3, <1>5, <2>1 DEF Made
<1>8. \A c \in Coin \ {op} : Made(c)' <=> Made(c)
  <2>1. ASSUME NEW c \in Coin \ {op}
        PROVE  Made(c)' <=> Made(c)
    <3>1. c \in Base \/ (c \in Op /\ executed'[c] = executed[c])
      BY <1>3 DEF Coin
    <3> QED BY <1>1, <1>5, <3>1 DEF Made
  <2> QED BY <2>1
<1>9. ~Spent(op) /\ op \notin InputsOf(op)
  <2>1. op \notin InputsOf(op)
    BY <1>1, <1>7 DEF Available
  <2>2. ASSUME NEW other \in Op, executed[other] # None, op \in InputsOf(other)
        PROVE  FALSE
    <3>1. /\ other[2] \in Request /\ other \in {Pay(other[2]), Cancel(other[2])} /\ other \in sent
      BY <2>2, Operations DEF IReward, ChainSound
    <3>2. PICK q \in Request : q = other[2]
      BY <3>1
    <3>3. Consistent(q) /\ Balanced(q, rows[q], cancels[q])
      BY DEF IReward, Book
    <3>4. CASE other = Pay(q)
      <4>1. rows[q].phase = "signature-started" /\ op \in rows[q].coins
        BY <2>2, <3>1, <3>3, <3>4, Operations DEF Consistent
      <4> QED BY <1>7, <3>3, <4>1 DEF Balanced, Enough, Drawn
    <3>5. CASE other = Cancel(q)
      <4>1. cancels[q].phase # "none" /\ op = cancels[q].input
        BY <2>2, <3>1, <3>3, <3>5, Operations DEF Consistent
      <4> QED BY <1>7, <3>3, <4>1 DEF Balanced
    <3> QED BY <3>1, <3>2, <3>4, <3>5
  <2> QED BY <2>1, <2>2 DEF Spent
<1>10. PICK S, T : S = Available /\ T = InputsOf(op)
  OBVIOUS
<1>11. S \in SUBSET Coin /\ T \in SUBSET S /\ op \notin S
  BY <1>1, <1>7, <1>10 DEF Available
<1>12. Available' = IF Worth(op) > 0 THEN (S \ T) \cup {op} ELSE S \ T
  BY <1>6, <1>7, <1>8, <1>9, <1>10 DEF Available
<1>13. /\ WorthOf(S \ T) = WorthOf(S) - WorthOf(T)
       /\ WorthOf((S \ T) \cup {op}) = WorthOf(S) - WorthOf(T) + Worth(op)
       /\ WorthOf(S) \in Int /\ WorthOf(T) \in Int /\ Worth(op) \in Int
  BY <1>7, <1>11, Exchanged, WorthType DEF IReward
<1>14. WorthOf(Available)' = WorthOf(S) - WorthOf(T) + Worth(op)
  <2>1. PICK R : R = Available'
    OBVIOUS
  <2>2. R \in SUBSET Coin
    BY <1>7, <1>11, <1>12, <2>1
  <2>3. WorthOf(R) = WorthOf(S) - WorthOf(T) + Worth(op)
    <3>1. CASE Worth(op) > 0
      BY <1>12, <1>13, <2>1, <3>1
    <3>2. CASE ~(Worth(op) > 0)
      <4>1. Worth(op) = 0
        BY <1>13, <3>2
      <4>2. WorthOf(R) = WorthOf(S) - WorthOf(T)
        BY <1>12, <1>13, <2>1, <3>2
      <4> QED BY <1>13, <4>1, <4>2
    <3> QED BY <3>1, <3>2
  <2>4. WorthOf(Available)' = WorthOf(R)' /\ WorthOf(R)' = WorthOf(R)
    BY <1>5, <2>1, <2>2
  <2> QED BY <2>3, <2>4
<1> QED BY <1>1, <1>3, <1>4, <1>10, <1>14

\* A payment takes the promise, and what was promised.
LEMMA PaymentBacked ==
    ASSUME IReward, IReward', Book, fork = 0, NEW r \in Request, Finalize(Pay(r))
    PROVE  Book'
PROOF
<1>1. /\ Pay(r) \in Op /\ InputsOf(Pay(r)) = rows[r].coins
      /\ \A q \in Request : q # r => Pay(q) # Pay(r)
      /\ \A q \in Request : Cancel(q) # Pay(r) /\ Cancel(q) \in Op /\ Pay(q) \in Op
  BY Operations DEF Pay, Cancel
<1>2. PICK op \in Op : op = Pay(r)
  BY <1>1
<1>3. Pay(r) \in sent /\ rows[r].phase = "signature-started"
  BY DEF Finalize, IReward, Consistent
<1>4. /\ WorthOf(rows[r].coins) >= RewardAmount[r] /\ Worth(op) = rows[r].change
      /\ rows[r].change = WorthOf(rows[r].coins) - RewardAmount[r]
  <2>1. Balanced(r, rows[r], cancels[r])
    BY DEF Book
  <2>2. op \notin Base /\ op[1] = "pay" /\ op[2] = r
    BY <1>2, RewardAssumption DEF Pay
  <2> QED BY <1>3, <2>1, <2>2 DEF Balanced, Enough, Drawn, Worth
<1>5. RewardAmount[r] \in Nat /\ WorthOf(rows[r].coins) \in Int
  <2>1. RewardAmount[r] \in Nat
    BY RewardAssumption
  <2>2. rows[r].coins \in SUBSET Coin
    BY DEF IReward, TypeReward, RewardRow
  <2> QED BY <2>1, <2>2, WorthType DEF IReward
<1>6. Worth(op) >= 0
  BY <1>4, <1>5
<1>7. /\ Onward /\ executed[op] = None /\ executed'[op] # None
      /\ \A other \in Op : other # op => executed'[other] = executed[other]
      /\ InputsOf(op) \subseteq Available
      /\ WorthOf(Available)' = WorthOf(Available) - WorthOf(InputsOf(op)) + Worth(op)
  BY <1>2, <1>6, FinalizeFacts
<1>8. /\ \A q \in Request : Balanced(q, rows[q], cancels[q])'
      /\ \A t \in Thread : FoundSound(handler[t])'
      /\ LedgerVersion' = LedgerVersion /\ ActiveReservations' = ActiveReservations
  BY <1>7, OnwardKeeps
<1>9. r \in Unpaid
  <2>1. rows[r].status \notin {"none", "finalized", "received"}
    BY <1>2, <1>3, <1>7 DEF Book, Confirmed
  <2>2. rows[r].status # "ended"
    <3> SUFFICES ASSUME rows[r].status = "ended"
                 PROVE  FALSE
      OBVIOUS
    <3>1. executed[Cancel(r)] # None
      BY <1>3 DEF IReward, Consistent
    <3>2. cancels[r].phase # "none"
      BY <1>1, <3>1 DEF IReward, ChainSound, Consistent
    <3>3. cancels[r].input \in rows[r].coins /\ InputsOf(Cancel(r)) = {cancels[r].input}
      BY <3>2, Operations DEF IReward, Held
    <3>4. Spent(cancels[r].input)
      BY <1>1, <3>1, <3>3 DEF Spent
    <3> QED BY <1>1, <1>2, <1>7, <3>3, <3>4 DEF Available
  <2> QED BY <1>2, <1>7, <2>1, <2>2 DEF Unpaid, ActiveReservations, IReward, Consistent, Over
<1>10. Unpaid' = Unpaid \ {r}
  <2>1. \A q \in Request : executed'[Pay(q)] = None <=> executed[Pay(q)] = None /\ q # r
    BY <1>1, <1>2, <1>7
  <2> QED BY <1>8, <2>1 DEF Unpaid, ActiveReservations, Pay
<1>11. ASSUME NEW q \in Request
       PROVE  Confirmed(q)'
  <2>1. Confirmed(q) /\ rows'[q] = rows[q] /\ cancels'[q] = cancels[q]
    BY <1>7 DEF Book, Onward
  <2>2. /\ executed[Pay(q)] # None => executed'[Pay(q)] = executed[Pay(q)]
        /\ executed'[Cancel(q)] = executed[Cancel(q)]
    BY <1>1, <1>2, <1>7
  <2> QED BY ONLY <2>1, <2>2 DEF Confirmed, Pay, Cancel
<1>12. /\ AmountOf(Unpaid') \in Nat /\ AmountOf(Unpaid') = AmountOf(Unpaid) - RewardAmount[r]
       /\ WorthOf(Available)' \in Nat
       /\ WorthOf(Available)' >= WorthOf(Available) - RewardAmount[r]
  <2>1. Counts /\ Counts'
    BY Counted, CountedNext
  <2>2. AmountOf(Unpaid') \in Nat /\ AmountOf(Unpaid') = AmountOf(Unpaid) - RewardAmount[r]
    BY <1>9, <1>10, <2>1, AmountSums DEF Counts
  <2>3. WorthOf(Available) \in Nat /\ WorthOf(Available)' \in Nat
    BY <2>1 DEF Counts
  <2>4. WorthOf(InputsOf(op)) = WorthOf(rows[r].coins)
    BY <1>1, <1>2
  <2>5. WorthOf(Available)' = WorthOf(Available) - RewardAmount[r]
    BY <1>4, <1>5, <1>7, <2>3, <2>4
  <2> QED BY <1>5, <2>2, <2>3, <2>5
<1>13. /\ \A q \in Request : Covered(admitting[q])'
       /\ AmountOf(Unpaid') <= WorthOf(Available)'
  BY <1>5, <1>7, <1>8, <1>12, AccountMoves DEF Onward
<1> QED BY <1>8, <1>11, <1>13 DEF Book

\* A cancellation turns the coin into another one.
LEMMA CancellationBacked ==
    ASSUME IReward, IReward', Book, fork = 0, NEW r \in Request, Finalize(Cancel(r))
    PROVE  Book'
PROOF
<1>1. /\ Cancel(r) \in Op /\ InputsOf(Cancel(r)) = {cancels[r].input}
      /\ \A q \in Request : q # r => Cancel(q) # Cancel(r)
      /\ \A q \in Request : Pay(q) # Cancel(r) /\ Cancel(q) \in Op /\ Pay(q) \in Op
  BY Operations DEF Pay, Cancel
<1>2. PICK op \in Op : op = Cancel(r)
  BY <1>1
<1>3. cancels[r].phase # "none"
  BY DEF Finalize, IReward, Consistent
<1>4. /\ Made(cancels[r].input) /\ Worth(op) = Worth(cancels[r].input)
  <2>1. Balanced(r, rows[r], cancels[r])
    BY DEF Book
  <2>2. op \notin Base /\ op[1] = "cancel" /\ op[2] = r
    BY <1>2, RewardAssumption DEF Cancel
  <2> QED BY <1>3, <2>1, <2>2 DEF Balanced, Worth
<1>5. /\ cancels[r].input \in Coin /\ Worth(op) \in Nat
      /\ WorthOf(InputsOf(op)) = Worth(op)
  <2>1. cancels[r].input \in Coin
    BY <1>3 DEF IReward, Held, TypeReward, RewardRow
  <2> QED BY <1>1, <1>2, <1>4, <2>1, CoinsValued DEF Valued, IReward
<1>6. Worth(op) >= 0
  BY <1>5
<1>7. /\ Onward /\ executed[op] = None /\ executed'[op] # None
      /\ \A other \in Op : other # op => executed'[other] = executed[other]
      /\ WorthOf(Available)' = WorthOf(Available) - WorthOf(InputsOf(op)) + Worth(op)
  BY <1>2, <1>6, FinalizeFacts
<1>8. /\ \A q \in Request : Balanced(q, rows[q], cancels[q])'
      /\ \A t \in Thread : FoundSound(handler[t])'
      /\ LedgerVersion' = LedgerVersion /\ ActiveReservations' = ActiveReservations
  BY <1>7, OnwardKeeps
<1>9. Unpaid' = Unpaid
  <2>1. \A q \in Request : executed'[Pay(q)] = executed[Pay(q)]
    BY <1>1, <1>2, <1>7
  <2> QED BY <1>8, <2>1 DEF Unpaid, ActiveReservations, Pay
<1>10. ASSUME NEW q \in Request
       PROVE  Confirmed(q)'
  <2>1. Confirmed(q) /\ rows'[q] = rows[q] /\ cancels'[q] = cancels[q]
    BY <1>7 DEF Book, Onward
  <2>2. /\ executed[Cancel(q)] # None => executed'[Cancel(q)] = executed[Cancel(q)]
        /\ executed'[Pay(q)] = executed[Pay(q)]
    BY <1>1, <1>2, <1>7
  <2> QED BY ONLY <2>1, <2>2 DEF Confirmed, Pay, Cancel
<1>11. /\ AmountOf(Unpaid') \in Nat /\ AmountOf(Unpaid') = AmountOf(Unpaid) - 0
       /\ WorthOf(Available)' \in Nat /\ WorthOf(Available)' >= WorthOf(Available) - 0
  <2>1. Counts /\ Counts'
    BY Counted, CountedNext
  <2>2. /\ WorthOf(Available) \in Nat /\ WorthOf(Available)' \in Nat
        /\ AmountOf(Unpaid) \in Nat /\ AmountOf(Unpaid') = AmountOf(Unpaid)
    BY <1>9, <2>1 DEF Counts
  <2> QED BY <1>5, <1>7, <2>2
<1>12. /\ \A q \in Request : Covered(admitting[q])'
       /\ AmountOf(Unpaid') <= WorthOf(Available)'
  BY <1>7, <1>8, <1>11, AccountMoves DEF Onward
<1> QED BY <1>8, <1>10, <1>12 DEF Book


\* An operation that becomes final keeps the books.
LEMMA FinalizeBacked ==
    ASSUME IReward, IReward', Book, fork = 0, NEW op \in Op, Finalize(op)
    PROVE  Book'
PROOF
<1>1. op[2] \in Request /\ op \in {Pay(op[2]), Cancel(op[2])}
  BY Operations
<1> QED BY <1>1, PaymentBacked, CancellationBacked

\* Only a reorganisation of finalized history is counted as one.
LEMMA ForkStays ==
    ASSUME [Next]_vars, ~\E lost \in SUBSET Op : Reorganize(lost)
    PROVE  fork' = fork
PROOF
<1>1. UNCHANGED chain => fork' = fork
  BY DEF chain
<1>2. NoWrite => fork' = fork
  BY <1>1 DEF NoWrite
<1>3. ASSUME NEW t \in Thread, Unavailable(t) \/ OutOfGas(t)
      PROVE  fork' = fork
  BY <1>1, <1>3 DEF Unavailable, OutOfGas
<1>4. "alarm" \in Thread /\ "operator" \in Thread
  BY DEF Thread
<1>5. CASE AlarmStart \/ AlarmVerify
  BY <1>1, <1>3, <1>4, <1>5, Zenon DEF AlarmStart, AlarmVerify
<1>6. CASE Dispatch
  BY <1>1, <1>2, <1>3, <1>4, <1>6, Zenon
  DEF Dispatch, DispatchFunds, DispatchClaim, DispatchBuild, DispatchSave, DispatchMark,
      DispatchSign, DispatchStore
<1>7. CASE Submit \/ SaveAttempt \/ Broadcast
  BY <1>1, <1>2, <1>3, <1>4, <1>7, Zenon DEF Submit, SaveAttempt, Broadcast
<1>8. CASE Reconcile
  BY <1>1, <1>2, <1>3, <1>4, <1>8, Zenon DEF Reconcile, EvidenceRead, EvidenceJudge
<1>9. ASSUME NEW t \in Thread, Cancellation(t)
       PROVE  fork' = fork
  BY <1>1, <1>2, <1>3, <1>9, Zenon
  DEF Cancellation, CancelEnter, CancelSign, CancelPrepare, CancelObserve, CancelEnd,
      OriginalFinalized
<1>10. CASE \/ UNCHANGED vars
            \/ \E r \in Request, o \in Owner : AdmitStart(r, o)
            \/ \E r \in Request : AdmitFunds(r) \/ AdmitCommit(r) \/ AdmitSchedule(r) \/ Receive(r)
  BY <1>1, <1>10 DEF vars, AdmitStart, AdmitFunds, AdmitCommit, AdmitSchedule, Receive
<1>11. CASE \/ \E r \in Request : EndUnsigned(r) \/ CancelSigned(r)
            \/ \E reason \in Stops : Stop(reason)
            \/ Resume \/ Restart
  BY <1>1, <1>11 DEF EndUnsigned, CancelSigned, Stop, Resume, Restart
<1>12. CASE (\E c \in Base : Fund(c)) \/ \E op \in Op : Finalize(op)
  BY <1>12 DEF Fund, Finalize
<1> QED BY <1>4, <1>5, <1>6, <1>7, <1>8, <1>9, <1>10, <1>11, <1>12 DEF Next, AlarmStep

\* Every step keeps the books.
LEMMA NextBacked ==
    ASSUME IBacked, [Next]_vars
    PROVE  IBacked'
PROOF
<1>1. IReward /\ IReward'
  BY NextReward DEF IBacked
<1> SUFFICES ASSUME fork' = 0
             PROVE  Book'
  BY <1>1 DEF IBacked
<1>2. ASSUME NEW lost \in SUBSET Op, Reorganize(lost)
      PROVE  FALSE
  BY <1>1, <1>2 DEF Reorganize, IReward, TypeReward
<1>3. fork = 0
  BY <1>2, ForkStays
<1>4. Book
  BY <1>3 DEF IBacked
<1>5. Accounted => Book'
  BY <1>1, <1>4, AccountedKeeps
<1>6. CASE UNCHANGED vars
  BY <1>1, <1>4, <1>5, <1>6, AsideAccounted
<1>7. ASSUME NEW r \in Request, NEW o \in Owner, AdmitStart(r, o)
      PROVE  Book'
  BY <1>1, <1>4, <1>7, AdmitStartCounts
<1>8. ASSUME NEW r \in Request, AdmitFunds(r) \/ AdmitCommit(r)
      PROVE  Book'
  BY <1>1, <1>4, <1>8, AdmitFundsCounts, AdmitCommitBacked
<1>9. ASSUME NEW r \in Request,
             AdmitSchedule(r) \/ Receive(r) \/ EndUnsigned(r) \/ CancelSigned(r)
      PROVE  Book'
  BY <1>1, <1>4, <1>5, <1>9, AsideAccounted
<1>10. CASE AlarmStep
  BY <1>1, <1>3, <1>4, <1>5, <1>10, AlarmAccounted, DispatchAccounted, SendingAccounted,
     ReconcileAccounted, CancellationAccounted DEF AlarmStep, Thread
<1>11. CASE Cancellation("operator")
  BY <1>1, <1>4, <1>5, <1>11, CancellationAccounted DEF Thread
<1>12. CASE (\E reason \in Stops : Stop(reason)) \/ Resume \/ Restart
  BY <1>1, <1>4, <1>5, <1>12, AsideAccounted
<1>13. ASSUME NEW c \in Base, Fund(c)
       PROVE  Book'
  BY <1>1, <1>4, <1>13, FundBacked
<1>14. ASSUME NEW op \in Op, Finalize(op)
       PROVE  Book'
  BY <1>1, <1>3, <1>4, <1>14, FinalizeBacked
<1> QED BY <1>2, <1>6, <1>7, <1>8, <1>9, <1>10, <1>11, <1>12, <1>13, <1>14 DEF Next

\* The books are in order initially.
LEMMA InitBacked == Init => IBacked
PROOF
<1> SUFFICES ASSUME Init
             PROVE  Book
  BY InitReward DEF IBacked
<1>1. /\ \A r \in Request : /\ rows[r].status = "none" /\ rows[r].version = 0
                            /\ rows[r].phase = "none" /\ admitting[r] = None
                            /\ cancels[r].phase = "none" /\ cancels[r].checkpoint = None
      /\ \A t \in Thread : handler[t].pc = "idle"
  BY DEF Init, Idle
<1>2. \A r \in Request : Confirmed(r) /\ Balanced(r, rows[r], cancels[r]) /\ Covered(admitting[r])
  BY <1>1 DEF Confirmed, Balanced, Drawn, Covered
<1>3. \A t \in Thread : FoundSound(handler[t])
  BY <1>1 DEF FoundSound, Building
<1>4. Unpaid = {}
  BY <1>1 DEF Unpaid, ActiveReservations
<1>5. AmountOf(Unpaid) = 0
  BY <1>4, AmountSums
<1>6. WorthOf(Available) \in Nat
  BY InitReward, Counted DEF Counts
<1>7. AmountOf(Unpaid) <= WorthOf(Available)
  BY <1>5, <1>6
<1> QED BY <1>2, <1>3, <1>7 DEF Book

\* While finalized history stands, what was promised and is not paid yet is covered by
\* coins the distributor has: the total that admitReward compares was read before its
\* transaction, but the ledger has not changed since.
THEOREM RewardBacked == Spec => []Backed
PROOF
<1>1. Init => IBacked
  BY InitBacked
<1>2. IBacked /\ [Next]_vars => IBacked'
  BY NextBacked
<1>3. IBacked => Backed
  BY DEF IBacked, Book, Backed, Unpaid
<1> QED BY <1>1, <1>2, <1>3, PTL DEF Spec

\* An input that two unsettled signed operations share was given back by a cancellation
\* that was final, which only a reorganisation can have undone.
LEMMA SharedInput ==
    ASSUME IBacked, NEW q \in Request, NEW r \in Request, q # r,
           rows[q].phase = "signature-started", rows[r].phase = "signature-started",
           rows[q].status # "ended", rows[r].status # "ended",
           NEW c \in rows[q].coins \cap rows[r].coins
    PROVE  fork > 0 /\ \E p \in {q, r} : cancels[p].checkpoint # None /\ cancels[p].input # c
PROOF
<1>1. Held(q) /\ Held(r) /\ fork \in Nat
  BY DEF IBacked, IReward, TypeReward
<1>2. c \notin Kept(q) \/ c \notin Kept(r)
  <2>1. ASSUME c \in Kept(q), c \in Kept(r)
        PROVE  FALSE
    <3>1. Owns(q, c)
      BY <1>1, <2>1 DEF Held
    <3>2. Owns(r, c)
      BY <1>1, <2>1 DEF Held
    <3> QED BY <3>1, <3>2 DEF Owns
  <2> QED BY <2>1
<1>3. PICK p \in {q, r} : c \notin Kept(p)
  BY <1>2
<1>4. cancels[p].checkpoint # None /\ cancels[p].input # c
  BY <1>3 DEF Kept
<1>5. fork # 0
  <2>1. fork = 0 => Confirmed(p)
    BY DEF IBacked, Book
  <2> QED BY <1>4, <2>1 DEF Confirmed
<1> QED BY <1>1, <1>4, <1>5

\* No coin is in the signed operations of two requests that may both be paid, but for
\* an input that a cancellation gave back before a reorganisation of finalized history
\* undid it: reward_inputs names one holder for a coin, a request that may have signed
\* keeps all its inputs until its end, and while finalized history stands a final
\* cancellation is the end.
THEOREM RewardInputsExclusive == Spec => []InputsExclusive
PROOF
<1>1. Init => IBacked
  BY InitBacked
<1>2. IBacked /\ [Next]_vars => IBacked'
  BY NextBacked
<1>3. IBacked => InputsExclusive
  <2> SUFFICES ASSUME IBacked, NEW q \in Request, NEW r \in Request, q # r,
                      {rows[q].phase, rows[r].phase} = {"signature-started"},
                      "ended" \notin {rows[q].status, rows[r].status},
                      NEW c \in rows[q].coins \cap rows[r].coins
               PROVE  fork > 0 /\ \E p \in {q, r} : cancels[p].checkpoint # None /\ cancels[p].input # c
    BY DEF InputsExclusive
  <2>1. rows[q].phase = "signature-started" /\ rows[r].phase = "signature-started"
    OBVIOUS
  <2> QED BY <2>1, SharedInput
<1> QED BY <1>1, <1>2, <1>3, PTL DEF Spec

=============================================================================
