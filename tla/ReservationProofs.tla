-------------------------- MODULE ReservationProofs --------------------------
(***************************************************************************)
(* Proofs about ReservationStore, for any number of browsers, records,      *)
(* operations, inputs, blocks, reorganisations and restores.                *)
(***************************************************************************)
EXTENDS ReservationStore, SequenceTheorems, TLAPS

Blocks == [time : Nat, fork : Nat, executed : SUBSET (Operation \cup Foreign)]

TypeStore ==
    /\ operations \in [Record -> Row \cup {None}]
    /\ activeReservations \in [Input -> Record \cup {None}]
    /\ environment \in [status : {"healthy", "stopped"}, generation : Nat,
                       reason : {"finalized-reorg", "restore", None}]
    /\ environment.generation <= gate.generation
    /\ gate \in Gate /\ (gate.stopped => gate.generation > 0)
    /\ known \in [Client -> [Record -> Sight \cup {None}]]
    /\ signed \subseteq Operation
    /\ pending \in [Client -> Request \cup {None}]
    /\ reconciling \in View \cup {None}
    /\ final \in Blocks
    /\ tip.time \in Nat /\ tip.executed \subseteq Operation \cup Foreign
    /\ final.time <= tip.time /\ final.executed \subseteq tip.executed

\* Who holds an input is an open record for it, and requests are about records that exist.
Held ==
    /\ \A i \in Input : activeReservations[i] # None =>
          /\ operations[activeReservations[i]] # None
          /\ operations[activeReservations[i]].status \in Open
          /\ InputOf[operations[activeReservations[i]].op] = i
    /\ \A c \in Client : pending[c] # None /\ pending[c].call = "release" =>
          operations[pending[c].record] # None
    /\ reconciling # None =>
          /\ operations[reconciling.record] # None
          /\ reconciling.stateVersion <= operations[reconciling.record].stateVersion

\* An old database was restored, and nothing can be written to it yet.
Blank ==
    /\ \A r \in Record : operations[r] = None
    /\ environment.generation < gate.generation
    /\ \A c \in Client : pending[c] = None
    /\ reconciling = None

Recorded == RecordsComplete \/ (Blank /\ OneLiveAuthorization)

Possible(o) == CanExecute(o, final.time, final.executed)

\* A record holds its input as long as its operation may still execute.
Secured(r) ==
    /\ operations[r] # None
    /\ Possible(operations[r].op) \/ operations[r].status = "reserved"
    => /\ operations[r].status \in Open
       /\ activeReservations[InputOf[operations[r].op]] = r

\* What a request or a reconciliation has read of the chain remains true.
StillTrue ==
    /\ \A c \in Client : pending[c] # None /\ pending[c].call = "release" =>
          ~Possible(operations[pending[c].record].op)
    /\ reconciling # None =>
          /\ reconciling.next \in Closed => ~Possible(operations[reconciling.record].op)
          /\ /\ reconciling.next = "reserved"
             /\ reconciling.stateVersion = operations[reconciling.record].stateVersion
             => activeReservations[InputOf[operations[reconciling.record].op]] =
                    reconciling.record

Sound == final.fork = 0 => StillTrue /\ \A r \in Record : Secured(r)

\* What somebody saw of a record is a state the record had.
SeenOf(s, row) ==
    s # None =>
        /\ row # None
        /\ s.revision <= row.revision
        /\ s.revision = row.revision => s.facts = row.facts

Fresh ==
    gate.generation = 0 =>
        /\ \A c \in Client, r \in Record : SeenOf(known[c][r], operations[r])
        /\ \A c \in Client : pending[c] # None =>
              /\ SeenOf(pending[c].base, operations[pending[c].record])
              /\ pending[c].base # None /\ pending[c].call = "put" =>
                    pending[c].base.facts \subseteq pending[c].row.facts

IStore ==
    /\ TypeStore
    /\ Held
    /\ Recorded
    /\ Sound
    /\ Fresh

-----------------------------------------------------------------------------
\* The rows that PUT, release and reconcile write.
LEMMA RowTypes ==
    /\ \A o \in Operation : NewRow(o) \in Row /\ NewRow(o) # None
    /\ \A row \in Row : Seen(row) \in Sight
    /\ \A row \in Row, new \in Sight : Updated(row, new) \in Row
    /\ \A c \in Client, base \in Sight : NewFacts(c, base) \in SUBSET (Client \X Nat)
    /\ \A c \in Client, row \in Row, base \in Sight, point \in Nat \X Nat :
          ReleasedRow(c, row, base, point) \in Row
    /\ \A row \in Row, status \in Open \cup Closed, point \in (Nat \X Nat) \cup {None} :
          Moved(row, status, point) \in Row
    /\ None \notin Row /\ None \notin Sight /\ None \notin Request /\ None \notin View
    /\ None \notin Record
PROOF
<1>1. None \notin Record \cup Operation \cup Sight \cup Row \cup Request \cup View
  BY StoreAssumption
<1>2. \A o \in Operation : NewRow(o) \in Row
  BY EmptySeq DEF NewRow, Row, Open, Closed
<1>3. \A row \in Row : Seen(row) \in Sight
  BY DEF Seen, Row, Sight
<1>4. ASSUME NEW row \in Row, NEW new \in Sight PROVE Updated(row, new) \in Row
  <2>1. row.revision + 1 \in Nat
    BY DEF Row
  <2>2. PICK n \in Nat : n = row.revision + 1
    BY <2>1
  <2>3. PICK F, A : F = SUBSET (Client \X Nat) /\ A = Seq(Client)
    OBVIOUS
  <2> QED BY ONLY <2>2, <2>3, row \in Row, new \in Sight DEF Updated, Row, Sight
<1>5. \A c \in Client, base \in Sight : NewFacts(c, base) \in SUBSET (Client \X Nat)
  BY DEF NewFacts, Sight
<1>6. ASSUME NEW c \in Client, NEW row \in Row, NEW base \in Sight, NEW point \in Nat \X Nat
      PROVE  ReleasedRow(c, row, base, point) \in Row
  <2>1. PICK F, A, P : F = SUBSET (Client \X Nat) /\ A = Seq(Client) /\ P = Nat \X Nat
    OBVIOUS
  <2>2. PICK f \in F : f = NewFacts(c, base)
    BY <1>5, <2>1
  <2>3. PICK n \in Nat, v \in Nat : n = row.revision + 1 /\ v = row.stateVersion + 1
    BY DEF Row
  <2> QED BY ONLY <2>1, <2>2, <2>3, row \in Row, point \in Nat \X Nat
          DEF ReleasedRow, Row, Open, Closed
<1>7. ASSUME NEW row \in Row, NEW status \in Open \cup Closed,
             NEW point \in (Nat \X Nat) \cup {None}
      PROVE  Moved(row, status, point) \in Row
  <2>1. PICK F, A, P : /\ F = SUBSET (Client \X Nat) /\ A = Seq(Client)
                       /\ P = (Nat \X Nat) \cup {None}
    OBVIOUS
  <2>2. PICK v \in Nat : v = row.stateVersion + 1
    BY DEF Row
  <2> QED BY ONLY <2>1, <2>2, row \in Row, status \in Open \cup Closed,
                  point \in (Nat \X Nat) \cup {None}
          DEF Moved, Row
<1> QED BY <1>1, <1>2, <1>3, <1>4, <1>5, <1>6, <1>7

\* Every operation has an input.
LEMMA InputType == \A o \in Operation \cup Foreign : InputOf[o] \in Input
PROOF BY DEF Input

\* The outcomes of a PUT's transaction.
Refused == UNCHANGED <<operations, activeReservations, clients>>

Created(c, p) ==
    /\ operations[p.record] = None
    /\ p.base = None /\ Unreserved(InputOf[p.row.op])
    /\ operations' = [operations EXCEPT ![p.record] = NewRow(p.row.op)]
    /\ activeReservations' = [activeReservations EXCEPT ![InputOf[p.row.op]] = p.record]
    /\ Acknowledge(c, NewRow(p.row.op), p.record)

Repeated(c, p) ==
    /\ operations[p.record] # None
    /\ UNCHANGED <<operations, activeReservations>>
    /\ Acknowledge(c, operations[p.record], p.record)

Changed(c, p) ==
    /\ operations[p.record] # None
    /\ Updatable(operations[p.record], p.row, p.base)
    /\ operations' = [operations EXCEPT ![p.record] = Updated(operations[p.record], p.row)]
    /\ UNCHANGED activeReservations
    /\ Acknowledge(c, Updated(operations[p.record], p.row), p.record)

\* What PUT may do: refuse, create the record or change it.
LEMMA PutOutcome ==
    ASSUME TypeStore, NEW c \in Client, PutCommit(c)
    PROVE  /\ pending[c] \in Request /\ pending[c].call = "put"
           /\ pending[c].record \in Record /\ pending[c].row \in Sight
           /\ pending[c].base \in Sight \cup {None}
           /\ \/ Refused
              \/ Created(c, pending[c])
              \/ Repeated(c, pending[c])
              \/ Changed(c, pending[c])
           /\ pending' = [pending EXCEPT ![c] = None]
           /\ UNCHANGED <<environment, gate, reconciling, chain>>
PROOF
<1>1. pending[c] \in Request /\ pending[c].call = "put"
  BY DEF TypeStore, PutCommit
<1>2. PICK p : p = pending[c]
  OBVIOUS
<1>3. p.record \in Record /\ p.row \in Sight /\ p.base \in Sight \cup {None}
  BY <1>1, <1>2 DEF Request
<1>4. /\ pending' = [pending EXCEPT ![c] = None]
      /\ UNCHANGED <<environment, gate, reconciling, chain>>
  BY DEF PutCommit
<1>5. Refused \/ Created(c, p) \/ Repeated(c, p) \/ Changed(c, p)
  BY <1>2 DEF PutCommit, Refused, Created, Repeated, Changed, clients
<1> QED BY <1>1, <1>2, <1>3, <1>4, <1>5

\* The outcome of a release's transaction.
Freed(c, p) ==
    /\ Releasable(p.record, operations[p.record], p.base)
    /\ operations' = [operations EXCEPT ![p.record] =
                          ReleasedRow(c, operations[p.record], p.base, p.point)]
    /\ activeReservations' =
          [activeReservations EXCEPT ![InputOf[operations[p.record].op]] = None]
    /\ Acknowledge(c, ReleasedRow(c, operations[p.record], p.base, p.point), p.record)

\* What a release may do: refuse, or free the input.
LEMMA ReleaseOutcome ==
    ASSUME TypeStore, NEW c \in Client, ReleaseCommit(c)
    PROVE  /\ pending[c] \in Request /\ pending[c] # None /\ pending[c].call = "release"
           /\ pending[c].record \in Record /\ pending[c].base \in Sight
           /\ pending[c].point \in Nat \X Nat
           /\ Refused \/ Freed(c, pending[c])
           /\ pending' = [pending EXCEPT ![c] = None]
           /\ UNCHANGED <<environment, gate, reconciling, chain>>
PROOF
<1>1. pending[c] \in Request /\ pending[c] # None /\ pending[c].call = "release"
  BY DEF TypeStore, ReleaseCommit
<1>2. PICK p : p = pending[c]
  OBVIOUS
<1>3. p.record \in Record /\ p.base \in Sight /\ p.point \in Nat \X Nat
  BY <1>1, <1>2 DEF Request
<1>4. /\ pending' = [pending EXCEPT ![c] = None]
      /\ UNCHANGED <<environment, gate, reconciling, chain>>
  BY DEF ReleaseCommit
<1>5. Refused \/ Freed(c, p)
  BY <1>2 DEF ReleaseCommit, Refused, Freed, clients
<1> QED BY <1>1, <1>2, <1>3, <1>4, <1>5

\* The outcomes of a reconciliation's transaction.
Contradicted(v) ==
    /\ operations[v.record].status \in Closed
    /\ environment' = [environment EXCEPT !.status = "stopped", !.reason = "finalized-reorg"]
    /\ operations' =
          [operations EXCEPT ![v.record] = Moved(operations[v.record], "unknown", None)]
    /\ UNCHANGED activeReservations

Followed(v) ==
    /\ operations[v.record].status \in Open
    /\ operations[v.record].stateVersion = v.stateVersion
    /\ Move(v.record, operations[v.record], v.next, v.point)

\* What reconciliation may do: nothing, see a contradiction or follow the chain.
LEMMA ReconcileOutcome ==
    ASSUME TypeStore, Held, ReconcileCommit
    PROVE  /\ reconciling \in View /\ reconciling.record \in Record
           /\ operations[reconciling.record] \in Row
           /\ UNCHANGED storage \/ Contradicted(reconciling) \/ Followed(reconciling)
           /\ reconciling' = None
           /\ UNCHANGED <<gate, clients, pending, chain>>
PROOF
<1>1. reconciling \in View /\ reconciling # None
  BY DEF TypeStore, ReconcileCommit
<1>2. PICK v : v = reconciling
  OBVIOUS
<1>3. v.record \in Record
  BY <1>1, <1>2 DEF View
<1>4. operations[v.record] \in Row
  BY <1>1, <1>2, <1>3 DEF Held, TypeStore
<1>5. operations[v.record].status \in Open \cup Closed
  BY <1>4 DEF Row
<1>6. UNCHANGED storage \/ Contradicted(v) \/ Followed(v)
  BY <1>2, <1>5 DEF ReconcileCommit, Contradicted, Followed, StopOnConflict
<1>7. reconciling' = None /\ UNCHANGED <<gate, clients, pending, chain>>
  BY DEF ReconcileCommit
<1> QED BY <1>1, <1>2, <1>3, <1>4, <1>6, <1>7

\* Which steps move the finalized block, and which write records.
LEMMA WhoWrites ==
    ASSUME [Next]_vars
    PROVE  /\ final' = final \/ Finalize \/ FinalizedReorganize
           /\ \/ \E c \in Client : PutCommit(c) \/ ReleaseCommit(c)
              \/ ReconcileCommit \/ RestoreOldDatabase \/ UNCHANGED operations
PROOF
<1>1. ASSUME NEW c \in Client, ClientStep(c)
      PROVE  final' = final /\ (PutCommit(c) \/ ReleaseCommit(c) \/ UNCHANGED operations)
  <2>1. ASSUME NEW r \in Record, NEW o \in Operation, PutNew(c, r, o)
        PROVE  UNCHANGED <<final, operations>>
    BY <2>1 DEF PutNew, storage, chain
  <2>2. ASSUME NEW r \in Record, NEW sig \in BOOLEAN, NEW more \in {<<>>, <<c>>},
               PutChanged(c, r, sig, more)
        PROVE  UNCHANGED <<final, operations>>
    <3>1. UNCHANGED <<storage, chain>>
      BY <2>2 DEF PutChanged
    <3> QED BY <3>1 DEF storage, chain
  <2>3. PutCommit(c) \/ ReleaseCommit(c) => final' = final
    BY DEF PutCommit, ReleaseCommit, chain
  <2>4. ASSUME NEW r \in Record, Get(c, r) \/ ReleaseRead(c, r) \/ ReleaseRetry(c, r)
        PROVE  UNCHANGED <<final, operations>>
    BY <2>4 DEF Get, ReleaseRead, ReleaseRetry, storage, chain
  <2> QED BY <1>1, <2>1, <2>2, <2>3, <2>4 DEF ClientStep
<1>2. ASSUME NEW r \in Record, NEW view \in {final, None}, ReconcileRead(r, view)
      PROVE  UNCHANGED <<final, operations>>
  BY <1>2 DEF ReconcileRead, storage, chain
<1>3. ReconcileCommit => final' = final
  BY DEF ReconcileCommit, chain
<1>4. CASE ChainStep
  <2>1. UNCHANGED operations
    BY <1>4 DEF ChainStep, Block, EmptyBlock, Finalize, Reorganize, FinalizedReorganize, storage
  <2>2. final' = final \/ Finalize \/ FinalizedReorganize
    BY <1>4 DEF ChainStep, Block, EmptyBlock, Reorganize
  <2> QED BY <2>1, <2>2
<1>5. CASE OperatorStep
  <2>1. final' = final
    BY <1>5 DEF OperatorStep, StopGate, BeginRestore, RestoreOldDatabase, CompleteRestore,
                OpenGate, chain
  <2>2. RestoreOldDatabase \/ UNCHANGED operations
    BY <1>5 DEF OperatorStep, StopGate, BeginRestore, CompleteRestore, OpenGate, storage
  <2> QED BY <2>1, <2>2
<1>6. CASE UNCHANGED vars
  BY <1>6 DEF vars, storage, chain
<1> QED BY <1>1, <1>2, <1>3, <1>4, <1>5, <1>6 DEF Next

\* What a client keeps of an answer has its type.
LEMMA AcknowledgeTypes ==
    ASSUME TypeStore, NEW c \in Client, NEW r \in Record, NEW row \in Row, Acknowledge(c, row, r)
    PROVE  /\ known' \in [Client -> [Record -> Sight \cup {None}]]
           /\ signed' \subseteq Operation
PROOF
<1>1. Seen(row) \in Sight /\ row.op \in Operation
  BY RowTypes DEF Row
<1>2. known \in [Client -> [Record -> Sight \cup {None}]] /\ signed \subseteq Operation
  BY DEF TypeStore
<1>3. known' \in [Client -> [Record -> Sight \cup {None}]]
  <2>1. known' = [known EXCEPT ![c][r] = Seen(row)] \/ known' = known
    BY DEF Acknowledge, clients
  <2> QED BY <1>1, <1>2, <2>1
<1>4. signed' \subseteq Operation
  <2>1. \A o \in signed' : o \in signed \/ o = row.op
    BY DEF Acknowledge, clients
  <2> QED BY <1>1, <1>2, <2>1
<1> QED BY <1>3, <1>4
-----------------------------------------------------------------------------
(* Types.                                                                    *)

\* Steps of the chain keep the types.
LEMMA ChainTypes == ASSUME TypeStore, ChainStep PROVE TypeStore'
PROOF
<1>1. ASSUME NEW o \in Operation \cup Foreign, Block(o) PROVE TypeStore'
  BY <1>1 DEF TypeStore, Block, storage, clients, Blocks
<1>2. CASE EmptyBlock
  BY <1>2 DEF TypeStore, EmptyBlock, storage, clients, Blocks
<1>3. CASE Finalize
  <2>1. final' \in Blocks /\ final'.time = tip.time /\ final'.executed = tip.executed
    BY <1>3 DEF TypeStore, Finalize, Blocks
  <2> QED BY <1>3, <2>1 DEF TypeStore, Finalize, storage, clients
<1>4. CASE Reorganize
  BY <1>4 DEF TypeStore, Reorganize, storage, clients, Blocks
<1>5. CASE FinalizedReorganize
  BY <1>5 DEF TypeStore, FinalizedReorganize, storage, clients, Blocks
<1> QED BY <1>1, <1>2, <1>3, <1>4, <1>5 DEF ChainStep

\* Steps of the operator keep the types.
LEMMA OperatorTypes == ASSUME TypeStore, OperatorStep PROVE TypeStore'
PROOF
<1>1. CASE StopGate
  BY <1>1 DEF TypeStore, StopGate, storage, clients, chain, Gate
<1>2. CASE BeginRestore
  BY <1>2 DEF TypeStore, BeginRestore, clients, chain, Gate
<1>3. CASE RestoreOldDatabase
  BY <1>3 DEF TypeStore, RestoreOldDatabase, clients, chain, Gate
<1>4. CASE CompleteRestore
  BY <1>4 DEF TypeStore, CompleteRestore, clients, chain, Gate
<1>5. CASE OpenGate
  BY <1>5 DEF TypeStore, OpenGate, storage, clients, chain, Gate
<1> QED BY <1>1, <1>2, <1>3, <1>4, <1>5 DEF OperatorStep

\* A request that a client starts.
LEMMA AskTypes ==
    ASSUME TypeStore, NEW c \in Client, NEW r \in Record,
           \/ \E o \in Operation : PutNew(c, r, o)
           \/ \E sig \in BOOLEAN, more \in {<<>>, <<c>>} : PutChanged(c, r, sig, more)
           \/ ReleaseRead(c, r)
    PROVE  TypeStore'
PROOF
<1>1. ASSUME NEW q \in Request, pending' = [pending EXCEPT ![c] = q],
             UNCHANGED <<storage, gate, clients, reconciling, chain>>
      PROVE  TypeStore'
  BY <1>1 DEF TypeStore, storage, clients, chain
<1>2. ASSUME NEW o \in Operation, PutNew(c, r, o) PROVE TypeStore'
  <2>1. Seen(NewRow(o)) \in Sight
    BY RowTypes
  <2>2. [call |-> "put", gate |-> gate, record |-> r, base |-> None,
         row |-> Seen(NewRow(o))] \in Request
    BY <2>1 DEF Request, TypeStore
  <2> QED BY <1>1, <1>2, <2>2 DEF PutNew
<1>3. ASSUME NEW sig \in BOOLEAN, NEW more \in {<<>>, <<c>>}, PutChanged(c, r, sig, more)
      PROVE  TypeStore'
  <2>1. PICK s \in Sight : s = known[c][r]
    <3>1. known[c][r] # None
      BY <1>3 DEF PutChanged
    <3> QED BY <3>1 DEF TypeStore
  <2>2. NewFacts(c, s) \in SUBSET (Client \X Nat)
    BY RowTypes
  <2>3. s.attempts \o more \in Seq(Client)
    <3>1. s.attempts \in Seq(Client)
      BY DEF Sight
    <3>2. <<>> \in Seq(Client) /\ <<c>> \in Seq(Client)
      OBVIOUS
    <3> QED BY <3>1, <3>2, ConcatProperties
  <2>4. [s EXCEPT !.facts = NewFacts(c, s), !.signatureStarted = sig,
                  !.attempts = s.attempts \o more] \in Sight
    <3>1. PICK F, A : F = SUBSET (Client \X Nat) /\ A = Seq(Client)
      OBVIOUS
    <3>2. PICK f \in F, a \in A : f = NewFacts(c, s) /\ a = s.attempts \o more
      BY <2>2, <2>3, <3>1
    <3> QED BY ONLY <3>1, <3>2, s \in Sight, sig \in BOOLEAN DEF Sight
  <2>5. [call |-> "put", gate |-> gate, record |-> r, base |-> s,
         row |-> [s EXCEPT !.facts = NewFacts(c, s), !.signatureStarted = sig,
                           !.attempts = s.attempts \o more]] \in Request
    BY <2>4 DEF Request, TypeStore
  <2> QED BY <1>1, <1>3, <2>1, <2>5 DEF PutChanged
<1>4. CASE ReleaseRead(c, r)
  <2>1. Point \in Nat \X Nat
    BY DEF Point, TypeStore, Blocks
  <2>2. known[c][r] \in Sight
    BY <1>4 DEF ReleaseRead, TypeStore
  <2>3. [call |-> "release", gate |-> gate, record |-> r, base |-> known[c][r],
         point |-> Point] \in Request
    BY <2>1, <2>2 DEF Request, TypeStore
  <2> QED BY <1>1, <1>4, <2>3 DEF ReleaseRead
<1> QED BY <1>2, <1>3, <1>4

\* Reads keep the types.
LEMMA SeeTypes ==
    ASSUME TypeStore, NEW c \in Client, NEW r \in Record, Get(c, r) \/ ReleaseRetry(c, r)
    PROVE  TypeStore'
PROOF
<1>1. operations[r] \in Row
  BY DEF Get, ReleaseRetry, TypeStore
<1>2. Seen(operations[r]) \in Sight
  BY <1>1, RowTypes
<1>3. /\ known' = [known EXCEPT ![c][r] = Seen(operations[r])]
      /\ UNCHANGED <<storage, gate, signed, pending, reconciling, chain>>
  BY DEF Get, ReleaseRetry
<1> QED BY <1>2, <1>3 DEF TypeStore, storage, chain

\* PUT keeps the types.
LEMMA PutTypes ==
    ASSUME TypeStore, NEW c \in Client, PutCommit(c)
    PROVE  TypeStore'
PROOF
<1>1. PICK p : p = pending[c]
  OBVIOUS
<1>2. /\ p.record \in Record /\ p.row \in Sight /\ p.base \in Sight \cup {None}
      /\ Refused \/ Created(c, p) \/ Repeated(c, p) \/ Changed(c, p)
      /\ pending' = [pending EXCEPT ![c] = None]
      /\ UNCHANGED <<environment, gate, reconciling, chain>>
  BY <1>1, PutOutcome
<1>3. ASSUME operations' \in [Record -> Row \cup {None}],
             activeReservations' \in [Input -> Record \cup {None}],
             known' \in [Client -> [Record -> Sight \cup {None}]], signed' \subseteq Operation
      PROVE  TypeStore'
  BY <1>2, <1>3 DEF TypeStore, chain
<1>4. CASE Refused
  BY <1>3, <1>4 DEF Refused, TypeStore, clients
<1>5. CASE Created(c, p)
  <2>1. p.row.op \in Operation
    BY <1>2 DEF Sight
  <2>2. NewRow(p.row.op) \in Row /\ InputOf[p.row.op] \in Input
    BY <2>1, RowTypes, InputType
  <2> QED BY <1>2, <1>3, <1>5, <2>2, AcknowledgeTypes DEF Created, TypeStore
<1>6. CASE Repeated(c, p)
  <2>1. operations[p.record] \in Row
    BY <1>2, <1>6 DEF Repeated, TypeStore
  <2> QED BY <1>2, <1>3, <1>6, <2>1, AcknowledgeTypes DEF Repeated, TypeStore
<1>7. CASE Changed(c, p)
  <2>1. operations[p.record] \in Row
    BY <1>2, <1>7 DEF Changed, TypeStore
  <2>2. Updated(operations[p.record], p.row) \in Row
    BY <1>2, <2>1, RowTypes
  <2> QED BY <1>2, <1>3, <1>7, <2>2, AcknowledgeTypes DEF Changed, TypeStore
<1> QED BY <1>2, <1>4, <1>5, <1>6, <1>7

\* A release keeps the types.
LEMMA ReleaseTypes ==
    ASSUME TypeStore, NEW c \in Client, ReleaseCommit(c)
    PROVE  TypeStore'
PROOF
<1>1. PICK p : p = pending[c]
  OBVIOUS
<1>2. /\ p.record \in Record /\ p.base \in Sight /\ p.point \in Nat \X Nat
      /\ Refused \/ Freed(c, p)
      /\ pending' = [pending EXCEPT ![c] = None]
      /\ UNCHANGED <<environment, gate, reconciling, chain>>
  BY <1>1, ReleaseOutcome
<1>3. ASSUME operations' \in [Record -> Row \cup {None}],
             activeReservations' \in [Input -> Record \cup {None}],
             known' \in [Client -> [Record -> Sight \cup {None}]], signed' \subseteq Operation
      PROVE  TypeStore'
  BY <1>2, <1>3 DEF TypeStore, chain
<1>4. CASE Refused
  BY <1>3, <1>4 DEF Refused, TypeStore, clients
<1>5. CASE Freed(c, p)
  <2>1. operations[p.record] \in Row
    BY <1>2, <1>5 DEF Freed, Releasable, TypeStore
  <2>2. ReleasedRow(c, operations[p.record], p.base, p.point) \in Row
    BY <1>2, <2>1, RowTypes
  <2> QED BY <1>2, <1>3, <1>5, <2>2, AcknowledgeTypes DEF Freed, TypeStore
<1> QED BY <1>2, <1>4, <1>5

\* Reconciliation keeps the types.
LEMMA ReconcileTypes ==
    ASSUME TypeStore, Held,
           \/ ReconcileCommit
           \/ \E r \in Record, view \in {final, None} : ReconcileRead(r, view)
    PROVE  TypeStore'
PROOF
<1>1. CASE ReconcileCommit
  <2>1. PICK v : v = reconciling
    OBVIOUS
  <2>2. /\ v \in View /\ v.record \in Record /\ operations[v.record] \in Row
        /\ UNCHANGED storage \/ Contradicted(v) \/ Followed(v)
        /\ reconciling' = None
        /\ UNCHANGED <<gate, clients, pending, chain>>
    BY <1>1, <2>1, ReconcileOutcome
  <2>3. v.next \in Open \cup Closed /\ v.point \in (Nat \X Nat) \cup {None}
    BY <2>2 DEF View
  <2>4. /\ Moved(operations[v.record], "unknown", None) \in Row
        /\ Moved(operations[v.record], v.next, v.point) \in Row
    BY <2>2, <2>3, RowTypes DEF Open
  <2>5. CASE UNCHANGED storage
    BY <2>2, <2>5 DEF TypeStore, storage, clients, chain
  <2>6. CASE Contradicted(v)
    BY <2>2, <2>4, <2>6 DEF Contradicted, TypeStore, clients, chain
  <2>7. CASE Followed(v)
    BY <2>2, <2>4, <2>7 DEF Followed, Move, TypeStore, clients, chain
  <2> QED BY <2>2, <2>5, <2>6, <2>7
<1>2. ASSUME NEW r \in Record, NEW view \in {final, None}, ReconcileRead(r, view)
      PROVE  TypeStore'
  <2>1. PICK row \in Row : row = operations[r]
    BY <1>2 DEF ReconcileRead, TypeStore
  <2>2. row.revision \in Nat /\ row.stateVersion \in Nat
    BY DEF Row
  <2>3. PICK n : n = IF view = None THEN "unknown" ELSE Classify(operations[r].op, view)
    OBVIOUS
  <2>4. n \in Open \cup Closed
    BY <2>3 DEF Classify, Open, Closed
  <2>5. PICK pt : pt = IF view = None THEN None ELSE Point
    OBVIOUS
  <2>6. pt \in (Nat \X Nat) \cup {None}
    BY <2>5 DEF Point, TypeStore, Blocks
  <2>7. [record |-> r, gate |-> gate, revision |-> row.revision,
         stateVersion |-> row.stateVersion, next |-> n, point |-> pt] \in View
    BY <2>2, <2>4, <2>6 DEF View, TypeStore
  <2>8. reconciling' \in View
    BY <1>2, <2>1, <2>3, <2>5, <2>7 DEF ReconcileRead
  <2> QED BY <1>2, <2>8 DEF ReconcileRead, TypeStore, storage, clients, chain
<1> QED BY <1>1, <1>2

\* Every step keeps the types.
LEMMA TypeStep == ASSUME TypeStore, Held, [Next]_vars PROVE TypeStore'
PROOF
<1>1. CASE UNCHANGED vars
  BY <1>1 DEF TypeStore, vars, storage, clients, chain
<1> QED BY <1>1, ChainTypes, OperatorTypes, AskTypes, SeeTypes, PutTypes, ReleaseTypes,
           ReconcileTypes DEF Next, ClientStep
-----------------------------------------------------------------------------
(* What every step but a restore keeps of the records.                       *)

Kept ==
    \A r \in Record : operations[r] # None =>
        /\ operations'[r] # None
        /\ operations'[r].op = operations[r].op
        /\ operations[r].stateVersion <= operations'[r].stateVersion
        /\ operations[r].signatureStarted => operations'[r].signatureStarted
        /\ \/ operations[r].revision < operations'[r].revision
           \/ /\ operations[r].revision = operations'[r].revision
              /\ operations[r].facts = operations'[r].facts

\* Records that are not written are kept.
LEMMA KeptSame == ASSUME TypeStore, operations' = operations PROVE Kept
PROOF
<1>1. \A r \in Record : operations[r] # None =>
          operations[r].stateVersion \in Nat /\ operations[r].revision \in Nat
  BY DEF TypeStore, Row
<1> QED BY <1>1 DEF Kept

\* One record is written forward: records are kept.
LEMMA KeptOne ==
    ASSUME TypeStore, NEW q \in Record, NEW new \in Row,
           operations' = [operations EXCEPT ![q] = new],
           operations[q] # None =>
               /\ new.op = operations[q].op
               /\ operations[q].stateVersion <= new.stateVersion
               /\ operations[q].signatureStarted => new.signatureStarted
               /\ \/ operations[q].revision < new.revision
                  \/ /\ operations[q].revision = new.revision
                     /\ operations[q].facts = new.facts
    PROVE  Kept /\ operations'[q] = new /\ new # None
               /\ \A r \in Record \ {q} : operations'[r] = operations[r]
PROOF
<1>1. \A r \in Record : operations[r] # None =>
          operations[r].stateVersion \in Nat /\ operations[r].revision \in Nat
  BY DEF TypeStore, Row
<1>2. operations'[q] = new /\ \A r \in Record \ {q} : operations'[r] = operations[r]
  BY DEF TypeStore
<1>3. new # None
  BY RowTypes
<1> QED BY <1>1, <1>2, <1>3 DEF Kept

\* A new record keeps the others.
LEMMA KeptCreated ==
    ASSUME TypeStore, NEW c \in Client, NEW p, p.record \in Record, p.row \in Sight,
           Created(c, p)
    PROVE  /\ Kept /\ operations'[p.record] = NewRow(p.row.op) /\ operations'[p.record] # None
           /\ \A r \in Record \ {p.record} : operations'[r] = operations[r]
           /\ NewRow(p.row.op) \in Row
PROOF
<1>1. NewRow(p.row.op) \in Row
  BY RowTypes DEF Sight
<1> QED BY <1>1, KeptOne DEF Created

\* A change goes forward.
LEMMA KeptChanged ==
    ASSUME TypeStore, NEW c \in Client, NEW p, p.record \in Record, p.row \in Sight,
           Changed(c, p)
    PROVE  /\ Kept /\ operations'[p.record] # None
           /\ operations[p.record] \in Row
           /\ Updated(operations[p.record], p.row) \in Row
           /\ operations'[p.record] = Updated(operations[p.record], p.row)
           /\ operations'[p.record].status = operations[p.record].status
           /\ operations'[p.record].op = operations[p.record].op
           /\ operations'[p.record].stateVersion = operations[p.record].stateVersion
           /\ operations'[p.record].revision > operations[p.record].revision
           /\ operations'[p.record].facts = p.row.facts
           /\ operations'[p.record].attempts = p.row.attempts
           /\ operations[p.record].signatureStarted => operations'[p.record].signatureStarted
           /\ IsPrefix(operations[p.record].attempts, p.row.attempts)
           /\ p.base # None /\ operations[p.record].revision = p.base.revision
           /\ \A r \in Record \ {p.record} : operations'[r] = operations[r]
PROOF
<1>1. PICK row \in Row : row = operations[p.record]
  BY DEF TypeStore, Changed
<1>2. PICK new \in Row : new = Updated(row, p.row)
  BY RowTypes
<1>3. /\ new.status = row.status /\ new.op = row.op /\ new.stateVersion = row.stateVersion
      /\ new.revision = row.revision + 1 /\ new.facts = p.row.facts
      /\ new.signatureStarted = p.row.signatureStarted /\ new.attempts = p.row.attempts
  BY <1>2 DEF Updated, Row
<1>4. /\ row.signatureStarted => p.row.signatureStarted
      /\ IsPrefix(row.attempts, p.row.attempts)
      /\ p.base # None /\ row.revision = p.base.revision
  BY <1>1 DEF Changed, Updatable, CurrentRevision
<1>5. row.revision \in Nat /\ row.stateVersion \in Nat
  BY DEF Row
<1>6. operations' = [operations EXCEPT ![p.record] = new]
  BY <1>1, <1>2 DEF Changed
<1>7. /\ Kept /\ operations'[p.record] = new /\ new # None
      /\ \A r \in Record \ {p.record} : operations'[r] = operations[r]
  <2>1. operations[p.record] # None =>
               /\ new.op = operations[p.record].op
               /\ operations[p.record].stateVersion <= new.stateVersion
               /\ operations[p.record].signatureStarted => new.signatureStarted
               /\ \/ operations[p.record].revision < new.revision
                  \/ /\ operations[p.record].revision = new.revision
                     /\ operations[p.record].facts = new.facts
    BY <1>1, <1>3, <1>4, <1>5
  <2> QED BY ONLY <1>6, <2>1, KeptOne, TypeStore, p.record \in Record, new \in Row
<1> QED BY <1>1, <1>2, <1>3, <1>4, <1>5, <1>7

\* A release goes forward.
LEMMA KeptFreed ==
    ASSUME TypeStore, NEW c \in Client, NEW p, p.record \in Record, p.base \in Sight,
           p.point \in Nat \X Nat, Freed(c, p)
    PROVE  /\ Kept /\ operations'[p.record] # None
           /\ operations[p.record] \in Row /\ operations[p.record].status \in Open
           /\ ReleasedRow(c, operations[p.record], p.base, p.point) \in Row
           /\ operations'[p.record] = ReleasedRow(c, operations[p.record], p.base, p.point)
           /\ operations'[p.record].status = "released"
           /\ operations'[p.record].op = operations[p.record].op
           /\ operations'[p.record].stateVersion > operations[p.record].stateVersion
           /\ operations'[p.record].revision > operations[p.record].revision
           /\ operations'[p.record].signatureStarted = operations[p.record].signatureStarted
           /\ operations'[p.record].attempts = operations[p.record].attempts
           /\ operations'[p.record].facts = NewFacts(c, p.base)
           /\ operations[p.record].revision = p.base.revision
           /\ activeReservations[InputOf[operations[p.record].op]] = p.record
           /\ \A r \in Record \ {p.record} : operations'[r] = operations[r]
PROOF
<1>1. PICK row \in Row : row = operations[p.record]
  BY DEF TypeStore, Freed, Releasable
<1>2. PICK new \in Row : new = ReleasedRow(c, row, p.base, p.point)
  BY RowTypes
<1>3. /\ new.status = "released" /\ new.op = row.op /\ new.stateVersion = row.stateVersion + 1
      /\ new.revision = row.revision + 1 /\ new.facts = NewFacts(c, p.base)
      /\ new.signatureStarted = row.signatureStarted /\ new.attempts = row.attempts
  BY <1>2 DEF ReleasedRow, Row
<1>4. /\ row.revision = p.base.revision /\ row.status \in Open
      /\ activeReservations[InputOf[row.op]] = p.record
  BY <1>1 DEF Freed, Releasable, CurrentRevision
<1>5. row.revision \in Nat /\ row.stateVersion \in Nat
  BY DEF Row
<1>6. operations' = [operations EXCEPT ![p.record] = new]
  BY <1>1, <1>2 DEF Freed
<1>7. /\ Kept /\ operations'[p.record] = new /\ new # None
      /\ \A r \in Record \ {p.record} : operations'[r] = operations[r]
  <2>1. operations[p.record] # None =>
               /\ new.op = operations[p.record].op
               /\ operations[p.record].stateVersion <= new.stateVersion
               /\ operations[p.record].signatureStarted => new.signatureStarted
               /\ \/ operations[p.record].revision < new.revision
                  \/ /\ operations[p.record].revision = new.revision
                     /\ operations[p.record].facts = new.facts
    BY <1>1, <1>3, <1>5
  <2> QED BY ONLY <1>6, <2>1, KeptOne, TypeStore, p.record \in Record, new \in Row
<1> QED BY <1>1, <1>2, <1>3, <1>4, <1>5, <1>7

\* A reconciliation writes status, stateVersion and checkpoint.
LEMMA KeptMoved ==
    ASSUME TypeStore, NEW q \in Record, operations[q] \in Row,
           NEW status \in Open \cup Closed, NEW point \in (Nat \X Nat) \cup {None},
           operations' = [operations EXCEPT ![q] = Moved(operations[q], status, point)]
    PROVE  /\ Kept /\ operations'[q] # None
           /\ operations'[q].status = status
           /\ operations'[q].op = operations[q].op
           /\ operations'[q].facts = operations[q].facts
           /\ operations'[q].revision = operations[q].revision
           /\ operations'[q].attempts = operations[q].attempts
           /\ operations'[q].signatureStarted = operations[q].signatureStarted
           /\ \A r \in Record \ {q} : operations'[r] = operations[r]
PROOF
<1>1. PICK row \in Row : row = operations[q]
  OBVIOUS
<1>2. PICK new \in Row : new = Moved(row, status, point)
  BY RowTypes
<1>3. /\ new.status = status /\ new.op = row.op /\ new.stateVersion = row.stateVersion + 1
      /\ new.revision = row.revision /\ new.facts = row.facts
      /\ new.signatureStarted = row.signatureStarted /\ new.attempts = row.attempts
  BY <1>2 DEF Moved, Row
<1>4. row.revision \in Nat /\ row.stateVersion \in Nat
  BY DEF Row
<1>5. operations' = [operations EXCEPT ![q] = new]
  BY <1>1, <1>2
<1>6. /\ Kept /\ operations'[q] = new /\ new # None
      /\ \A r \in Record \ {q} : operations'[r] = operations[r]
  <2>1. operations[q] # None =>
               /\ new.op = operations[q].op
               /\ operations[q].stateVersion <= new.stateVersion
               /\ operations[q].signatureStarted => new.signatureStarted
               /\ \/ operations[q].revision < new.revision
                  \/ /\ operations[q].revision = new.revision
                     /\ operations[q].facts = new.facts
    BY <1>1, <1>3, <1>4, <1>5
  <2> QED BY ONLY <1>5, <2>1, KeptOne, TypeStore, q \in Record, new \in Row
<1> QED BY <1>1, <1>3, <1>6
\* What follows the chain goes forward.
LEMMA KeptFollowed ==
    ASSUME TypeStore, NEW v \in View, v.record \in Record, operations[v.record] \in Row,
           Followed(v)
    PROVE  /\ Kept /\ operations'[v.record] # None
           /\ operations'[v.record].status = v.next
           /\ operations'[v.record].op = operations[v.record].op
           /\ \A r \in Record \ {v.record} : operations'[r] = operations[r]
PROOF
<1>1. v.next \in Open \cup Closed /\ v.point \in (Nat \X Nat) \cup {None}
  BY DEF View
<1>2. operations' = [operations EXCEPT ![v.record] =
                        Moved(operations[v.record], v.next, v.point)]
  BY DEF Followed, Move
<1> QED BY <1>1, <1>2, KeptMoved

-----------------------------------------------------------------------------
(* Held.                                                                     *)

\* Without a write, open records hold their inputs as before.
LEMMA HeldSame ==
    ASSUME Held, UNCHANGED <<operations, activeReservations, pending, reconciling>>
    PROVE  Held'
PROOF BY DEF Held

\* The steps of the operator leave the reservations held.
LEMMA HeldOperator == ASSUME TypeStore, Held, OperatorStep PROVE Held'
PROOF
<1>1. CASE RestoreOldDatabase
  BY <1>1 DEF RestoreOldDatabase, Held
<1> QED BY <1>1, HeldSame DEF OperatorStep, StopGate, BeginRestore, CompleteRestore, OpenGate,
                              storage

\* A request that is only asked changes no reservation.
LEMMA HeldAsk ==
    ASSUME TypeStore, Held, NEW c \in Client, NEW r \in Record,
           \/ \E o \in Operation : PutNew(c, r, o)
           \/ \E sig \in BOOLEAN, more \in {<<>>, <<c>>} : PutChanged(c, r, sig, more)
           \/ ReleaseRead(c, r)
    PROVE  Held'
PROOF
<1>1. ASSUME NEW q, pending' = [pending EXCEPT ![c] = q],
             q.call = "put" \/ operations[q.record] # None,
             UNCHANGED <<storage, reconciling>>
      PROVE  Held'
  <2>1. \A d \in Client : pending'[d] = IF d = c THEN q ELSE pending[d]
    BY <1>1 DEF TypeStore
  <2> QED BY <1>1, <2>1 DEF Held, storage
<1>2. ASSUME NEW o \in Operation, PutNew(c, r, o) PROVE Held'
  BY <1>1, <1>2 DEF PutNew
<1>3. ASSUME NEW sig \in BOOLEAN, NEW more \in {<<>>, <<c>>}, PutChanged(c, r, sig, more)
      PROVE  Held'
  BY <1>1, <1>3 DEF PutChanged
<1>4. CASE ReleaseRead(c, r)
  BY <1>1, <1>4 DEF ReleaseRead
<1> QED BY <1>2, <1>3, <1>4

\* The requests and the reconciliation under way keep their records.
LEMMA HeldKept ==
    ASSUME TypeStore, Held, Kept, reconciling' = reconciling \/ reconciling' = None,
           \A d \in Client : pending'[d] = pending[d] \/ pending'[d] = None,
           \A i \in Input : activeReservations'[i] # None =>
               /\ operations'[activeReservations'[i]] # None
               /\ operations'[activeReservations'[i]].status \in Open
               /\ InputOf[operations'[activeReservations'[i]].op] = i,
           TypeStore'
    PROVE  Held'
PROOF
<1>1. \A d \in Client : pending'[d] # None /\ pending'[d].call = "release" =>
          operations'[pending'[d].record] # None
  <2> SUFFICES ASSUME NEW d \in Client, pending'[d] # None, pending'[d].call = "release"
               PROVE  operations'[pending'[d].record] # None
    OBVIOUS
  <2>1. pending'[d] = pending[d] /\ operations[pending[d].record] # None
    BY DEF Held
  <2>2. pending[d].record \in Record
    <3>1. pending[d] \in Request
      BY <2>1 DEF TypeStore
    <3> QED BY <3>1 DEF Request
  <2> QED BY <2>1, <2>2 DEF Kept
<1>2. reconciling' # None =>
          /\ operations'[reconciling'.record] # None
          /\ reconciling'.stateVersion <= operations'[reconciling'.record].stateVersion
  <2> SUFFICES ASSUME reconciling' # None
               PROVE  /\ operations'[reconciling'.record] # None
                      /\ reconciling'.stateVersion <=
                             operations'[reconciling'.record].stateVersion
    OBVIOUS
  <2>1. PICK v \in View : v = reconciling /\ v = reconciling'
    BY DEF TypeStore
  <2>2. /\ v.record \in Record /\ operations[v.record] # None
        /\ v.stateVersion <= operations[v.record].stateVersion /\ v.stateVersion \in Nat
    BY <2>1 DEF Held, View
  <2>3. operations[v.record] \in Row /\ operations'[v.record] \in Row
    BY <2>2 DEF TypeStore, Kept
  <2>4. operations[v.record].stateVersion \in Nat /\ operations'[v.record].stateVersion \in Nat
    BY <2>3 DEF Row
  <2> QED BY <2>1, <2>2, <2>4 DEF Kept
<1> QED BY <1>1, <1>2 DEF Held

\* PUT keeps reservations held, and records.
LEMMA HeldPut ==
    ASSUME TypeStore, Held, NEW c \in Client, PutCommit(c)
    PROVE  Held' /\ Kept
PROOF
<1>1. PICK p : p = pending[c]
  OBVIOUS
<1>2. /\ p.record \in Record /\ p.row \in Sight
      /\ Refused \/ Created(c, p) \/ Repeated(c, p) \/ Changed(c, p)
      /\ pending' = [pending EXCEPT ![c] = None]
      /\ reconciling' = reconciling
  BY <1>1, PutOutcome
<1>3. TypeStore'
  BY PutTypes
<1>4. \A d \in Client : pending'[d] = pending[d] \/ pending'[d] = None
  BY <1>2 DEF TypeStore
<1>5. CASE UNCHANGED <<operations, activeReservations>>
  <2>1. Kept
    BY <1>5, KeptSame
  <2>2. \A i \in Input : activeReservations'[i] # None =>
            /\ operations'[activeReservations'[i]] # None
            /\ operations'[activeReservations'[i]].status \in Open
            /\ InputOf[operations'[activeReservations'[i]].op] = i
    BY <1>5 DEF Held
  <2> QED BY <1>2, <1>3, <1>4, <2>1, <2>2, HeldKept
<1>6. CASE Created(c, p)
  <2>1. /\ Kept /\ operations'[p.record] = NewRow(p.row.op) /\ operations'[p.record] # None
        /\ \A r \in Record \ {p.record} : operations'[r] = operations[r]
    BY <1>2, <1>6, KeptCreated
  <2>2. p.row.op \in Operation /\ InputOf[p.row.op] \in Input
    BY <1>2, InputType DEF Sight
  <2>3. NewRow(p.row.op).status \in Open /\ NewRow(p.row.op).op = p.row.op
    BY DEF NewRow, Open
  <2>4. ASSUME NEW i \in Input, activeReservations'[i] # None
        PROVE  /\ operations'[activeReservations'[i]] # None
               /\ operations'[activeReservations'[i]].status \in Open
               /\ InputOf[operations'[activeReservations'[i]].op] = i
    <3>1. CASE i = InputOf[p.row.op]
      <4>1. activeReservations'[i] = p.record
        BY <1>6, <2>2, <3>1 DEF Created, TypeStore
      <4> QED BY <2>1, <2>3, <3>1, <4>1
    <3>2. CASE i # InputOf[p.row.op]
      <4>1. activeReservations'[i] = activeReservations[i]
        BY <1>6, <2>2, <3>2 DEF Created, TypeStore
      <4>2. activeReservations[i] \in Record \ {p.record}
        BY <1>6, <2>4, <4>1 DEF Created, TypeStore, Held
      <4> QED BY <2>1, <2>4, <4>1, <4>2 DEF Held
    <3> QED BY <3>1, <3>2
  <2> QED BY <1>2, <1>3, <1>4, <2>1, <2>4, HeldKept
<1>7. CASE Changed(c, p)
  <2>1. /\ Kept
        /\ \A r \in Record \ {p.record} : operations'[r] = operations[r]
        /\ operations'[p.record].status = operations[p.record].status
        /\ operations'[p.record].op = operations[p.record].op
    BY <1>2, <1>7, KeptChanged
  <2>2. \A r \in Record : operations[r] # None =>
            operations'[r].status = operations[r].status /\ operations'[r].op = operations[r].op
    BY <2>1
  <2>3. \A i \in Input : activeReservations'[i] # None =>
            /\ operations'[activeReservations'[i]] # None
            /\ operations'[activeReservations'[i]].status \in Open
            /\ InputOf[operations'[activeReservations'[i]].op] = i
    <3>1. \A i \in Input : activeReservations[i] # None => activeReservations[i] \in Record
      BY DEF TypeStore
    <3> QED BY <1>7, <2>1, <2>2, <3>1 DEF Changed, Held, Kept
  <2> QED BY <1>2, <1>3, <1>4, <2>1, <2>3, HeldKept
<1> QED BY <1>2, <1>5, <1>6, <1>7 DEF Refused, Repeated

\* A release keeps reservations held, and records.
LEMMA HeldRelease ==
    ASSUME TypeStore, Held, NEW c \in Client, ReleaseCommit(c)
    PROVE  Held' /\ Kept
PROOF
<1>1. PICK p : p = pending[c]
  OBVIOUS
<1>2. /\ p.record \in Record /\ p.base \in Sight /\ p.point \in Nat \X Nat
      /\ Refused \/ Freed(c, p)
      /\ pending' = [pending EXCEPT ![c] = None]
      /\ reconciling' = reconciling
  BY <1>1, ReleaseOutcome
<1>3. TypeStore'
  BY ReleaseTypes
<1>4. \A d \in Client : pending'[d] = pending[d] \/ pending'[d] = None
  BY <1>2 DEF TypeStore
<1>5. CASE UNCHANGED <<operations, activeReservations>>
  <2>1. Kept
    BY <1>5, KeptSame
  <2>2. \A i \in Input : activeReservations'[i] # None =>
            /\ operations'[activeReservations'[i]] # None
            /\ operations'[activeReservations'[i]].status \in Open
            /\ InputOf[operations'[activeReservations'[i]].op] = i
    BY <1>5 DEF Held
  <2> QED BY <1>2, <1>3, <1>4, <2>1, <2>2, HeldKept
<1>6. CASE Freed(c, p)
  <2>1. /\ Kept /\ operations[p.record] \in Row
        /\ \A r \in Record \ {p.record} : operations'[r] = operations[r]
    BY <1>2, <1>6, KeptFreed
  <2>2. PICK j \in Input : j = InputOf[operations[p.record].op]
    BY <2>1, InputType DEF Row
  <2>3. \A i \in Input : activeReservations'[i] =
                             IF i = j THEN None ELSE activeReservations[i]
    BY <1>6, <2>2 DEF Freed, TypeStore
  <2>4. ASSUME NEW i \in Input, activeReservations'[i] # None
        PROVE  /\ operations'[activeReservations'[i]] # None
               /\ operations'[activeReservations'[i]].status \in Open
               /\ InputOf[operations'[activeReservations'[i]].op] = i
    <3>1. i # j /\ activeReservations'[i] = activeReservations[i]
      BY <2>3, <2>4
    <3>2. activeReservations[i] \in Record \ {p.record}
      BY <2>2, <2>4, <3>1 DEF TypeStore, Held
    <3> QED BY <2>1, <2>4, <3>1, <3>2 DEF Held
  <2> QED BY <1>2, <1>3, <1>4, <2>1, <2>4, HeldKept
<1> QED BY <1>2, <1>5, <1>6 DEF Refused

\* A view that reconciliation commits is of a record that exists.
LEMMA HeldReconcile ==
    ASSUME TypeStore, Held, ReconcileCommit
    PROVE  Held' /\ Kept
PROOF
<1>1. PICK v : v = reconciling
  OBVIOUS
<1>2. /\ v \in View /\ v.record \in Record /\ operations[v.record] \in Row
      /\ UNCHANGED storage \/ Contradicted(v) \/ Followed(v)
      /\ reconciling' = None
      /\ UNCHANGED <<gate, clients, pending, chain>>
  BY <1>1, ReconcileOutcome
<1>3. TypeStore'
  BY ReconcileTypes
<1>4. \A d \in Client : pending'[d] = pending[d] \/ pending'[d] = None
  BY <1>2
<1>5. CASE UNCHANGED storage
  <2>1. Kept
    BY <1>5, KeptSame DEF storage
  <2>2. \A i \in Input : activeReservations'[i] # None =>
            /\ operations'[activeReservations'[i]] # None
            /\ operations'[activeReservations'[i]].status \in Open
            /\ InputOf[operations'[activeReservations'[i]].op] = i
    BY <1>5 DEF Held, storage
  <2> QED BY <1>2, <1>3, <1>4, <2>1, <2>2, HeldKept
<1>6. CASE Contradicted(v)
  <2>1. /\ Kept /\ operations'[v.record] # None /\ operations'[v.record].status = "unknown"
        /\ operations'[v.record].op = operations[v.record].op
        /\ \A r \in Record \ {v.record} : operations'[r] = operations[r]
    BY <1>2, <1>6, KeptMoved DEF Contradicted, Open
  <2>2. \A i \in Input : activeReservations[i] # None => activeReservations[i] \in Record
    BY DEF TypeStore
  <2>3. \A i \in Input : activeReservations'[i] # None =>
            /\ operations'[activeReservations'[i]] # None
            /\ operations'[activeReservations'[i]].status \in Open
            /\ InputOf[operations'[activeReservations'[i]].op] = i
    BY <1>6, <2>1, <2>2 DEF Contradicted, Held, Open
  <2> QED BY <1>2, <1>3, <1>4, <2>1, <2>3, HeldKept
<1>7. CASE Followed(v)
  <2>1. v.next \in Open \cup Closed /\ v.point \in (Nat \X Nat) \cup {None}
    BY <1>2 DEF View
  <2>2. /\ Kept /\ operations'[v.record] # None /\ operations'[v.record].status = v.next
        /\ operations'[v.record].op = operations[v.record].op
        /\ \A r \in Record \ {v.record} : operations'[r] = operations[r]
    BY <1>2, <1>7, KeptFollowed
  <2>3. \A i \in Input : activeReservations[i] # None => activeReservations[i] \in Record
    BY DEF TypeStore
  <2>4. \A i \in Input : activeReservations'[i] =
            IF v.next \in Closed /\ activeReservations[i] = v.record
            THEN None ELSE activeReservations[i]
    BY <1>7 DEF Followed, Move
  <2>5. ASSUME NEW i \in Input, activeReservations'[i] # None
        PROVE  /\ operations'[activeReservations'[i]] # None
               /\ operations'[activeReservations'[i]].status \in Open
               /\ InputOf[operations'[activeReservations'[i]].op] = i
    <3>1. /\ activeReservations'[i] = activeReservations[i] /\ activeReservations[i] \in Record
          /\ v.next \in Open \/ activeReservations[i] # v.record
      BY <2>1, <2>3, <2>4, <2>5
    <3> QED BY <2>2, <2>5, <3>1 DEF Held
  <2> QED BY <1>2, <1>3, <1>4, <2>2, <2>5, HeldKept
<1> QED BY <1>2, <1>5, <1>6, <1>7

\* A read of the chain changes no reservation.
LEMMA HeldRead ==
    ASSUME TypeStore, Held, NEW r \in Record, NEW view \in {final, None}, ReconcileRead(r, view)
    PROVE  Held'
PROOF
<1>1. /\ operations[r] # None /\ reconciling'.record = r
      /\ reconciling'.stateVersion = operations[r].stateVersion
      /\ UNCHANGED <<storage, pending>>
  BY DEF ReconcileRead
<1>2. operations[r].stateVersion \in Nat
  BY <1>1 DEF TypeStore, Row
<1> QED BY <1>1, <1>2 DEF Held, storage

\* Every step leaves each open record holding its input.
LEMMA HeldStep == ASSUME TypeStore, Held, [Next]_vars PROVE Held'
PROOF
<1>1. CASE UNCHANGED vars
  BY <1>1, HeldSame DEF vars, storage
<1>2. CASE ChainStep
  BY <1>2, HeldSame DEF ChainStep, Block, EmptyBlock, Finalize, Reorganize, FinalizedReorganize,
                        storage
<1>3. ASSUME NEW c \in Client, NEW r \in Record, Get(c, r) \/ ReleaseRetry(c, r)
      PROVE  Held'
  BY <1>3, HeldSame DEF Get, ReleaseRetry, storage
<1> QED BY <1>1, <1>2, <1>3, HeldOperator, HeldAsk, HeldPut, HeldRelease, HeldReconcile, HeldRead
        DEF Next, ClientStep
-----------------------------------------------------------------------------
(* What may still execute only becomes less, unless finality is broken.      *)

\* While finalized history stands, what can still be executed only becomes less.
LEMMA PossibleShrinks ==
    ASSUME TypeStore, [Next]_vars, final'.fork = 0
    PROVE  /\ final.fork = 0
           /\ \A o \in Operation : Possible(o)' => Possible(o)
           /\ final.time <= final'.time /\ final.executed \subseteq final'.executed
           /\ final.time \in Nat /\ final'.time \in Nat
PROOF
<1>1. final.time \in Nat /\ final.fork \in Nat
  BY DEF TypeStore, Blocks
<1>2. CASE final' = final
  BY <1>1, <1>2 DEF Possible, CanExecute, Spent
<1>3. CASE Finalize
  <2>1. final'.time = tip.time /\ final'.executed = tip.executed /\ final'.fork = final.fork
    BY <1>3 DEF Finalize, TypeStore, Blocks
  <2>2. final.executed \subseteq final'.executed /\ final.time <= final'.time
        /\ final'.time \in Nat
    BY <2>1 DEF TypeStore
  <2>3. ASSUME NEW o \in Operation, Possible(o)' PROVE Possible(o)
    <3>1. ~Spent(final.executed, InputOf[o])
      BY <2>2, <2>3 DEF Possible, CanExecute, Spent
    <3>2. IsPay(o) => final.time <= DeadlineOf[o]
      <4>1. DeadlineOf[o] \in Nat
        BY StoreAssumption
      <4> QED BY <1>1, <2>2, <2>3, <4>1 DEF Possible, CanExecute
    <3> QED BY <3>1, <3>2 DEF Possible, CanExecute
  <2> QED BY <1>1, <2>1, <2>2, <2>3
<1>4. CASE FinalizedReorganize
  BY <1>1, <1>4 DEF FinalizedReorganize
<1>5. final' = final \/ Finalize \/ FinalizedReorganize
  BY WhoWrites
<1> QED BY <1>2, <1>3, <1>4, <1>5

\* Two operations that could both consume an input are never both signed,
\* because the one record that holds the input is for one of them.
LEMMA Live ==
    ASSUME TypeStore, Recorded, Sound
    PROVE  OneLiveAuthorization
PROOF
<1>1. SUFFICES ASSUME RecordsComplete, final.fork = 0, NEW o1 \in signed, NEW o2 \in signed,
                      CanExecute(o1, final.time + 1, final.executed),
                      CanExecute(o2, final.time + 1, final.executed),
                      InputOf[o1] = InputOf[o2]
               PROVE  o1 = o2
  BY DEF Recorded, OneLiveAuthorization
<1>2. ASSUME NEW o \in signed, CanExecute(o, final.time + 1, final.executed) PROVE Possible(o)
  <2>1. final.time \in Nat /\ DeadlineOf[o] \in Nat
    BY StoreAssumption DEF TypeStore, Blocks
  <2> QED BY <1>2, <2>1 DEF CanExecute, Possible
<1>3. PICK r1 \in Record : operations[r1] # None /\ operations[r1].op = o1
  BY <1>1 DEF RecordsComplete
<1>4. PICK r2 \in Record : operations[r2] # None /\ operations[r2].op = o2
  BY <1>1 DEF RecordsComplete
<1>5. activeReservations[InputOf[o1]] = r1 /\ activeReservations[InputOf[o2]] = r2
  BY <1>1, <1>2, <1>3, <1>4 DEF Sound, Secured
<1> QED BY <1>1, <1>3, <1>4, <1>5

\* Without a new signature, no second live authorization appears.
LEMMA LiveStays ==
    ASSUME TypeStore, OneLiveAuthorization, [Next]_vars, signed' = signed
    PROVE  OneLiveAuthorization'
PROOF
<1>1. SUFFICES ASSUME final'.fork = 0, NEW o1 \in signed, NEW o2 \in signed,
                      CanExecute(o1, final'.time + 1, final'.executed),
                      CanExecute(o2, final'.time + 1, final'.executed), o1 # o2
               PROVE  InputOf[o1] # InputOf[o2]
  BY DEF OneLiveAuthorization
<1>2. /\ final.fork = 0 /\ final.time <= final'.time /\ final.executed \subseteq final'.executed
      /\ final.time \in Nat /\ final'.time \in Nat
  BY <1>1, PossibleShrinks
<1>3. ASSUME NEW o \in signed, CanExecute(o, final'.time + 1, final'.executed)
      PROVE  CanExecute(o, final.time + 1, final.executed)
  <2>1. DeadlineOf[o] \in Nat
    BY StoreAssumption DEF TypeStore
  <2>2. ~Spent(final.executed, InputOf[o])
    BY <1>2, <1>3 DEF CanExecute, Spent
  <2>3. IsPay(o) => final.time + 1 <= DeadlineOf[o]
    BY <1>2, <1>3, <2>1 DEF CanExecute
  <2> QED BY <2>2, <2>3 DEF CanExecute
<1> QED BY <1>1, <1>2, <1>3 DEF OneLiveAuthorization
-----------------------------------------------------------------------------
(* Recorded.                                                                 *)

\* The records stay complete if every new signature has its record.
LEMMA CompleteStays ==
    ASSUME TypeStore, TypeStore', RecordsComplete, Kept,
           \A o \in signed' \ signed : \E r \in Record :
               /\ operations'[r] # None /\ operations'[r].op = o
               /\ operations'[r].signatureStarted
    PROVE  RecordsComplete'
PROOF
<1> SUFFICES ASSUME NEW o \in signed'
             PROVE  \E r \in Record : /\ operations'[r] # None /\ operations'[r].op = o
                                      /\ operations'[r].signatureStarted
  BY DEF RecordsComplete
<1>1. CASE o \in signed
  <2>1. PICK r \in Record : operations[r] # None /\ operations[r].op = o
                            /\ operations[r].signatureStarted
    BY <1>1 DEF RecordsComplete
  <2> QED BY <2>1 DEF Kept
<1> QED BY <1>1

\* A step without writes and signatures leaves the signatures recorded.
LEMMA RecordedSame ==
    ASSUME TypeStore, Recorded, [Next]_vars, UNCHANGED <<operations, signed>>,
           RecordsComplete \/ (Blank /\ environment'.generation = environment.generation
                               /\ environment.generation < gate'.generation
                               /\ UNCHANGED <<pending, reconciling>>)
    PROVE  Recorded'
PROOF
<1>1. CASE RecordsComplete
  BY <1>1 DEF RecordsComplete, Recorded
<1>2. CASE Blank /\ ~RecordsComplete
  <2>1. OneLiveAuthorization'
    BY <1>2, LiveStays DEF Recorded
  <2>2. Blank'
    BY <1>2 DEF Blank
  <2> QED BY <2>1, <2>2 DEF Recorded
<1> QED BY <1>1, <1>2

\* Every step leaves the signatures recorded.
LEMMA RecordedStep ==
    ASSUME TypeStore, TypeStore', Held, Recorded, Sound, [Next]_vars
    PROVE  Recorded'
PROOF
<1>1. CASE UNCHANGED vars
  BY <1>1, RecordedSame DEF vars, storage, clients, Recorded, Blank
<1>2. CASE ChainStep
  <2>1. UNCHANGED <<operations, environment, gate, signed, pending, reconciling>>
    BY <1>2 DEF ChainStep, Block, EmptyBlock, Finalize, Reorganize, FinalizedReorganize,
                storage, clients
  <2> QED BY <2>1, RecordedSame DEF Recorded, Blank
<1>3. CASE OperatorStep
  <2>1. CASE StopGate
    <3>1. gate'.generation = gate.generation + 1 /\ gate.generation \in Nat
          /\ environment.generation \in Nat
      BY <2>1 DEF StopGate, TypeStore, Gate
    <3> QED BY <2>1, <3>1, RecordedSame DEF StopGate, storage, clients, Recorded, Blank
  <2>2. CASE BeginRestore
    <3>1. environment'.generation = environment.generation
      BY <2>2 DEF BeginRestore
    <3> QED BY <2>2, <3>1, RecordedSame DEF BeginRestore, clients, Recorded, Blank
  <2>3. CASE RestoreOldDatabase
    <3>1. OneLiveAuthorization'
      BY <2>3, Live, LiveStays DEF RestoreOldDatabase, clients
    <3>2. Blank'
      BY <2>3 DEF RestoreOldDatabase, Blank, TypeStore, Gate
    <3> QED BY <3>1, <3>2 DEF Recorded
  <2>4. CASE CompleteRestore
    BY <2>4, RecordedSame DEF CompleteRestore, clients
  <2>5. CASE OpenGate
    <3>1. gate'.generation = gate.generation
      BY <2>5 DEF OpenGate, TypeStore, Gate
    <3> QED BY <2>5, <3>1, RecordedSame DEF OpenGate, storage, clients, Recorded, Blank
  <2> QED BY <1>3, <2>1, <2>2, <2>3, <2>4, <2>5 DEF OperatorStep
<1>4. ASSUME NEW c \in Client, ClientStep(c) PROVE Recorded'
  <2>1. ASSUME NEW r \in Record,
               \/ \E o \in Operation : PutNew(c, r, o)
               \/ \E sig \in BOOLEAN, more \in {<<>>, <<c>>} : PutChanged(c, r, sig, more)
               \/ ReleaseRead(c, r) \/ Get(c, r) \/ ReleaseRetry(c, r)
        PROVE  Recorded'
    <3>1. UNCHANGED <<operations, signed>>
      BY <2>1 DEF PutNew, PutChanged, ReleaseRead, Get, ReleaseRetry, storage, clients
    <3>2. Writable(gate) \/ operations[r] # None
      BY <2>1 DEF PutNew, PutChanged, ReleaseRead, Get, ReleaseRetry
    <3>3. ~Blank
      BY <3>2 DEF Writable, Blank, TypeStore, Gate
    <3>4. RecordsComplete
      BY <3>3 DEF Recorded
    <3> QED BY <3>1, <3>4, RecordedSame
  <2>2. ASSUME PutCommit(c) \/ ReleaseCommit(c),
               NEW row \in Row, NEW r \in Record, operations'[r] = row, row # None,
               Acknowledge(c, row, r)
        PROVE  Recorded'
    <3>1. RecordsComplete
      BY <2>2 DEF Recorded, Blank, PutCommit, ReleaseCommit
    <3>2. Kept
      BY <2>2, HeldPut, HeldRelease
    <3>3. \A o \in signed' \ signed : operations'[r].op = o /\ operations'[r].signatureStarted
      BY <2>2 DEF Acknowledge, clients
    <3>4. RecordsComplete'
      BY <2>2, <3>1, <3>2, <3>3, CompleteStays
    <3> QED BY <3>4 DEF Recorded
  <2>3. ASSUME PutCommit(c) \/ ReleaseCommit(c), Refused PROVE Recorded'
    <3>1. RecordsComplete
      BY <2>3 DEF Recorded, Blank, PutCommit, ReleaseCommit
    <3>2. UNCHANGED <<operations, signed>>
      BY <2>3 DEF Refused, clients
    <3> QED BY <3>1, <3>2, RecordedSame
  <2>4. CASE PutCommit(c)
    <3>1. PICK p : p = pending[c]
      OBVIOUS
    <3>2. /\ p.record \in Record /\ p.row \in Sight
          /\ Refused \/ Created(c, p) \/ Repeated(c, p) \/ Changed(c, p)
      BY <2>4, <3>1, PutOutcome
    <3>3. CASE Created(c, p)
      BY <2>2, <2>4, <3>2, <3>3, KeptCreated DEF Created
    <3>4. CASE Repeated(c, p)
      <4>1. operations[p.record] \in Row /\ operations'[p.record] = operations[p.record]
        BY <3>2, <3>4 DEF Repeated, TypeStore
      <4> QED BY <2>2, <2>4, <3>2, <3>4, <4>1 DEF Repeated
    <3>5. CASE Changed(c, p)
      <4>1. PICK row \in Row : row = Updated(operations[p.record], p.row)
        BY <3>2, <3>5, KeptChanged
      <4>2. operations'[p.record] = row /\ row # None
        BY <3>2, <3>5, <4>1, KeptChanged
      <4>3. Acknowledge(c, row, p.record)
        BY <3>5, <4>1 DEF Changed
      <4> QED BY <2>2, <2>4, <3>2, <4>2, <4>3
    <3> QED BY <2>3, <2>4, <3>2, <3>3, <3>4, <3>5
  <2>5. CASE ReleaseCommit(c)
    <3>1. PICK p : p = pending[c]
      OBVIOUS
    <3>2. /\ p.record \in Record /\ p.base \in Sight /\ p.point \in Nat \X Nat
          /\ Refused \/ Freed(c, p)
      BY <2>5, <3>1, ReleaseOutcome
    <3>3. CASE Freed(c, p)
      <4>1. PICK row : row = ReleasedRow(c, operations[p.record], p.base, p.point)
        OBVIOUS
      <4>2. row \in Row /\ operations'[p.record] = row /\ row # None
        BY <3>2, <3>3, <4>1, KeptFreed
      <4>3. Acknowledge(c, row, p.record)
        BY <3>3, <4>1 DEF Freed
      <4> QED BY <2>2, <2>5, <3>2, <4>2, <4>3
    <3> QED BY <2>3, <2>5, <3>2, <3>3
  <2> QED BY <1>4, <2>1, <2>4, <2>5 DEF ClientStep
<1>5. ASSUME NEW r \in Record, NEW view \in {final, None}, ReconcileRead(r, view)
      PROVE  Recorded'
  <2>1. ~Blank /\ UNCHANGED <<operations, signed>>
    BY <1>5 DEF ReconcileRead, Blank, storage, clients
  <2> QED BY <2>1, RecordedSame DEF Recorded
<1>6. CASE ReconcileCommit
  <2>1. RecordsComplete /\ UNCHANGED signed
    BY <1>6 DEF Recorded, Blank, ReconcileCommit, clients
  <2> QED BY <1>6, <2>1, HeldReconcile, CompleteStays DEF Recorded
<1> QED BY <1>1, <1>2, <1>3, <1>4, <1>5, <1>6 DEF Next
-----------------------------------------------------------------------------
(* Sound.                                                                    *)

\* A record is about an operation with an input.
LEMMA OpTypes ==
    ASSUME TypeStore
    PROVE  \A r \in Record : operations[r] # None =>
               operations[r].op \in Operation /\ InputOf[operations[r].op] \in Input
PROOF BY InputType DEF TypeStore, Row

\* What a request was judged by is still true, or its commit will refuse.
LEMMA StillTrueKept ==
    ASSUME TypeStore, Held, Kept, Sound, [Next]_vars, final'.fork = 0,
           \A d \in Client : pending'[d] = pending[d] \/ pending'[d] = None,
           \/ reconciling' = None
           \/ /\ reconciling' = reconciling
              /\ \A i \in Input :
                    activeReservations[i] # None /\ activeReservations'[i] # activeReservations[i] =>
                        operations'[activeReservations[i]].stateVersion >
                            operations[activeReservations[i]].stateVersion
    PROVE  StillTrue'
PROOF
<1>1. StillTrue /\ \A o \in Operation : Possible(o)' => Possible(o)
  BY PossibleShrinks DEF Sound
<1>2. ASSUME NEW d \in Client, pending'[d] # None, pending'[d].call = "release"
      PROVE  ~Possible(operations[pending[d].record].op)'
  <2>1. PICK q \in Request : q = pending[d] /\ q = pending'[d] /\ q # None
    BY <1>2 DEF TypeStore
  <2>2. q.record \in Record /\ operations[q.record] # None
    BY <1>2, <2>1 DEF Held, Request
  <2>3. operations[q.record].op \in Operation /\ operations'[q.record].op = operations[q.record].op
    BY <2>2, OpTypes DEF Kept
  <2>4. ~Possible(operations[q.record].op)
    BY <1>1, <1>2, <2>1 DEF StillTrue
  <2>5. PICK o \in Operation : o = operations[q.record].op
    BY <2>3
  <2>6. ~Possible(o)'
    BY <1>1, <2>4, <2>5
  <2>7. o = operations'[pending'[d].record].op
    BY <2>1, <2>3, <2>5
  <2> QED BY <2>6, <2>7 DEF Possible
<1>3. ASSUME reconciling' # None
      PROVE  /\ reconciling'.next \in Closed =>
                    ~Possible(operations[reconciling.record].op)'
             /\ /\ reconciling'.next = "reserved"
                /\ reconciling'.stateVersion = operations'[reconciling'.record].stateVersion
                => activeReservations'[InputOf[operations'[reconciling'.record].op]] =
                       reconciling'.record
  <2>1. PICK v \in View : v = reconciling /\ v = reconciling' /\ v # None
    BY <1>3 DEF TypeStore
  <2>2. /\ v.record \in Record /\ operations[v.record] # None
        /\ v.stateVersion <= operations[v.record].stateVersion
    BY <2>1 DEF Held, View
  <2>3. /\ operations[v.record].op \in Operation /\ InputOf[operations[v.record].op] \in Input
        /\ operations'[v.record].op = operations[v.record].op
        /\ operations[v.record].stateVersion <= operations'[v.record].stateVersion
        /\ v.stateVersion \in Nat
        /\ operations[v.record].stateVersion \in Nat
    BY <2>2, OpTypes DEF Kept, View, TypeStore, Row
  <2>4. PICK o \in Operation : o = operations[v.record].op
    BY <2>3
  <2>5. v.next \in Closed => ~Possible(o)'
    BY <1>1, <2>1, <2>4 DEF StillTrue
  <2>6. ASSUME v.next = "reserved", v.stateVersion = operations'[v.record].stateVersion
        PROVE  activeReservations'[InputOf[o]] = v.record
    <3>1. /\ v.stateVersion = operations[v.record].stateVersion
          /\ operations[v.record].stateVersion = operations'[v.record].stateVersion
      <4>1. operations'[v.record].stateVersion \in Nat
        BY <2>6, <2>3
      <4> QED BY <2>2, <2>3, <2>6, <4>1
    <3>2. activeReservations[InputOf[o]] = v.record
      BY <1>1, <2>1, <2>4, <2>6, <3>1 DEF StillTrue
    <3>3. v.record # None
      BY <2>2, RowTypes
    <3>4. activeReservations'[InputOf[o]] = activeReservations[InputOf[o]]
      BY <1>3, <2>3, <2>4, <3>1, <3>2, <3>3
    <3> QED BY <3>2, <3>4
  <2>7. o = operations'[reconciling'.record].op
    BY <2>1, <2>3, <2>4
  <2> QED BY <2>1, <2>5, <2>6, <2>7 DEF Possible
<1> QED BY <1>2, <1>3 DEF StillTrue

\* A record that is not written stays secured.
LEMMA SecuredSame ==
    ASSUME TypeStore, Sound, [Next]_vars, final'.fork = 0,
           NEW r \in Record, operations'[r] # None => operations[r] # None,
           operations[r] # None =>
               /\ operations'[r].op = operations[r].op
               /\ operations'[r].status = operations[r].status
               /\ activeReservations'[InputOf[operations[r].op]] =
                      activeReservations[InputOf[operations[r].op]]
    PROVE  Secured(r)'
PROOF
<1>1. Secured(r) /\ \A o \in Operation : Possible(o)' => Possible(o)
  BY PossibleShrinks DEF Sound
<1>2. CASE operations[r] # None
  <2>1. PICK o \in Operation : o = operations[r].op /\ o = operations'[r].op
    BY <1>2, OpTypes
  <2>2. Possible(o)' => Possible(o)
    BY <1>1
  <2>3. Possible(operations[r].op)' <=> Possible(o)'
    BY <2>1 DEF Possible
  <2>4. Possible(operations[r].op) <=> Possible(o)
    BY <2>1
  <2> QED BY <1>1, <1>2, <2>1, <2>2, <2>3, <2>4 DEF Secured
<1> QED BY <1>2 DEF Secured

\* A step without writes keeps the records sound.
LEMMA SoundSame ==
    ASSUME TypeStore, Held, Sound, [Next]_vars, UNCHANGED <<operations, activeReservations>>,
           \A d \in Client : pending'[d] = pending[d] \/ pending'[d] = None,
           reconciling' = reconciling \/ reconciling' = None
    PROVE  Sound'
PROOF
<1> SUFFICES ASSUME final'.fork = 0 PROVE StillTrue' /\ \A r \in Record : Secured(r)'
  BY DEF Sound
<1>1. StillTrue'
  BY KeptSame, StillTrueKept
<1>2. \A r \in Record : Secured(r)'
  BY SecuredSame
<1> QED BY <1>1, <1>2

\* A request that is only asked keeps the records sound.
LEMMA SoundAsk ==
    ASSUME TypeStore, Held, Sound, [Next]_vars, NEW c \in Client, NEW r \in Record,
           \/ \E o \in Operation : PutNew(c, r, o)
           \/ \E sig \in BOOLEAN, more \in {<<>>, <<c>>} : PutChanged(c, r, sig, more)
           \/ ReleaseRead(c, r)
    PROVE  Sound'
PROOF
<1> SUFFICES ASSUME final'.fork = 0 PROVE StillTrue' /\ \A q \in Record : Secured(q)'
  BY DEF Sound
<1>1. UNCHANGED <<storage, reconciling, chain>>
  BY DEF PutNew, PutChanged, ReleaseRead
<1>2. \A q \in Record : Secured(q)'
  BY <1>1, SecuredSame DEF storage
<1>3. StillTrue
  BY <1>1 DEF Sound, chain
<1>4. ASSUME NEW q, pending' = [pending EXCEPT ![c] = q],
             q.call = "put" \/ ~Possible(operations[q.record].op)
      PROVE  StillTrue'
  <2>1. \A d \in Client : pending'[d] = IF d = c THEN q ELSE pending[d]
    BY <1>4 DEF TypeStore
  <2> QED BY <1>1, <1>3, <1>4, <2>1 DEF StillTrue, Possible, storage, chain
<1>5. ASSUME NEW o \in Operation, PutNew(c, r, o) PROVE StillTrue'
  BY <1>4, <1>5 DEF PutNew
<1>6. ASSUME NEW sig \in BOOLEAN, NEW more \in {<<>>, <<c>>}, PutChanged(c, r, sig, more)
      PROVE  StillTrue'
  BY <1>4, <1>6 DEF PutChanged
<1>7. CASE ReleaseRead(c, r)
  <2>1. operations[r].op \in Operation
    BY <1>7, OpTypes DEF ReleaseRead
  <2>2. IsPay(operations[r].op) /\ final.time > DeadlineOf[operations[r].op]
    BY <1>7 DEF ReleaseRead, ReleaseEvidence, Expired
  <2>3. final.time \in Nat /\ DeadlineOf[operations[r].op] \in Nat
    BY <2>1, StoreAssumption DEF TypeStore, Blocks
  <2>4. ~Possible(operations[r].op)
    BY <2>2, <2>3 DEF Possible, CanExecute
  <2>5. PICK q : q = [call |-> "release", gate |-> gate, record |-> r, base |-> known[c][r],
                      point |-> Point]
    OBVIOUS
  <2>6. pending' = [pending EXCEPT ![c] = q] /\ q.record = r
    BY <1>7, <2>5 DEF ReleaseRead
  <2> QED BY <1>2, <1>4, <2>4, <2>6
<1> QED BY <1>2, <1>5, <1>6, <1>7

\* PUT keeps the records sound.
LEMMA SoundPut ==
    ASSUME TypeStore, TypeStore', Held, Sound, [Next]_vars, NEW c \in Client, PutCommit(c)
    PROVE  Sound'
PROOF
<1> SUFFICES ASSUME final'.fork = 0 PROVE StillTrue' /\ \A r \in Record : Secured(r)'
  BY DEF Sound
<1>1. PICK p : p = pending[c]
  OBVIOUS
<1>2. /\ p.record \in Record /\ p.row \in Sight
      /\ Refused \/ Created(c, p) \/ Repeated(c, p) \/ Changed(c, p)
      /\ pending' = [pending EXCEPT ![c] = None]
      /\ reconciling' = reconciling
  BY <1>1, PutOutcome
<1>3. Kept
  BY HeldPut
<1>4. \A d \in Client : pending'[d] = pending[d] \/ pending'[d] = None
  BY <1>2 DEF TypeStore
<1>5. CASE UNCHANGED <<operations, activeReservations>>
  BY <1>2, <1>4, <1>5, SoundSame DEF Sound
<1>6. CASE Created(c, p)
  <2>1. p.row.op \in Operation /\ InputOf[p.row.op] \in Input
    BY <1>2, InputType DEF Sight
  <2>2. PICK j \in Input : j = InputOf[p.row.op]
    BY <2>1
  <2>3. /\ \A i \in Input : activeReservations'[i] =
                                IF i = j THEN p.record ELSE activeReservations[i]
        /\ activeReservations[j] = None
    BY <1>6, <2>2 DEF Created, Unreserved, TypeStore
  <2>4. StillTrue'
    BY <1>2, <1>3, <1>4, <2>3, StillTrueKept
  <2>5. /\ operations'[p.record] = NewRow(p.row.op)
        /\ \A r \in Record \ {p.record} : operations'[r] = operations[r]
    BY <1>2, <1>6, KeptCreated
  <2>6. Secured(p.record)'
    <3>1. NewRow(p.row.op).op = p.row.op /\ NewRow(p.row.op).status \in Open
      BY DEF NewRow, Open
    <3> QED BY <2>2, <2>3, <2>5, <3>1 DEF Secured
  <2>7. ASSUME NEW r \in Record \ {p.record} PROVE Secured(r)'
    <3>1. CASE operations[r] # None /\ InputOf[operations[r].op] = j
      <4>1. r # None
        BY RowTypes
      <4>2. ~Possible(operations[r].op) /\ operations[r].status # "reserved"
        BY <2>3, <3>1, <4>1, PossibleShrinks DEF Sound, Secured
      <4>3. PICK o \in Operation : o = operations[r].op
        BY <3>1, OpTypes
      <4>4. ~Possible(o)'
        BY <4>2, <4>3, PossibleShrinks
      <4>5. operations'[r].op = o /\ operations'[r].status # "reserved"
        BY <2>5, <4>2, <4>3
      <4>6. ~Possible(operations[r].op)'
        BY <4>4, <4>5 DEF Possible
      <4> QED BY <4>5, <4>6 DEF Secured
    <3>2. CASE operations[r] = None \/ InputOf[operations[r].op] # j
      BY <2>3, <2>5, <3>2, SecuredSame, OpTypes
    <3> QED BY <3>1, <3>2
  <2> QED BY <2>4, <2>6, <2>7
<1>7. CASE Changed(c, p)
  <2>1. /\ \A r \in Record \ {p.record} : operations'[r] = operations[r]
        /\ operations'[p.record].status = operations[p.record].status
        /\ operations'[p.record].op = operations[p.record].op
        /\ operations[p.record] # None
    <3>1. operations[p.record] # None
      BY <1>7 DEF Changed
    <3> QED BY <1>2, <1>7, <3>1, KeptChanged
  <2>2. activeReservations' = activeReservations
    BY <1>7 DEF Changed
  <2>3. StillTrue'
    BY <1>2, <1>3, <1>4, <2>2, StillTrueKept
  <2>4. \A r \in Record : Secured(r)'
    BY <2>1, <2>2, SecuredSame
  <2> QED BY <2>3, <2>4
<1> QED BY <1>2, <1>5, <1>6, <1>7 DEF Refused, Repeated

\* A release keeps the records sound: it has seen the input spent or the terms expired.
LEMMA SoundRelease ==
    ASSUME TypeStore, Held, Sound, [Next]_vars, NEW c \in Client, ReleaseCommit(c)
    PROVE  Sound'
PROOF
<1> SUFFICES ASSUME final'.fork = 0 PROVE StillTrue' /\ \A r \in Record : Secured(r)'
  BY DEF Sound
<1>1. PICK p : p = pending[c]
  OBVIOUS
<1>2. /\ p.record \in Record /\ p.base \in Sight /\ p.point \in Nat \X Nat
      /\ p # None /\ p.call = "release"
      /\ Refused \/ Freed(c, p)
      /\ pending' = [pending EXCEPT ![c] = None]
      /\ reconciling' = reconciling
  BY <1>1, ReleaseOutcome
<1>3. Kept
  BY HeldRelease
<1>4. \A d \in Client : pending'[d] = pending[d] \/ pending'[d] = None
  BY <1>2 DEF TypeStore
<1>5. CASE UNCHANGED <<operations, activeReservations>>
  BY <1>2, <1>4, <1>5, SoundSame DEF Sound
<1>6. CASE Freed(c, p)
  <2>1. /\ operations[p.record] \in Row
        /\ operations'[p.record].status = "released"
        /\ operations'[p.record].op = operations[p.record].op
        /\ operations'[p.record].stateVersion > operations[p.record].stateVersion
        /\ activeReservations[InputOf[operations[p.record].op]] = p.record
        /\ \A r \in Record \ {p.record} : operations'[r] = operations[r]
    BY <1>2, <1>6, KeptFreed
  <2>2. operations[p.record] # None
    BY <2>1, RowTypes
  <2>3. PICK o \in Operation : o = operations[p.record].op
    BY <1>2, <2>2, OpTypes
  <2>4. PICK j \in Input : j = InputOf[o]
    BY InputType
  <2>5. \A i \in Input : activeReservations'[i] =
                             IF i = j THEN None ELSE activeReservations[i]
    BY <1>6, <2>3, <2>4 DEF Freed, TypeStore
  <2>6. StillTrue'
    BY <1>2, <1>3, <1>4, <2>1, <2>3, <2>4, <2>5, StillTrueKept
  <2>7. Secured(p.record)'
    <3>1. ~Possible(o)
      BY <1>1, <1>2, <2>3, PossibleShrinks DEF Sound, StillTrue
    <3>2. ~Possible(o)'
      BY <3>1, PossibleShrinks
    <3>3. ~Possible(operations[p.record].op)'
      BY <2>1, <2>3, <3>2 DEF Possible
    <3> QED BY <2>1, <3>3 DEF Secured
  <2>8. ASSUME NEW r \in Record \ {p.record} PROVE Secured(r)'
    <3>1. CASE operations[r] # None /\ InputOf[operations[r].op] = j
      <4>1. activeReservations[j] # r
        BY <2>1, <2>3, <2>4
      <4>2. ~Possible(operations[r].op) /\ operations[r].status # "reserved"
        BY <3>1, <4>1, PossibleShrinks DEF Sound, Secured
      <4>3. PICK u \in Operation : u = operations[r].op
        BY <3>1, OpTypes
      <4>4. ~Possible(u)'
        BY <4>2, <4>3, PossibleShrinks
      <4>5. operations'[r].op = u /\ operations'[r].status # "reserved"
        BY <2>1, <4>2, <4>3
      <4>6. ~Possible(operations[r].op)'
        BY <4>4, <4>5 DEF Possible
      <4> QED BY <4>5, <4>6 DEF Secured
    <3>2. CASE operations[r] = None \/ InputOf[operations[r].op] # j
      BY <2>1, <2>5, <3>2, SecuredSame, OpTypes
    <3> QED BY <3>1, <3>2
  <2> QED BY <2>6, <2>7, <2>8
<1> QED BY <1>2, <1>5, <1>6 DEF Refused

\* Reconciliation keeps the records sound.
LEMMA SoundReconcile ==
    ASSUME TypeStore, Held, Sound, [Next]_vars, ReconcileCommit
    PROVE  Sound'
PROOF
<1> SUFFICES ASSUME final'.fork = 0 PROVE StillTrue' /\ \A r \in Record : Secured(r)'
  BY DEF Sound
<1>1. PICK v : v = reconciling
  OBVIOUS
<1>2. /\ v \in View /\ v.record \in Record /\ operations[v.record] \in Row
      /\ UNCHANGED storage \/ Contradicted(v) \/ Followed(v)
      /\ reconciling' = None
      /\ UNCHANGED <<gate, clients, pending, chain>>
  BY <1>1, ReconcileOutcome
<1>3. operations[v.record] # None /\ v # None /\ v.record # None
  BY <1>2, RowTypes
<1>4. StillTrue'
  BY <1>2, HeldReconcile, StillTrueKept
<1>5. CASE UNCHANGED storage
  BY <1>2, <1>5, SoundSame DEF Sound, storage
<1>6. PICK o \in Operation : o = operations[v.record].op
  BY <1>3, <1>2, OpTypes
<1>7. CASE Contradicted(v)
  <2>1. /\ operations'[v.record].status = "unknown"
        /\ operations'[v.record].op = operations[v.record].op
        /\ \A r \in Record \ {v.record} : operations'[r] = operations[r]
    <3>1. operations' = [operations EXCEPT ![v.record] =
                            Moved(operations[v.record], "unknown", None)]
      BY <1>7 DEF Contradicted
    <3>2. "unknown" \in Open \cup Closed
      BY DEF Open
    <3> QED BY <1>2, <3>1, <3>2, KeptMoved
  <2>2. activeReservations' = activeReservations
    BY <1>7 DEF Contradicted
  <2>3. Secured(v.record)'
    <3>1. ~Possible(o)
      BY <1>2, <1>3, <1>6, <1>7, PossibleShrinks DEF Sound, Secured, Contradicted, Open, Closed
    <3>2. ~Possible(operations[v.record].op)'
      <4>1. ~Possible(o)'
        BY <3>1, PossibleShrinks
      <4> QED BY <1>6, <2>1, <4>1 DEF Possible
    <3> QED BY <2>1, <3>2 DEF Secured
  <2>4. \A r \in Record \ {v.record} : Secured(r)'
    BY <2>1, <2>2, SecuredSame
  <2> QED BY <1>4, <2>3, <2>4
<1>8. CASE Followed(v)
  <2>1. v.next \in Open \cup Closed /\ v.point \in (Nat \X Nat) \cup {None}
    BY <1>2 DEF View
  <2>2. /\ operations'[v.record].status = v.next
        /\ operations'[v.record].op = operations[v.record].op
        /\ \A r \in Record \ {v.record} : operations'[r] = operations[r]
    BY <1>2, <1>8, KeptFollowed
  <2>3. \A i \in Input : activeReservations'[i] =
            IF v.next \in Closed /\ activeReservations[i] = v.record
            THEN None ELSE activeReservations[i]
    BY <1>8 DEF Followed, Move
  <2>4. /\ v.next \in Closed => ~Possible(o)
        /\ v.next = "reserved" => activeReservations[InputOf[o]] = v.record
    BY <1>1, <1>3, <1>6, <1>8, PossibleShrinks DEF Sound, StillTrue, Followed
  <2>5. Possible(operations[v.record].op)' => Possible(o)
    <3>1. Possible(o)' => Possible(o)
      BY PossibleShrinks
    <3> QED BY <1>6, <2>2, <3>1 DEF Possible
  <2>6. Secured(v.record)'
    <3>1. v.next \in Open \/ v.next \in Closed
      BY <2>1
    <3>2. CASE v.next \in Closed
      BY <2>2, <2>4, <2>5, <3>2 DEF Secured, Closed
    <3>3. CASE v.next \in Open
      <4>1. activeReservations'[InputOf[o]] = activeReservations[InputOf[o]]
        BY <2>3, <3>3, InputType DEF Open, Closed
      <4>2. Possible(o) => activeReservations[InputOf[o]] = v.record
        BY <1>2, <1>3, <1>6, PossibleShrinks DEF Sound, Secured
      <4> QED BY <1>6, <2>2, <2>4, <2>5, <3>3, <4>1, <4>2 DEF Secured
    <3> QED BY <3>1, <3>2, <3>3
  <2>7. ASSUME NEW r \in Record \ {v.record} PROVE Secured(r)'
    <3>1. CASE operations[r] # None /\ activeReservations[InputOf[operations[r].op]] = v.record
      <4>1. ~Possible(operations[r].op) /\ operations[r].status # "reserved"
        BY <3>1, PossibleShrinks DEF Sound, Secured
      <4>2. PICK u \in Operation : u = operations[r].op
        BY <3>1, OpTypes
      <4>3. ~Possible(u)'
        BY <4>1, <4>2, PossibleShrinks
      <4>4. operations'[r].op = u /\ operations'[r].status # "reserved"
        BY <2>2, <4>1, <4>2
      <4>5. ~Possible(operations[r].op)'
        BY <4>3, <4>4 DEF Possible
      <4> QED BY <4>4, <4>5 DEF Secured
    <3>2. CASE operations[r] = None \/ activeReservations[InputOf[operations[r].op]] # v.record
      BY <2>2, <2>3, <3>2, SecuredSame, OpTypes
    <3> QED BY <3>1, <3>2
  <2> QED BY <1>4, <2>6, <2>7
<1> QED BY <1>2, <1>5, <1>7, <1>8 DEF Sound

\* A read of the chain keeps the records sound.
LEMMA SoundRead ==
    ASSUME TypeStore, Sound, [Next]_vars,
           NEW r \in Record, NEW view \in {final, None}, ReconcileRead(r, view)
    PROVE  Sound'
PROOF
<1> SUFFICES ASSUME final'.fork = 0 PROVE StillTrue' /\ \A q \in Record : Secured(q)'
  BY DEF Sound
<1>1. UNCHANGED <<storage, pending, chain>> /\ operations[r] # None
  BY DEF ReconcileRead
<1>2. StillTrue /\ Secured(r)
  BY <1>1 DEF Sound, chain
<1>3. \A q \in Record : Secured(q)'
  BY <1>1, SecuredSame DEF storage
<1>4. PICK o \in Operation : o = operations[r].op
  BY <1>1, OpTypes
<1>5. /\ reconciling'.record = r
      /\ reconciling'.next = IF view = None THEN "unknown" ELSE Classify(o, view)
  BY <1>4 DEF ReconcileRead
<1>6. final.time \in Nat /\ DeadlineOf[o] \in Nat
  BY StoreAssumption DEF TypeStore, Blocks
<1>7. reconciling'.next \in Closed => ~Possible(o)
  BY <1>5, <1>6 DEF Classify, Closed, Possible, CanExecute, Spent
<1>8. reconciling'.next = "reserved" => Possible(o)
  BY <1>5, <1>6 DEF Classify, Possible, CanExecute, Spent
<1>9. StillTrue'
  BY <1>1, <1>2, <1>4, <1>5, <1>7, <1>8 DEF StillTrue, Secured, Possible, storage, chain
<1> QED BY <1>3, <1>9

\* Every step keeps the records sound.
LEMMA SoundStep == ASSUME TypeStore, TypeStore', Held, Sound, [Next]_vars PROVE Sound'
PROOF
<1>1. CASE UNCHANGED vars
  BY <1>1, SoundSame DEF vars, storage
<1>2. CASE ChainStep
  <2>1. UNCHANGED <<operations, activeReservations, pending, reconciling>>
    BY <1>2 DEF ChainStep, Block, EmptyBlock, Finalize, Reorganize, FinalizedReorganize, storage
  <2> QED BY <2>1, SoundSame
<1>3. CASE OperatorStep
  <2>1. CASE RestoreOldDatabase
    BY <2>1 DEF RestoreOldDatabase, Sound, StillTrue, Secured
  <2>2. CASE ~RestoreOldDatabase
    <3>1. UNCHANGED <<operations, activeReservations, pending, reconciling>>
      BY <1>3, <2>2 DEF OperatorStep, StopGate, BeginRestore, CompleteRestore, OpenGate, storage
    <3> QED BY <3>1, SoundSame
  <2> QED BY <2>1, <2>2
<1>4. ASSUME NEW c \in Client, NEW r \in Record, Get(c, r) \/ ReleaseRetry(c, r)
      PROVE  Sound'
  <2>1. UNCHANGED <<operations, activeReservations, pending, reconciling>>
    BY <1>4 DEF Get, ReleaseRetry, storage
  <2> QED BY <2>1, SoundSame
<1> QED BY <1>1, <1>2, <1>3, <1>4, SoundAsk, SoundPut, SoundRelease, SoundReconcile, SoundRead
        DEF Next, ClientStep
-----------------------------------------------------------------------------
(* Fresh.                                                                    *)

\* A record that moves on leaves what was seen of it seen.
LEMMA SeenStays ==
    ASSUME TypeStore, TypeStore', Kept, NEW r \in Record, NEW s \in Sight \cup {None},
           SeenOf(s, operations[r])
    PROVE  SeenOf(s, operations'[r])
PROOF
<1>1. CASE s # None
  <2>1. /\ operations[r] # None /\ operations'[r] # None
        /\ operations[r] \in Row /\ operations'[r] \in Row /\ s \in Sight
    BY <1>1 DEF SeenOf, Kept, TypeStore
  <2>2. s.revision \in Nat /\ operations[r].revision \in Nat /\ operations'[r].revision \in Nat
    BY <2>1 DEF Row, Sight
  <2> QED BY <1>1, <2>1, <2>2 DEF SeenOf, Kept
<1> QED BY <1>1 DEF SeenOf

\* The fields of a request in progress.
LEMMA RequestTypes ==
    ASSUME TypeStore, NEW c \in Client, pending[c] # None
    PROVE  pending[c].record \in Record /\ pending[c].base \in Sight \cup {None}
PROOF
<1>1. PICK q \in Request : q = pending[c]
  BY DEF TypeStore
<1> QED BY <1>1 DEF Request

\* Requests end, rows move on, and one client at most learns of the row it wrote or read.
LEMMA FreshKept ==
    ASSUME TypeStore, TypeStore', Fresh, Kept, gate.generation = 0,
           \A d \in Client : pending'[d] = pending[d] \/ pending'[d] = None,
           \A d \in Client, r \in Record :
               \/ known'[d][r] = known[d][r]
               \/ known'[d][r] = Seen(operations'[r]) /\ operations'[r] # None
    PROVE  Fresh'
PROOF
<1>1. ASSUME NEW d \in Client, NEW r \in Record PROVE SeenOf(known'[d][r], operations'[r])
  <2>1. known[d][r] \in Sight \cup {None} /\ SeenOf(known[d][r], operations[r])
    BY DEF TypeStore, Fresh
  <2>2. SeenOf(known[d][r], operations'[r])
    BY <2>1, SeenStays
  <2>3. ASSUME operations'[r] # None PROVE SeenOf(Seen(operations'[r]), operations'[r])
    <3>1. PICK row \in Row : row = operations'[r]
      BY <2>3 DEF TypeStore
    <3> QED BY <2>3, <3>1 DEF SeenOf, Seen, Row
  <2> QED BY <2>2, <2>3
<1>2. ASSUME NEW d \in Client, pending'[d] # None
      PROVE  /\ SeenOf(pending'[d].base, operations'[pending'[d].record])
             /\ pending'[d].base # None /\ pending'[d].call = "put" =>
                    pending'[d].base.facts \subseteq pending'[d].row.facts
  <2>1. pending'[d] = pending[d] /\ pending[d] # None
    BY <1>2
  <2>2. pending[d].record \in Record /\ pending[d].base \in Sight \cup {None}
    BY <2>1, RequestTypes
  <2>3. SeenOf(pending[d].base, operations'[pending[d].record])
    BY <2>1, <2>2, SeenStays DEF Fresh
  <2> QED BY <2>1, <2>3 DEF Fresh
<1> QED BY <1>1, <1>2 DEF Fresh

\* A request that is only asked keeps what clients know true.
LEMMA FreshAsk ==
    ASSUME TypeStore, Fresh, gate.generation = 0, NEW c \in Client, NEW r \in Record,
           \/ \E o \in Operation : PutNew(c, r, o)
           \/ \E sig \in BOOLEAN, more \in {<<>>, <<c>>} : PutChanged(c, r, sig, more)
           \/ ReleaseRead(c, r)
    PROVE  Fresh'
PROOF
<1>1. ASSUME NEW q, pending' = [pending EXCEPT ![c] = q], SeenOf(q.base, operations[q.record]),
             q.base # None /\ q.call = "put" => q.base.facts \subseteq q.row.facts,
             UNCHANGED <<storage, gate, known>>
      PROVE  Fresh'
  <2>1. \A d \in Client : pending'[d] = IF d = c THEN q ELSE pending[d]
    BY <1>1 DEF TypeStore
  <2> QED BY <1>1, <2>1 DEF Fresh, storage
<1>2. ASSUME NEW o \in Operation, PutNew(c, r, o) PROVE Fresh'
  <2>1. PICK q : q = [call |-> "put", gate |-> gate, record |-> r, base |-> None,
                      row |-> Seen(NewRow(o))]
    OBVIOUS
  <2>2. pending' = [pending EXCEPT ![c] = q] /\ UNCHANGED <<storage, gate, known>>
    BY <1>2, <2>1 DEF PutNew, clients
  <2>3. q.base = None /\ SeenOf(q.base, operations[q.record])
    BY <2>1 DEF SeenOf
  <2> QED BY <1>1, <2>2, <2>3
<1>3. ASSUME NEW sig \in BOOLEAN, NEW more \in {<<>>, <<c>>}, PutChanged(c, r, sig, more)
      PROVE  Fresh'
  <2>1. PICK s : s = known[c][r] /\ s \in Sight
    <3>1. known[c][r] # None
      BY <1>3 DEF PutChanged
    <3> QED BY <3>1 DEF TypeStore
  <2>2. PICK n : n = [s EXCEPT !.facts = NewFacts(c, s), !.signatureStarted = sig,
                               !.attempts = s.attempts \o more]
    OBVIOUS
  <2>3. s.facts \subseteq n.facts
    BY <2>1, <2>2 DEF NewFacts, Sight
  <2>4. PICK q : q = [call |-> "put", gate |-> gate, record |-> r, base |-> s, row |-> n]
    OBVIOUS
  <2>5. pending' = [pending EXCEPT ![c] = q] /\ UNCHANGED <<storage, gate, known>>
    BY <1>3, <2>1, <2>2, <2>4 DEF PutChanged, clients
  <2>6. SeenOf(s, operations[r])
    BY <2>1 DEF Fresh
  <2> QED BY <1>1, <2>3, <2>4, <2>5, <2>6
<1>4. CASE ReleaseRead(c, r)
  <2>1. PICK q : q = [call |-> "release", gate |-> gate, record |-> r, base |-> known[c][r],
                      point |-> Point]
    OBVIOUS
  <2>2. pending' = [pending EXCEPT ![c] = q] /\ UNCHANGED <<storage, gate, known>>
    BY <1>4, <2>1 DEF ReleaseRead, clients
  <2>3. q.base = known[c][r] /\ q.record = r /\ q.call = "release"
    BY <2>1
  <2>4. SeenOf(q.base, operations[q.record])
    BY <2>3 DEF Fresh
  <2> QED BY <1>1, <2>2, <2>3, <2>4
<1> QED BY <1>2, <1>3, <1>4

\* An answer shows the row that was written.
LEMMA KnownAcknowledged ==
    ASSUME TypeStore, NEW c \in Client, NEW q \in Record, NEW row, Acknowledge(c, row, q),
           operations'[q] = row, row # None
    PROVE  \A d \in Client, r \in Record :
               \/ known'[d][r] = known[d][r]
               \/ known'[d][r] = Seen(operations'[r]) /\ operations'[r] # None
PROOF BY DEF Acknowledge, TypeStore, clients

\* A commit keeps what clients know true.
LEMMA FreshCommit ==
    ASSUME TypeStore, TypeStore', Held, Fresh, gate.generation = 0, NEW c \in Client,
           PutCommit(c) \/ ReleaseCommit(c)
    PROVE  Fresh'
PROOF
<1>1. PICK p : p = pending[c]
  OBVIOUS
<1>2. Kept
  BY HeldPut, HeldRelease
<1>3. \A d \in Client : pending'[d] = pending[d] \/ pending'[d] = None
  BY PutOutcome, ReleaseOutcome DEF TypeStore
<1>4. ASSUME NEW q \in Record, NEW row, Acknowledge(c, row, q), operations'[q] = row, row # None
      PROVE  Fresh'
  BY <1>2, <1>3, <1>4, KnownAcknowledged, FreshKept
<1>5. CASE Refused
  BY <1>2, <1>3, <1>5, FreshKept DEF Refused, clients
<1>6. CASE PutCommit(c)
  <2>1. /\ p.record \in Record /\ p.row \in Sight
        /\ Refused \/ Created(c, p) \/ Repeated(c, p) \/ Changed(c, p)
    BY <1>1, <1>6, PutOutcome
  <2>2. CASE Created(c, p)
    BY <1>4, <2>1, <2>2, KeptCreated DEF Created
  <2>3. CASE Repeated(c, p)
    BY <1>4, <2>1, <2>3 DEF Repeated
  <2>4. CASE Changed(c, p)
    <3>1. PICK row : row = Updated(operations[p.record], p.row)
      OBVIOUS
    <3>2. operations'[p.record] = row /\ row # None
      BY <2>1, <2>4, <3>1, KeptChanged
    <3>3. Acknowledge(c, row, p.record)
      BY <2>4, <3>1 DEF Changed
    <3> QED BY <1>4, <2>1, <3>2, <3>3
  <2> QED BY <1>5, <2>1, <2>2, <2>3, <2>4
<1>7. CASE ReleaseCommit(c)
  <2>1. /\ p.record \in Record /\ p.base \in Sight /\ p.point \in Nat \X Nat
        /\ Refused \/ Freed(c, p)
    BY <1>1, <1>7, ReleaseOutcome
  <2>2. CASE Freed(c, p)
    <3>1. PICK row : row = ReleasedRow(c, operations[p.record], p.base, p.point)
      OBVIOUS
    <3>2. operations'[p.record] = row /\ row # None
      BY <2>1, <2>2, <3>1, KeptFreed
    <3>3. Acknowledge(c, row, p.record)
      BY <2>2, <3>1 DEF Freed
    <3> QED BY <1>4, <2>1, <3>2, <3>3
  <2> QED BY <1>5, <2>1, <2>2
<1> QED BY <1>6, <1>7

\* The operator acts only once the gate was stopped, which names a generation.
LEMMA FreshOperator == ASSUME TypeStore, OperatorStep PROVE gate'.generation # 0
PROOF
<1>1. gate.generation \in Nat /\ (gate.stopped => gate.generation > 0)
  BY DEF TypeStore, Gate
<1>2. CASE StopGate
  BY <1>1, <1>2 DEF StopGate
<1>3. CASE gate.stopped /\ gate'.generation = gate.generation
  BY <1>1, <1>3
<1>4. StopGate \/ (gate.stopped /\ gate'.generation = gate.generation)
  BY DEF OperatorStep, BeginRestore, RestoreOldDatabase, CompleteRestore, OpenGate, TypeStore,
         Gate
<1> QED BY <1>2, <1>3, <1>4

\* Every step keeps what clients know true.
LEMMA FreshStep == ASSUME TypeStore, TypeStore', Held, Fresh, [Next]_vars PROVE Fresh'
PROOF
<1> SUFFICES ASSUME gate'.generation = 0 PROVE Fresh'
  BY DEF Fresh
<1>1. CASE UNCHANGED <<operations, gate, known, pending>>
  BY <1>1 DEF Fresh
<1>2. CASE ChainStep
  BY <1>1, <1>2 DEF ChainStep, Block, EmptyBlock, Finalize, Reorganize, FinalizedReorganize,
                    storage, clients
<1>3. CASE OperatorStep
  BY <1>3, FreshOperator
<1>4. ASSUME NEW c \in Client, NEW r \in Record, Get(c, r) \/ ReleaseRetry(c, r)
      PROVE  Fresh'
  <2>1. /\ operations[r] # None /\ UNCHANGED <<operations, gate, pending>>
        /\ known' = [known EXCEPT ![c][r] = Seen(operations[r])]
    BY <1>4 DEF Get, ReleaseRetry, storage
  <2>2. \A d \in Client, q \in Record :
            \/ known'[d][q] = known[d][q]
            \/ known'[d][q] = Seen(operations'[q]) /\ operations'[q] # None
    BY <2>1 DEF TypeStore
  <2> QED BY <2>1, <2>2, KeptSame, FreshKept
<1>5. ASSUME NEW r \in Record, NEW view \in {final, None}, ReconcileRead(r, view)
      PROVE  Fresh'
  BY <1>1, <1>5 DEF ReconcileRead, storage, clients
<1>6. CASE ReconcileCommit
  <2>1. Kept /\ UNCHANGED <<gate, known, pending>>
    BY <1>6, HeldReconcile DEF ReconcileCommit, clients
  <2> QED BY <2>1, FreshKept
<1>7. ASSUME NEW c \in Client, PutCommit(c) \/ ReleaseCommit(c) PROVE Fresh'
  <2>1. gate' = gate
    BY <1>7 DEF PutCommit, ReleaseCommit
  <2> QED BY <1>7, <2>1, FreshCommit
<1>8. ASSUME NEW c \in Client, NEW r \in Record,
             \/ \E o \in Operation : PutNew(c, r, o)
             \/ \E sig \in BOOLEAN, more \in {<<>>, <<c>>} : PutChanged(c, r, sig, more)
             \/ ReleaseRead(c, r)
      PROVE  Fresh'
  <2>1. gate' = gate
    BY <1>8 DEF PutNew, PutChanged, ReleaseRead
  <2> QED BY <1>8, <2>1, FreshAsk
<1>9. CASE UNCHANGED vars
  BY <1>1, <1>9 DEF vars, storage, clients
<1> QED BY <1>2, <1>3, <1>4, <1>5, <1>6, <1>7, <1>8, <1>9 DEF Next, ClientStep
-----------------------------------------------------------------------------
(* The theorems.                                                             *)

\* The invariant holds initially.
LEMMA StoreInit == Init => IStore
PROOF
<1> SUFFICES ASSUME Init PROVE IStore
  OBVIOUS
<1>1. TypeStore
  BY DEF Init, TypeStore, Gate, Blocks
<1>2. \A i \in Input : activeReservations[i] = None
  BY DEF Init
<1>3. Held
  BY <1>2 DEF Init, Held
<1>4. Recorded
  BY DEF Init, Recorded, RecordsComplete
<1>5. Sound
  BY DEF Init, Sound, StillTrue, Secured
<1>6. Fresh
  BY DEF Init, Fresh, SeenOf
<1> QED BY <1>1, <1>3, <1>4, <1>5, <1>6 DEF IStore

\* Every step keeps the invariant.
LEMMA StoreStep == ASSUME IStore, [Next]_vars PROVE IStore'
PROOF
<1>1. TypeStore /\ Held /\ Recorded /\ Sound /\ Fresh
  BY DEF IStore
<1>2. TypeStore'
  BY <1>1, TypeStep
<1>3. Held' /\ Recorded' /\ Sound' /\ Fresh'
  BY <1>1, <1>2, HeldStep, RecordedStep, SoundStep, FreshStep
<1> QED BY <1>2, <1>3 DEF IStore

\* The invariant holds in every reachable state.
LEMMA StoreInvariant == Spec => []IStore
PROOF BY StoreInit, StoreStep, PTL DEF Spec

\* Whatever browsers, reconciliations, restores and reorganisations above the
\* finalized block do, two signed operations that could both still execute
\* never want one input (store.ts putOperation, api.ts release, recovery.ts).
THEOREM OneLiveOperation == Spec => []OneLiveAuthorization
PROOF
<1>1. IStore => OneLiveAuthorization
  BY Live DEF IStore
<1> QED BY <1>1, StoreInvariant, PTL

\* active_reservations and operations agree after every transaction.
THEOREM TablesAgree == Spec => []ReservationsAgree
PROOF
<1>1. ASSUME IStore PROVE ReservationsAgree
  <2>1. TypeStore /\ Held /\ Sound
    BY <1>1 DEF IStore
  <2>2. \A i \in Input : activeReservations[i] # None =>
            /\ operations[activeReservations[i]] # None
            /\ operations[activeReservations[i]].status \in Open
            /\ InputOf[operations[activeReservations[i]].op] = i
    BY <2>1 DEF Held
  <2>3. final.fork = 0 =>
            \A r \in Record : operations[r] # None /\ operations[r].status = "reserved" =>
                activeReservations[InputOf[operations[r].op]] = r
    BY <2>1 DEF Sound, Secured
  <2> QED BY <2>2, <2>3 DEF ReservationsAgree
<1> QED BY <1>1, StoreInvariant, PTL

\* No step reopens a closed record and leaves the environment healthy
\* (reconcile.ts reconcileOperation, store.ts putOperation).
THEOREM ClosedForGood == Spec => ClosedStaysClosed
PROOF
<1> DEFINE Stays ==
      \A r \in Record :
         operations[r] # None /\ operations'[r] # None /\ operations[r].status \in Closed =>
             \/ operations'[r].status = operations[r].status
             \/ environment'.status = "stopped"
<1>1. ASSUME IStore, [Next]_vars PROVE Stays
  <2>1. TypeStore /\ Held
    BY <1>1 DEF IStore
  <2>2. \A s \in Open : s \notin Closed
    BY DEF Open, Closed
  <2>3. ASSUME NEW c \in Client, PutCommit(c) PROVE Stays
    <3>1. PICK p : p = pending[c]
      OBVIOUS
    <3>2. /\ p.record \in Record /\ p.row \in Sight
          /\ Refused \/ Created(c, p) \/ Repeated(c, p) \/ Changed(c, p)
      BY <2>1, <2>3, <3>1, PutOutcome
    <3>3. CASE Created(c, p)
      BY <2>1, <3>2, <3>3, KeptCreated DEF Created
    <3>4. CASE Changed(c, p)
      BY <2>1, <3>2, <3>4, KeptChanged
    <3> QED BY <3>2, <3>3, <3>4 DEF Refused, Repeated
  <2>4. ASSUME NEW c \in Client, ReleaseCommit(c) PROVE Stays
    <3>1. PICK p : p = pending[c]
      OBVIOUS
    <3>2. /\ p.record \in Record /\ p.base \in Sight /\ p.point \in Nat \X Nat
          /\ Refused \/ Freed(c, p)
      BY <2>1, <2>4, <3>1, ReleaseOutcome
    <3>3. CASE Freed(c, p)
      BY <2>1, <2>2, <3>2, <3>3, KeptFreed
    <3> QED BY <3>2, <3>3 DEF Refused
  <2>5. CASE ReconcileCommit
    <3>1. PICK v : v = reconciling
      OBVIOUS
    <3>2. /\ v \in View /\ v.record \in Record /\ operations[v.record] \in Row
          /\ UNCHANGED storage \/ Contradicted(v) \/ Followed(v)
      BY <2>1, <2>5, <3>1, ReconcileOutcome
    <3>3. CASE Contradicted(v)
      <4>1. environment'.status = "stopped"
        BY <2>1, <3>3 DEF Contradicted, TypeStore
      <4> QED BY <4>1
    <3>4. CASE Followed(v)
      <4>2. \A r \in Record \ {v.record} : operations'[r] = operations[r]
        BY <2>1, <3>2, <3>4, KeptFollowed
      <4>3. operations[v.record].status \notin Closed
        BY <2>2, <3>4 DEF Followed
      <4> QED BY <4>2, <4>3
    <3> QED BY <3>2, <3>3, <3>4 DEF storage
  <2>6. CASE RestoreOldDatabase
    BY <2>6 DEF RestoreOldDatabase
  <2>7. CASE UNCHANGED operations
    BY <2>7
  <2>8. \/ \E c \in Client : PutCommit(c) \/ ReleaseCommit(c)
        \/ ReconcileCommit \/ RestoreOldDatabase \/ UNCHANGED operations
    BY <1>1, WhoWrites
  <2> QED BY <2>3, <2>4, <2>5, <2>6, <2>7, <2>8
<1> QED BY <1>1, StoreInvariant, PTL DEF Spec, ClosedStaysClosed

\* Until the first stop, no step drops a fact, a started signature or an
\* attempt from a record: the compared revision means that a client overwrites
\* only what it has read (store.ts putOperation, releaseOperation).
THEOREM FactsKept == Spec => NothingLost
PROOF
<1> DEFINE Keeps(r) ==
      operations[r] # None =>
         /\ operations'[r] # None
         /\ operations[r].facts \subseteq operations'[r].facts
         /\ (operations[r].signatureStarted => operations'[r].signatureStarted)
         /\ IsPrefix(operations[r].attempts, operations'[r].attempts)
<1>1. ASSUME IStore, [Next]_vars, gate.generation = 0 PROVE \A r \in Record : Keeps(r)
  <2>1. TypeStore /\ Held /\ Fresh
    BY <1>1 DEF IStore
  <2>2. ASSUME NEW r \in Record, operations'[r] = operations[r] PROVE Keeps(r)
    <3>1. operations[r] # None => operations[r].attempts \in Seq(Client)
      BY <2>1 DEF TypeStore, Row
    <3>2. operations[r] # None => IsPrefix(operations[r].attempts, operations[r].attempts)
      BY <3>1, LenProperties DEF IsPrefix
    <3> QED BY <2>2, <3>2
  <2>3. ASSUME NEW c \in Client, PutCommit(c) PROVE \A r \in Record : Keeps(r)
    <3>1. PICK p : p = pending[c]
      OBVIOUS
    <3>2. /\ p.record \in Record /\ p.row \in Sight /\ p.call = "put"
          /\ Refused \/ Created(c, p) \/ Repeated(c, p) \/ Changed(c, p)
      BY <2>1, <2>3, <3>1, PutOutcome
    <3>3. CASE Created(c, p)
      BY <2>1, <2>2, <3>2, <3>3, KeptCreated DEF Created
    <3>4. CASE Changed(c, p)
      <4>1. p # None /\ p.base # None
        BY <2>1, <2>3, <3>1, <3>2, <3>4, KeptChanged DEF PutCommit
      <4>2. /\ SeenOf(p.base, operations[p.record])
            /\ p.base.facts \subseteq p.row.facts
        BY <1>1, <2>1, <3>1, <3>2, <4>1 DEF Fresh
      <4>3. operations[p.record].facts \subseteq operations'[p.record].facts
        BY <2>1, <3>2, <3>4, <4>1, <4>2, KeptChanged DEF SeenOf
      <4>4. Keeps(p.record)
        BY <2>1, <3>2, <3>4, <4>3, KeptChanged
      <4> QED BY <2>1, <2>2, <3>2, <3>4, <4>4, KeptChanged
    <3> QED BY <2>2, <3>2, <3>3, <3>4 DEF Refused, Repeated
  <2>4. ASSUME NEW c \in Client, ReleaseCommit(c) PROVE \A r \in Record : Keeps(r)
    <3>1. PICK p : p = pending[c]
      OBVIOUS
    <3>2. /\ p.record \in Record /\ p.base \in Sight /\ p.point \in Nat \X Nat /\ p # None
          /\ Refused \/ Freed(c, p)
      BY <2>1, <2>4, <3>1, ReleaseOutcome
    <3>3. CASE Freed(c, p)
      <4>1. SeenOf(p.base, operations[p.record]) /\ p.base # None
        BY <1>1, <2>1, <3>1, <3>2, RowTypes DEF Fresh
      <4>2. operations[p.record].facts \subseteq operations'[p.record].facts
        BY <2>1, <3>2, <3>3, <4>1, KeptFreed DEF SeenOf, NewFacts
      <4>3. IsPrefix(operations[p.record].attempts, operations'[p.record].attempts)
        <5>1. operations[p.record].attempts \in Seq(Client)
          BY <2>1, <3>2, <3>3, KeptFreed DEF Row
        <5> QED BY <2>1, <3>2, <3>3, <5>1, KeptFreed, LenProperties DEF IsPrefix
      <4>4. Keeps(p.record)
        BY <2>1, <3>2, <3>3, <4>2, <4>3, KeptFreed
      <4> QED BY <2>1, <2>2, <3>2, <3>3, <4>4, KeptFreed
    <3> QED BY <2>2, <3>2, <3>3 DEF Refused
  <2>5. CASE ReconcileCommit
    <3>1. PICK v : v = reconciling
      OBVIOUS
    <3>2. /\ v \in View /\ v.record \in Record /\ operations[v.record] \in Row
          /\ UNCHANGED storage \/ Contradicted(v) \/ Followed(v)
      BY <2>1, <2>5, <3>1, ReconcileOutcome
    <3>3. v.next \in Open \cup Closed /\ v.point \in (Nat \X Nat) \cup {None}
      BY <3>2 DEF View
    <3>4. ASSUME NEW status \in Open \cup Closed, NEW point \in (Nat \X Nat) \cup {None},
                 operations' = [operations EXCEPT ![v.record] =
                                    Moved(operations[v.record], status, point)]
          PROVE  \A r \in Record : Keeps(r)
      <4>1. operations[v.record].attempts \in Seq(Client)
        BY <3>2 DEF Row
      <4>2. IsPrefix(operations[v.record].attempts, operations[v.record].attempts)
        BY <4>1, LenProperties DEF IsPrefix
      <4>3. Keeps(v.record)
        BY <2>1, <3>2, <3>4, <4>2, KeptMoved
      <4> QED BY <2>1, <2>2, <3>2, <3>4, <4>3, KeptMoved
    <3>5. CASE Contradicted(v)
      BY <3>4, <3>5 DEF Contradicted, Open
    <3>6. CASE Followed(v)
      BY <3>3, <3>4, <3>6 DEF Followed, Move
    <3> QED BY <2>2, <3>2, <3>5, <3>6 DEF storage
  <2>6. ~RestoreOldDatabase
    BY <1>1, <2>1 DEF RestoreOldDatabase, TypeStore
  <2>7. \/ \E c \in Client : PutCommit(c) \/ ReleaseCommit(c)
        \/ ReconcileCommit \/ RestoreOldDatabase \/ UNCHANGED operations
    BY <1>1, WhoWrites
  <2> QED BY <2>2, <2>3, <2>4, <2>5, <2>6, <2>7
<1> QED BY <1>1, StoreInvariant, PTL DEF Spec, NothingLost
=============================================================================
