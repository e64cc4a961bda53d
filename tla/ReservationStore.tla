-------------------------- MODULE ReservationStore --------------------------
(***************************************************************************)
(* apps/uniswap-service/src: the Durable Object's reservations (store.ts,   *)
(* reconcile.ts, recovery.ts and the routes of durable-object.ts), used by  *)
(* several browsers of one owner.  A handler is split where it awaits the   *)
(* chain: everything between two awaits, and a transactionSync, is one step.*)
(*                                                                          *)
(* An operation fixes its input, kind and deadline, so sameImmutable is     *)
(* equality of operations.  The encrypted bundle is the set of facts its    *)
(* author knew; a new nonce is a new fact.                                  *)
(***************************************************************************)
EXTENDS Integers, Sequences, FiniteSets, SequencesExt

CONSTANTS
    Client,     \* browsers and tabs
    Record,     \* record ids
    Operation,  \* operations a record may be for
    Foreign,    \* operations submitted without a reservation (the CLI, another wallet)
    InputOf,    \* operation -> the input it consumes
    DeadlineOf, \* operation -> the deadline of a Pay, 0 for a Withdraw
    MaxTime,    \* bound: block time
    MaxRevision,\* bound: revisions of a record that clients go on from
    MaxVersion, \* bound: state versions of a record that reconciliation goes on from
    MaxForks,   \* bound: reorganisations below the finalized block
    MaxStops,   \* bound: operator stops
    None

Input == {InputOf[o] : o \in Operation \cup Foreign}
IsPay(o) == DeadlineOf[o] # 0

Open == {"reserved", "unknown"}
Closed == {"released", "consumed", "finalized-success"}

\* Table operations, what a client knows of a row, and a request it sends.
Sight == [op : Operation, facts : SUBSET (Client \X Nat), signatureStarted : BOOLEAN,
          attempts : Seq(Client), revision : Nat]
Row == [op : Operation, facts : SUBSET (Client \X Nat), signatureStarted : BOOLEAN,
        attempts : Seq(Client), revision : Nat, stateVersion : Nat,
        status : Open \cup Closed, checkpoint : (Nat \X Nat) \cup {None}]
Gate == [generation : Nat, stopped : BOOLEAN]
Request == [call : {"put"}, gate : Gate, record : Record, base : Sight \cup {None}, row : Sight]
           \cup [call : {"release"}, gate : Gate, record : Record, base : Sight,
                 point : Nat \X Nat]
View == [record : Record, gate : Gate, revision : Nat, stateVersion : Nat,
         next : Open \cup Closed, point : (Nat \X Nat) \cup {None}]

ASSUME StoreAssumption ==
    /\ Operation \cap Foreign = {}
    /\ DeadlineOf \in [Operation \cup Foreign -> Nat]
    /\ DOMAIN InputOf = Operation \cup Foreign
    /\ None \notin Record \cup Operation \cup Sight \cup Row \cup Request \cup View
    /\ {MaxTime, MaxRevision, MaxVersion, MaxForks, MaxStops} \subseteq Nat

VARIABLES
    operations,         \* Record -> row, or None
    activeReservations, \* Input -> the record that holds it, or None
    environment,        \* environment_state: status, generation, reason
    gate,               \* the external RecoveryGate: generation, stopped
    known,              \* Client -> Record -> what it last saw of the row, or None
    signed,             \* operations whose wallet signatures may exist
    pending,            \* Client -> the request awaiting the chain, or None
    reconciling,        \* the reconcileOperation awaiting its view, or None
    final,              \* the finalized block: time, fork, operations executed up to it
    tip                 \* the latest block: time, operations executed up to it

storage == <<operations, activeReservations, environment>>
clients == <<known, signed>>
chain == <<final, tip>>
vars == <<storage, gate, clients, pending, reconciling, chain>>

Spent(exec, input) == \E o \in exec : InputOf[o] = input
Point == <<final.time, final.fork>>

\* A variant: the generation is not compared.
WritableAnyGeneration(g) == ~g.stopped /\ environment.status = "healthy"

\* recovery.ts ensureWritable, of the gate the handler resolved when it started.
Writable(g) ==
    /\ ~g.stopped
    /\ environment.status = "healthy"
    /\ environment.generation = g.generation

\* After initializeEnvironment.
Init ==
    /\ operations = [r \in Record |-> None]
    /\ activeReservations = [i \in Input |-> None]
    /\ environment = [status |-> "healthy", generation |-> 0, reason |-> None]
    /\ gate = [generation |-> 0, stopped |-> FALSE]
    /\ known = [c \in Client |-> [r \in Record |-> None]]
    /\ signed = {}
    /\ pending = [c \in Client |-> None]
    /\ reconciling = None
    /\ final = [time |-> 0, fork |-> 0, executed |-> {}]
    /\ tip = [time |-> 0, executed |-> {}]

-----------------------------------------------------------------------------
(* The chain, as the service sees it.  A Pay executes at or before its       *)
(* deadline (UniswapPaymentAdapter), an input is consumed once (Pool).       *)

CanExecute(o, time, executed) ==
    /\ ~Spent(executed, InputOf[o])
    /\ IsPay(o) => time <= DeadlineOf[o]

Block(o) ==
    /\ tip.time < MaxTime
    /\ o \in Foreign \cup signed
    /\ CanExecute(o, tip.time + 1, tip.executed)
    /\ tip' = [time |-> tip.time + 1, executed |-> tip.executed \cup {o}]
    /\ UNCHANGED <<storage, gate, clients, pending, reconciling, final>>

EmptyBlock ==
    /\ tip.time < MaxTime
    /\ tip' = [tip EXCEPT !.time = @ + 1]
    /\ UNCHANGED <<storage, gate, clients, pending, reconciling, final>>

Finalize ==
    /\ final.time < tip.time
    /\ final' = [final EXCEPT !.time = tip.time, !.executed = tip.executed]
    /\ UNCHANGED <<storage, gate, clients, pending, reconciling, tip>>

Reorganize ==
    /\ final.time < tip.time
    /\ tip' = [time |-> final.time, executed |-> final.executed]
    /\ UNCHANGED <<storage, gate, clients, pending, reconciling, final>>

\* The case the closed states of reconcileOperation guard against.
FinalizedReorganize ==
    /\ final.fork < MaxForks /\ final.time > 0
    /\ final' = [time |-> final.time - 1, fork |-> final.fork + 1, executed |-> {}]
    /\ tip' = [time |-> final.time - 1, executed |-> {}]
    /\ UNCHANGED <<storage, gate, clients, pending, reconciling>>

-----------------------------------------------------------------------------
(* PUT /v1/operations/{id}: store.ts putOperation.  A request carries the    *)
(* row its sender last saw (base, None for a new record) and what it sets.   *)

\* core-reader.ts readInput: unspent at the finalized and at the latest block.
OwnedUnspent(input) == ~Spent(final.executed, input) /\ ~Spent(tip.executed, input)

NewRow(o) == [op |-> o, facts |-> {}, signatureStarted |-> FALSE, attempts |-> <<>>,
              revision |-> 1, stateVersion |-> 1, status |-> "reserved", checkpoint |-> None]

\* What of a row a client's next request depends on.
Seen(row) == [op |-> row.op, facts |-> row.facts, signatureStarted |-> row.signatureStarted,
              attempts |-> row.attempts, revision |-> row.revision]

\* The response reaches the client, which then asks for signatures if the
\* acknowledged row says they were started, or it is lost.
Acknowledge(c, row, r) ==
    \/ /\ known' = [known EXCEPT ![c][r] = Seen(row)]
       /\ signed' = signed \cup (IF row.signatureStarted THEN {row.op} ELSE {})
    \/ UNCHANGED clients

\* The bundle a client writes: what it read, and a new fact under a new nonce.
NewFacts(c, base) == base.facts \cup {<<c, base.revision>>}

PutNew(c, r, o) ==
    /\ pending[c] = None
    /\ Writable(gate)
    /\ operations[r] = None /\ known[c][r] = None
    /\ OwnedUnspent(InputOf[o])
    /\ pending' = [pending EXCEPT ![c] =
          [call |-> "put", gate |-> gate, record |-> r, base |-> None, row |-> Seen(NewRow(o))]]
    /\ UNCHANGED <<storage, gate, clients, reconciling, chain>>

PutChanged(c, r, sig, more) ==
    /\ pending[c] = None
    /\ Writable(gate)
    /\ known[c][r] # None /\ operations[r] # None
    /\ known[c][r].revision < MaxRevision
    /\ more # <<>> => sig
    /\ pending' = [pending EXCEPT ![c] =
          [call |-> "put", gate |-> gate, record |-> r, base |-> known[c][r],
           row |-> [known[c][r] EXCEPT !.facts = NewFacts(c, known[c][r]),
                                       !.signatureStarted = sig, !.attempts = @ \o more]]]
    /\ UNCHANGED <<storage, gate, clients, reconciling, chain>>

SameMutable(a, b) ==
    /\ a.facts = b.facts
    /\ a.signatureStarted = b.signatureStarted
    /\ a.attempts = b.attempts

\* A variant: an update is not compared with the stored revision.
CurrentRevisionUnchecked(row, base) == base # None

CurrentRevision(row, base) == base # None /\ row.revision = base.revision

\* What a stored row lets an update change.
Updatable(row, new, base) ==
    /\ row.status \in Open
    /\ CurrentRevision(row, base)
    /\ row.signatureStarted => new.signatureStarted
    /\ IsPrefix(row.attempts, new.attempts)
    /\ row.facts # new.facts

Updated(row, new) ==
    [row EXCEPT !.facts = new.facts, !.signatureStarted = new.signatureStarted,
                !.attempts = new.attempts, !.revision = @ + 1]

\* A variant: nobody looks up who holds the input.
UnreservedUnchecked(input) == input \in Input

Unreserved(input) == activeReservations[input] = None

\* The transaction.  Refused requests change nothing.
PutCommit(c) ==
    /\ pending[c] # None /\ pending[c].call = "put"
    /\ pending' = [pending EXCEPT ![c] = None]
    /\ LET r == pending[c].record
           new == pending[c].row
           row == operations[r]
       IN IF ~Writable(pending[c].gate) THEN UNCHANGED <<operations, activeReservations, clients>>
          ELSE IF row = None
          THEN IF pending[c].base = None /\ Unreserved(InputOf[new.op])
               THEN /\ operations' = [operations EXCEPT ![r] = NewRow(new.op)]
                    /\ activeReservations' = [activeReservations EXCEPT ![InputOf[new.op]] = r]
                    /\ Acknowledge(c, NewRow(new.op), r)
               ELSE UNCHANGED <<operations, activeReservations, clients>>
          ELSE /\ UNCHANGED activeReservations
               /\ IF row.op = new.op /\ SameMutable(row, new)
                  THEN UNCHANGED operations /\ Acknowledge(c, row, r)
                  ELSE IF row.op = new.op /\ Updatable(row, new, pending[c].base)
                  THEN /\ operations' = [operations EXCEPT ![r] = Updated(row, new)]
                       /\ Acknowledge(c, Updated(row, new), r)
                  ELSE UNCHANGED <<operations, clients>>
    /\ UNCHANGED <<environment, gate, reconciling, chain>>

\* GET /v1/operations/{id}: also the re-read after a lost acknowledgement.
Get(c, r) ==
    /\ pending[c] = None
    /\ operations[r] # None
    /\ known' = [known EXCEPT ![c][r] = Seen(operations[r])]
    /\ UNCHANGED <<storage, gate, signed, pending, reconciling, chain>>

-----------------------------------------------------------------------------
(* POST /v1/operations/{id}/release.                                         *)

\* A variant: the deadline is compared with the latest block.
ExpiredAtTip(o) == tip.time > DeadlineOf[o]

Expired(o) == final.time > DeadlineOf[o]

\* The route's evidence, at one finalized block.
ReleaseEvidence(o) ==
    /\ IsPay(o)
    /\ Expired(o)
    /\ o \notin final.executed
    /\ OwnedUnspent(InputOf[o])

ReleaseRead(c, r) ==
    /\ pending[c] = None
    /\ Writable(gate)
    /\ known[c][r] # None /\ operations[r] # None
    /\ operations[r].status # "released"
    /\ ReleaseEvidence(operations[r].op)
    /\ pending' = [pending EXCEPT ![c] =
          [call |-> "release", gate |-> gate, record |-> r, base |-> known[c][r], point |-> Point]]
    /\ UNCHANGED <<storage, gate, clients, reconciling, chain>>

\* The row as releaseOperation writes it.
ReleasedRow(c, row, base, point) ==
    [row EXCEPT !.facts = NewFacts(c, base), !.revision = @ + 1, !.stateVersion = @ + 1,
                !.status = "released", !.checkpoint = point]

Releasable(r, row, base) ==
    /\ row # None
    /\ row.status \in Open
    /\ row.op = base.op
    /\ row.signatureStarted = base.signatureStarted /\ row.attempts = base.attempts
    /\ CurrentRevision(row, base)
    /\ activeReservations[InputOf[row.op]] = r

ReleaseCommit(c) ==
    /\ pending[c] # None /\ pending[c].call = "release"
    /\ pending' = [pending EXCEPT ![c] = None]
    /\ LET r == pending[c].record
           row == operations[r]
           new == ReleasedRow(c, row, pending[c].base, pending[c].point)
       IN IF Writable(pending[c].gate) /\ Releasable(r, row, pending[c].base)
          THEN /\ operations' = [operations EXCEPT ![r] = new]
               /\ activeReservations' = [activeReservations EXCEPT ![InputOf[row.op]] = None]
               /\ Acknowledge(c, new, r)
          ELSE UNCHANGED <<operations, activeReservations, clients>>
    /\ UNCHANGED <<environment, gate, reconciling, chain>>

\* The same release sent again after its acknowledgement was lost.
ReleaseRetry(c, r) ==
    /\ pending[c] = None
    /\ Writable(gate)
    /\ known[c][r] # None /\ operations[r] # None
    /\ operations[r].status = "released"
    /\ operations[r].revision = known[c][r].revision + 1
    /\ SameMutable(operations[r], [known[c][r] EXCEPT !.facts = NewFacts(c, known[c][r])])
    /\ known' = [known EXCEPT ![c][r] = Seen(operations[r])]
    /\ UNCHANGED <<storage, gate, signed, pending, reconciling, chain>>

-----------------------------------------------------------------------------
(* reconcile.ts reconcileOperation.                                          *)

\* classify, on a view whose parts are of one block.
Classify(o, view) ==
    IF o \in view.executed THEN "finalized-success"
    ELSE IF Spent(view.executed, InputOf[o]) THEN "consumed"
    ELSE IF IsPay(o) /\ view.time > DeadlineOf[o] THEN "released"
    ELSE "reserved"

\* The view may be unavailable (None); one that mixes blocks is as good as none.
ReconcileRead(r, view) ==
    /\ reconciling = None
    /\ operations[r] # None
    /\ operations[r].stateVersion < MaxVersion
    /\ reconciling' = [record |-> r, gate |-> gate,
                       revision |-> operations[r].revision, stateVersion |-> operations[r].stateVersion,
                       next |-> IF view = None THEN "unknown" ELSE Classify(operations[r].op, view),
                       point |-> IF view = None THEN None ELSE Point]
    /\ UNCHANGED <<storage, gate, clients, pending, chain>>

\* A closed record that a later view contradicts.
Conflicting(row, next, point) ==
    /\ point # None
    /\ \/ row.checkpoint[1] = point[1] /\ row.checkpoint[2] # point[2]
       \/ next # row.status

Moved(row, status, point) ==
    [row EXCEPT !.status = status, !.stateVersion = @ + 1, !.checkpoint = point]

\* A variant: the contradicted record is reopened and the service goes on.
ReopenOnConflict(r, row) ==
    /\ operations' = [operations EXCEPT ![r] = Moved(row, "unknown", None)]
    /\ UNCHANGED <<activeReservations, environment>>

StopOnConflict(r, row) ==
    /\ environment' = [environment EXCEPT !.status = "stopped", !.reason = "finalized-reorg"]
    /\ operations' = [operations EXCEPT ![r] = Moved(row, "unknown", None)]
    /\ UNCHANGED activeReservations

Move(r, row, next, point) ==
    /\ operations' = [operations EXCEPT ![r] = Moved(row, next, point)]
    /\ activeReservations' =
          [i \in Input |-> IF next \in Closed /\ activeReservations[i] = r
                           THEN None ELSE activeReservations[i]]
    /\ UNCHANGED environment

ReconcileCommit ==
    /\ reconciling # None
    /\ reconciling' = None
    /\ LET r == reconciling.record
           row == operations[r]
           next == reconciling.next
           point == reconciling.point
       IN IF \/ ~Writable(reconciling.gate)
             \/ row.stateVersion # reconciling.stateVersion
             \/ row.revision # reconciling.revision
          THEN UNCHANGED storage
          ELSE IF row.status \in Closed
          THEN IF Conflicting(row, next, point) THEN StopOnConflict(r, row) ELSE UNCHANGED storage
          ELSE IF next = row.status /\ row.checkpoint = point
          THEN UNCHANGED storage
          ELSE Move(r, row, next, point)
    /\ UNCHANGED <<gate, clients, pending, chain>>

-----------------------------------------------------------------------------
(* recovery.ts, and the operator who runs it.  A stop names a new generation.*)

StopGate ==
    /\ gate.generation < MaxStops
    /\ gate' = [generation |-> gate.generation + 1, stopped |-> TRUE]
    /\ UNCHANGED <<storage, clients, pending, reconciling, chain>>

BeginRestore ==
    /\ gate.stopped
    /\ environment' = [environment EXCEPT !.status = "stopped", !.reason = "restore"]
    /\ UNCHANGED <<operations, activeReservations, gate, clients, pending, reconciling, chain>>

\* The database goes back to a point in time, here the first one; the object
\* restarts, so handlers in progress are gone.
RestoreOldDatabase ==
    /\ gate.stopped /\ environment.status = "stopped"
    /\ operations' = [r \in Record |-> None]
    /\ activeReservations' = [i \in Input |-> None]
    /\ environment' = [status |-> "healthy", generation |-> 0, reason |-> None]
    /\ pending' = [c \in Client |-> None]
    /\ reconciling' = None
    /\ UNCHANGED <<gate, clients, chain>>

\* The operator's evidence: every operation acknowledged as being signed is there.
RecordsComplete ==
    \A o \in signed : \E r \in Record :
        operations[r] # None /\ operations[r].op = o /\ operations[r].signatureStarted

CompleteRestore ==
    /\ gate.stopped
    /\ RecordsComplete
    /\ environment' = [status |-> "healthy", generation |-> gate.generation, reason |-> None]
    /\ UNCHANGED <<operations, activeReservations, gate, clients, pending, reconciling, chain>>

OpenGate ==
    /\ gate.stopped
    /\ gate' = [gate EXCEPT !.stopped = FALSE]
    /\ UNCHANGED <<storage, clients, pending, reconciling, chain>>

-----------------------------------------------------------------------------
ClientStep(c) ==
    \/ \E r \in Record, o \in Operation : PutNew(c, r, o)
    \/ \E r \in Record, sig \in BOOLEAN, more \in {<<>>, <<c>>} : PutChanged(c, r, sig, more)
    \/ PutCommit(c)
    \/ \E r \in Record : Get(c, r) \/ ReleaseRead(c, r) \/ ReleaseRetry(c, r)
    \/ ReleaseCommit(c)

ChainStep ==
    \/ \E o \in Operation \cup Foreign : Block(o)
    \/ EmptyBlock \/ Finalize \/ Reorganize \/ FinalizedReorganize

OperatorStep == StopGate \/ BeginRestore \/ RestoreOldDatabase \/ CompleteRestore \/ OpenGate

Next ==
    \/ \E c \in Client : ClientStep(c)
    \/ \E r \in Record, view \in {final, None} : ReconcileRead(r, view)
    \/ ReconcileCommit
    \/ ChainStep
    \/ OperatorStep

Spec == Init /\ [][Next]_vars

-----------------------------------------------------------------------------
\* Two browsers never get as far as signing two operations on one input that
\* some extension of the finalized chain could still execute either of: the
\* reservation is stored before the signature, expiry is judged on finalized
\* history only, and a restored old database takes no reservations.
OneLiveAuthorization ==
    final.fork = 0 =>
        \A o1, o2 \in signed :
            /\ CanExecute(o1, final.time + 1, final.executed)
            /\ CanExecute(o2, final.time + 1, final.executed)
            /\ o1 # o2
            => InputOf[o1] # InputOf[o2]

\* active_reservations and the records agree: an input is held by an open
\* record for it, and a reserved record holds its input, whichever of PUT,
\* release and reconcile moved it there.
ReservationsAgree ==
    /\ \A i \in Input : activeReservations[i] # None =>
          /\ operations[activeReservations[i]] # None
          /\ operations[activeReservations[i]].status \in Open
          /\ InputOf[operations[activeReservations[i]].op] = i
    /\ final.fork = 0 =>
          \A r \in Record : operations[r] # None /\ operations[r].status = "reserved" =>
              activeReservations[InputOf[operations[r].op]] = r

\* In a database that was never restored no acknowledged fact is lost: whatever a client wrote
\* into a record's bundle, a started signature and known attempts stay in it,
\* although clients write whole bundles from copies they read earlier.
NothingLost ==
    [][gate.generation = 0 =>
         \A r \in Record : operations[r] # None =>
             /\ operations'[r] # None
             /\ operations[r].facts \subseteq operations'[r].facts
             /\ (operations[r].signatureStarted => operations'[r].signatureStarted)
             /\ IsPrefix(operations[r].attempts, operations'[r].attempts)]_vars

\* A record that was closed (released, consumed, succeeded), on which other
\* records and other clients rely, is reopened only together with stopping the
\* whole environment, whatever reconciliation reads later.
ClosedStaysClosed ==
    [][\A r \in Record :
         operations[r] # None /\ operations'[r] # None /\ operations[r].status \in Closed =>
             \/ operations'[r].status = operations[r].status
             \/ environment'.status = "stopped"]_vars

\* What the reason recorded by reconcileOperation says: the environment is
\* stopped for a finalized reorganisation only if there was one.
StopMeansReorg == environment.reason = "finalized-reorg" => final.fork > 0
=============================================================================
