----------------------------- MODULE HistorySync -----------------------------
(***************************************************************************)
(* packages/core/src/sync.ts (synchronize) and tracking.ts (preflight,      *)
(* prepareSubmission) over packages/ethereum/src/history.ts and rpc.ts: the *)
(* wallet rebuilds its coins from the pool's logs, one RPC read at a time,  *)
(* while the node's answers move from one fork to another.                  *)
(*                                                                          *)
(* A block is told apart by the history up to it, so a block hash is a      *)
(* prefix of the chain.  A block holds at most one operation of the pool;   *)
(* the order of logs inside a block, keys and receipts are left out.        *)
(***************************************************************************)
EXTENDS Integers, Sequences, FiniteSets, SequencesExt

CONSTANTS
    Op,          \* operations of the pool
    Consumes,    \* Op -> the coins it consumes
    Creates,     \* Op -> the coins it creates
    Draft,       \* the signed operation the owner prepares to submit
    Empty,       \* a block without an operation
    MaxBlocks,   \* bound: length of a chain
    MaxForks     \* bound: times the node changes to another fork

ASSUME HistoryAssumption ==
    /\ Draft \in Op /\ Empty \notin Op /\ MaxBlocks \in Nat \ {0} /\ MaxForks \in Nat
    /\ DOMAIN Consumes = Op /\ DOMAIN Creates = Op

VARIABLES
    chain,      \* the canonical chain, as the node shows it now
    dead,       \* blocks that were replaced, until one returns
    returned,   \* a replaced block has become canonical again
    forks,      \* changes of fork so far
    task,       \* the call in progress
    synced,     \* result of synchronize
    prepared    \* result of prepareSubmission

varsHistory == <<chain, dead, returned, forks, task, synced, prepared>>

-----------------------------------------------------------------------------
(* The chain and the pool's state in it.                                     *)

OpsIn(c) == {c[n] : n \in DOMAIN c} \ {Empty}
Made(ops) == UNION {Creates[o] : o \in ops}
Gone(ops) == UNION {Consumes[o] : o \in ops}

\* What the pool accepts: no operation twice, inputs made before and unspent.
Replays(c) ==
    \A n \in DOMAIN c : c[n] # Empty =>
        LET before == OpsIn(SubSeq(c, 1, n - 1))
        IN c[n] \notin before /\ Consumes[c[n]] \subseteq Made(before) \ Gone(before)

Histories == {c \in UNION {[1..n -> Op \cup {Empty}] : n \in 1..MaxBlocks} : Replays(c)}
Blocks(c) == {SubSeq(c, 1, n) : n \in DOMAIN c}
At(c, n) == SubSeq(c, 1, n)

\* point: the finalized (or local-simulated) checkpoint, or the latest header.
NoTask == [call |-> "none", pc |-> "none", point |-> <<>>, from |-> 1, logs |-> {}, left |-> <<>>,
           read |-> "start", got |-> <<>>, executed |-> FALSE, spent |-> FALSE]
NoResult == [status |-> "none", point |-> <<>>, available |-> {}]

InitHistory ==
    /\ chain \in {c \in Histories : Len(c) = 1}
    /\ dead = {} /\ returned = FALSE /\ forks = 0
    /\ task = NoTask /\ synced = NoResult /\ prepared = NoResult

Extend ==
    /\ Len(chain) < MaxBlocks
    /\ \E b \in Op \cup {Empty} : Append(chain, b) \in Histories /\ chain' = Append(chain, b)
    /\ returned' = (returned \/ chain' \in dead)
    /\ dead' = IF returned' THEN {} ELSE dead
    /\ UNCHANGED <<forks, task, synced, prepared>>

\* A reorganization, or an answer from a node on another fork.
Fork ==
    /\ forks < MaxForks /\ forks' = forks + 1
    /\ \E new \in Histories :
          /\ Len(new) >= Len(chain) /\ ~IsPrefix(chain, new)
          /\ chain' = new
          /\ returned' = (returned \/ Blocks(new) \cap dead # {})
          /\ dead' = IF returned' THEN {} ELSE dead \cup (Blocks(chain) \ Blocks(new))
    /\ UNCHANGED <<task, synced, prepared>>

-----------------------------------------------------------------------------
(* The steps of both calls, each with the header checks it waits for.        *)

Following(t) ==
    CASE t.pc = "anchor" -> "executed"
      [] t.pc = "before" -> "pages"
      [] t.pc = "headers" -> "after"
      [] t.pc = "after" -> IF t.call = "sync" THEN "replay" ELSE "inputs"
      [] t.pc = "replay" -> "coins"

LogBlocks(t) == SetToSortSeq({Len(b) : b \in t.logs}, <)

Onto(t, pc) ==
    [t EXCEPT !.pc = pc, !.read = "start",
              !.left = IF pc \in {"headers", "replay"} THEN LogBlocks(t)
                       ELSE IF pc \in {"before", "after", "end"} THEN <<Len(t.point)>>
                       ELSE IF pc = "anchor" THEN <<Len(synced.point)>> ELSE <<>>]

\* A variant: the block at the checkpoint's height will do.
SameHeight == Len(chain) >= Len(task.point)

PointCanonical == At(chain, Len(task.point)) = task.point

\* canonicalHeader reads the checkpoint's block, the header, and the
\* checkpoint's block again.  (The context's check is the same as "before".)
HeaderStart ==
    /\ task.left # <<>> /\ task.read = "start" /\ PointCanonical
    /\ task' = IF Head(task.left) = Len(task.point)
               THEN [task EXCEPT !.read = "end", !.got = task.point]
               ELSE [task EXCEPT !.read = "header"]
    /\ UNCHANGED <<chain, dead, returned, forks, synced, prepared>>

HeaderRead ==
    /\ task.left # <<>> /\ task.read = "header"
    /\ task' = [task EXCEPT !.read = "end", !.got = At(chain, Head(task.left))]
    /\ UNCHANGED <<chain, dead, returned, forks, synced, prepared>>

\* What the header read must be: the block that a log or the anchor names.
AsRecorded ==
    /\ task.pc \in {"headers", "replay"} => task.got \in task.logs
    /\ task.pc = "anchor" => task.got = synced.point

HeaderEnd ==
    /\ task.left # <<>> /\ task.read = "end" /\ PointCanonical /\ AsRecorded
    /\ task' = [task EXCEPT !.read = "start", !.left = Tail(@), !.got = <<>>]
    /\ UNCHANGED <<chain, dead, returned, forks, synced, prepared>>

ChecksDone ==
    /\ task.pc \in {"anchor", "before", "headers", "after", "replay"} /\ task.left = <<>>
    /\ task' = Onto(task, Following(task))
    /\ UNCHANGED <<chain, dead, returned, forks, synced, prepared>>

\* One eth_getLogs over any further range: pages are halved until the node answers.
ReadPage ==
    /\ task.pc = "pages" /\ task.from <= Len(task.point)
    /\ \E to \in task.from..Len(task.point) :
          task' = [task EXCEPT !.from = to + 1,
                     !.logs = @ \cup {At(chain, n) : n \in {k \in task.from..to : chain[k] # Empty}}]
    /\ UNCHANGED <<chain, dead, returned, forks, synced, prepared>>

PagesDone ==
    /\ task.pc = "pages" /\ task.from > Len(task.point)
    /\ task' = Onto(task, "headers")
    /\ UNCHANGED <<chain, dead, returned, forks, synced, prepared>>

\* An RPC error, a time-out or a check that does not hold ends the call.
Fail ==
    /\ task.call # "none"
    /\ task' = NoTask
    /\ IF task.call = "sync"
       THEN synced' = [NoResult EXCEPT !.status = "unconfirmed"] /\ UNCHANGED prepared
       ELSE prepared' = [NoResult EXCEPT !.status = "unconfirmed"] /\ UNCHANGED synced
    /\ UNCHANGED <<chain, dead, returned, forks>>

\* A variant: the call names no block.
LatestState == OpsIn(chain)

\* eth_call by block hash with requireCanonical: the state at the checkpoint,
\* or an error.
PinnedState == OpsIn(task.point)

Listed == {Last(b) : b \in task.logs}
ListedInOrder == [i \in DOMAIN LogBlocks(task) |->
    CHOOSE o \in Listed : \E b \in task.logs : Len(b) = LogBlocks(task)[i] /\ Last(b) = o]

-----------------------------------------------------------------------------
(* synchronize.                                                              *)

StartSync ==
    /\ task.call = "none" /\ synced.status = "none"
    /\ \E n \in DOMAIN chain :
          task' = Onto([NoTask EXCEPT !.call = "sync", !.point = At(chain, n)], "before")
    /\ UNCHANGED <<chain, dead, returned, forks, synced, prepared>>

\* A variant: the state of a coin is not compared with the listing.
CoinsAgreeOnExistence(state) == Made(Listed) \subseteq Made(state)

\* getUtxo: every listed coin exists, consumed exactly by the listed operation.
CoinsAgree(state) ==
    /\ Made(Listed) \subseteq Made(state)
    /\ \A u \in Made(Listed) :
          {o \in Listed : u \in Consumes[o]} = {o \in state : u \in Consumes[o]}

ReplayLogs ==
    /\ task.call = "sync" /\ task.pc = "coins" /\ PointCanonical
    /\ Replays(ListedInOrder)
    /\ Listed \subseteq PinnedState
    /\ CoinsAgree(PinnedState)
    /\ task' = Onto(task, "end")
    /\ UNCHANGED <<chain, dead, returned, forks, synced, prepared>>

SyncDone ==
    /\ task.call = "sync" /\ task.pc = "end" /\ task.left = <<>>
    /\ synced' = [status |-> "complete", point |-> task.point,
                  available |-> Made(Listed) \ Gone(Listed)]
    /\ task' = NoTask
    /\ UNCHANGED <<chain, dead, returned, forks, prepared>>

-----------------------------------------------------------------------------
(* prepareSubmission: after the synchronization and the save, preflight at   *)
(* the latest header, anchored at the synchronized checkpoint.               *)

StartPreflight ==
    /\ task.call = "none" /\ synced.status = "complete" /\ prepared.status = "none"
    /\ Len(synced.point) <= Len(chain)
    /\ task' = Onto([NoTask EXCEPT !.call = "preflight", !.point = chain], "anchor")
    /\ UNCHANGED <<chain, dead, returned, forks, synced, prepared>>

AskExecuted ==
    /\ task.pc = "executed" /\ PointCanonical
    /\ task' = Onto([task EXCEPT !.executed = Draft \in PinnedState], "before")
    /\ UNCHANGED <<chain, dead, returned, forks, synced, prepared>>

\* The listing must agree with the state on the operation itself.
Verdict ==
    /\ task.pc = "inputs" /\ PointCanonical
    /\ task.executed = (Draft \in Listed)
    /\ task.executed \/ Consumes[Draft] \subseteq Made(PinnedState)
    /\ task' = Onto([task EXCEPT !.spent = Consumes[Draft] \cap Gone(PinnedState) # {}], "end")
    /\ UNCHANGED <<chain, dead, returned, forks, synced, prepared>>

PreflightDone ==
    /\ task.call = "preflight" /\ task.pc = "end" /\ task.left = <<>>
    /\ LET status == IF task.executed THEN "executed"
                     ELSE IF task.spent THEN "conflict" ELSE "ready"
       IN prepared' = [NoResult EXCEPT !.point = task.point,
             !.status = IF status = "ready" /\ ~(Consumes[Draft] \subseteq synced.available)
                        THEN "unconfirmed" ELSE status]
    /\ task' = NoTask
    /\ UNCHANGED <<chain, dead, returned, forks, synced>>

NextHistory ==
    \/ Extend \/ Fork
    \/ HeaderStart \/ HeaderRead \/ HeaderEnd \/ ChecksDone \/ ReadPage \/ PagesDone \/ Fail
    \/ StartSync \/ ReplayLogs \/ SyncDone
    \/ StartPreflight \/ AskExecuted \/ Verdict \/ PreflightDone

SpecHistory == InitHistory /\ [][NextHistory]_varsHistory
-----------------------------------------------------------------------------
Coins(c) == Made(OpsIn(c)) \ Gone(OpsIn(c))

\* A complete synchronization shows the coins of one checkpoint: none that does
\* not exist or is spent there, even if its pages came from several forks and
\* the first one returned in between, and none missing while no replaced fork
\* returns; beyond that sync.ts trusts its adapter.
SyncTrue ==
    synced.status = "complete" =>
        /\ synced.available \subseteq Coins(synced.point)
        /\ returned \/ synced.available = Coins(synced.point)

\* The verdict on an operation is that of the one block it names: sent again
\* only if unexecuted with its inputs unspent there, and no input lost unseen.
PreflightTrue ==
    LET state == OpsIn(prepared.point)
    IN CASE prepared.status = "ready" -> /\ Draft \notin state
                                         /\ Consumes[Draft] \subseteq Made(state) \ Gone(state)
         [] prepared.status = "executed" -> Draft \in state
         [] prepared.status = "conflict" -> /\ Draft \notin state
                                            /\ Consumes[Draft] \cap Gone(state) # {}
         [] OTHER -> TRUE
=============================================================================
