----------------------------- MODULE OwnerStore -----------------------------
(***************************************************************************)
(* packages/cli/src: the owner's encrypted store (state.ts, atomic-file.ts, *)
(* payment-state.ts) and the commands that change it (owner.ts and the Pay  *)
(* commands of payment-owner.ts and connection-main.ts), run by several     *)
(* processes on one directory.  A command reads the store without the lock, *)
(* works, and changes the store under the lock, after it read it again.     *)
(*                                                                          *)
(* Every operation has one input.  The reservation service is what the      *)
(* owner's own calls make of it (ReservationStore has the rest), and an     *)
(* attempt is only that there is one (PaymentClient has the rest).  The     *)
(* quotes, the passphrase and the texts are left out; a command may always  *)
(* stop with an error.                                                      *)
(***************************************************************************)
EXTENDS Integers, FiniteSets

CONSTANTS
    Proc,         \* processes of the owner
    LocalOp,      \* operation ids
    Coin,         \* the owner's inputs
    Absent, Left,
    MaxCommands,  \* bound: commands
    MaxKeys,      \* bound: receipt keys
    MaxCrashes    \* bound: stops of a process or of the machine, and restores

ASSUME OwnerAssumption ==
    /\ Absent # Left /\ {Absent, Left} \cap (Proc \cup Coin \cup LocalOp) = {}
    /\ {MaxCommands, MaxKeys, MaxCrashes} \subseteq Nat

\* An operation of the store, and a Pay's entry in the progress.
OpRecord == [phase : {"fixed", "proved", "authorized"}, input : Coin, proof : Nat]
PayRecord == [draft : {"fixed", "proved"}, input : Coin, signed : BOOLEAN, attempted : BOOLEAN]

ASSUME NoRecordAssumption == Absent \notin OpRecord \cup PayRecord

VARIABLES
    file,      \* owner state as a reader of the directory finds it
    durable,   \* owner state that survives a loss of power
    lock,      \* .writer-lock: the process that made it, Left by a dead one, or Absent
    backup,    \* the backup file, or Absent
    command,   \* Proc -> its command
    commands,  \* commands so far
    drawn,     \* operation ids drawn so far, each from fresh randomness
    crashes,   \* stops and restores so far
    remote,    \* LocalOp -> its record at the reservation service
    published, \* operations whose signed request is in a public file
    spent,     \* inputs consumed on the chain
    reported,  \* what commands reported saved, since the last restore
    restored   \* the operations of the restored backup, and what was spent then

counted == <<commands, drawn, crashes>>
outside == <<remote, published, spent>>
ghosts == <<reported, restored>>
varsOwner == <<file, durable, lock, backup, command, counted, outside, ghosts>>

AtRest == [cmd |-> "none", step |-> "idle", op |-> Absent, seen |-> Absent]
Unsynced == [complete |-> FALSE, coins |-> {}]

InitOwner ==
    /\ file = [keys |-> 0, ready |-> TRUE, sync |-> Unsynced, revision |-> 0,
               ops |-> [o \in LocalOp |-> Absent], pays |-> [o \in LocalOp |-> Absent]]
    /\ durable = file /\ backup = Absent /\ lock = Absent
    /\ command = [p \in Proc |-> AtRest] /\ commands = 0 /\ drawn = {} /\ crashes = 0
    /\ remote = [o \in LocalOp |-> "none"]
    /\ published = {} /\ spent = {} /\ reported = {}
    /\ restored = [ops |-> {}, spent |-> {}]

-----------------------------------------------------------------------------
(* Reading the store, and moving from step to step.                          *)

Go(p, step, seen) == command' = [command EXCEPT ![p].step = step, ![p].seen = seen]
Usable(f) == f.ready /\ f.sync.complete
Held(f) == {f.ops[o].input : o \in {x \in LocalOp : f.ops[x] # Absent}}

quiet == UNCHANGED <<file, durable, lock, backup, counted, outside, ghosts>>

FirstStep ==
    [key |-> "saveKey", sync |-> "look", create |-> "look", prepare |-> "look",
     prove |-> "record", authorize |-> "record", abandon |-> "drop", backup |-> "copy",
     payAuthorize |-> "load", resume |-> "recover", discard |-> "inspect"]

Command(p, cmd, op) ==
    /\ command[p].step = "idle" /\ commands < MaxCommands
    /\ cmd \in {"key", "sync", "backup"} <=> op = Absent
    /\ IF cmd \in {"create", "prepare"} THEN op \notin drawn /\ drawn' = drawn \cup {op}
       ELSE op \in drawn \cup {Absent} /\ drawn' = drawn
    /\ command' = [command EXCEPT ![p] = [cmd |-> cmd, step |-> FirstStep[cmd], op |-> op,
                                    seen |-> Absent]]
    /\ commands' = commands + 1
    /\ UNCHANGED <<file, durable, lock, backup, crashes, outside, ghosts>>

\* A refusal, an RPC or a service error.
GiveUp(p) ==
    /\ command[p].step \notin {"idle", "fsync"}
    /\ command' = [command EXCEPT ![p] = AtRest]
    /\ quiet

\* sync: the history is read, with the keys of the state read before.
Look(p) ==
    /\ command[p].step = "look"
    /\ \E complete \in BOOLEAN :
          Go(p, "saveSync", [keys |-> file.keys,
                             sync |-> [complete |-> complete,
                                       coins |-> IF complete THEN Coin \ spent ELSE {}]])
    /\ quiet

\* create: selectInputs over what no local operation holds.
Choose(p) ==
    /\ command[p].step = "choose" /\ Usable(file)
    /\ \E i \in file.sync.coins \ Held(file) :
          Go(p, "saveFixed", [sync |-> file.sync, input |-> i])
    /\ quiet

\* prove and authorize: the record, and the work on it.
ReadRecord(p) ==
    LET record == file.ops[command[p].op] IN
    /\ command[p].step = "record" /\ record # Absent
    /\ command[p].cmd = "authorize" => record.phase = "proved"
    /\ Go(p, IF command[p].cmd = "authorize" THEN "saveSignature" ELSE "saveProof", record)
    /\ quiet

\* loadPreparedCliPay, up to the proof.
Load(p) ==
    LET o == command[p].op IN
    /\ command[p].step = "load" /\ Usable(file) /\ file.pays[o] # Absent
    /\ \/ /\ file.pays[o].draft = "proved"
          /\ IF command[p].cmd = "prepare" THEN command' = [command EXCEPT ![p] = AtRest]
                                        ELSE Go(p, "reserve", Absent)
       \/ /\ file.pays[o].draft = "fixed" /\ ~file.pays[o].signed /\ ~file.pays[o].attempted
          /\ file.ops[o] # Absent
          /\ \/ file.ops[o].phase = "fixed" /\ Go(p, "saveProof", file.ops[o])
             \/ file.ops[o].phase = "proved" /\ Go(p, "reload", Absent)
    /\ quiet

Reload(p) ==
    LET o == command[p].op IN
    /\ command[p].step = "reload" /\ file.ops[o] # Absent /\ file.pays[o] # Absent
    /\ file.ops[o].phase = "proved"
    /\ Go(p, "saveDraft", [revision |-> file.revision, pay |-> file.pays[o]])
    /\ quiet

\* validatePrepared, and the reservation: one active record for an input.
Reserve(p) ==
    LET o == command[p].op IN
    /\ command[p].step = "reserve" /\ Usable(file) /\ file.pays[o] # Absent /\ file.ops[o] # Absent
    /\ file.ops[o].phase # "fixed" /\ file.pays[o].input \notin spent
    /\ remote[o] = "none"
    /\ \A x \in LocalOp : remote[x] # "none" /\ file.pays[x] # Absent =>
                       file.pays[x].input # file.pays[o].input
    /\ remote' = [remote EXCEPT ![o] = "reserved"]
    /\ Go(p, "sign", Absent)
    /\ UNCHANGED <<file, durable, lock, backup, counted, published, spent, ghosts>>

\* signPool and signPayment over the store, and the record with the signatures.
SignPay(p) ==
    LET o == command[p].op IN
    /\ command[p].step = "sign" /\ file.ops[o] # Absent /\ file.pays[o] # Absent
    /\ remote' = [remote EXCEPT ![o] = "signed"]
    /\ Go(p, "recover", Absent)
    /\ UNCHANGED <<file, durable, lock, backup, counted, published, spent, ghosts>>

\* recoverSignedCliPay, from the record at the service.
Recover(p) ==
    LET o == command[p].op IN
    /\ command[p].step = "recover" /\ remote[o] = "signed" /\ file.pays[o] # Absent
    /\ command[p].cmd = "resume" => file.ready
    /\ Go(p, "saveSigned", [revision |-> file.revision, pay |-> file.pays[o]])
    /\ quiet

\* pay resume and retry, after the submission: the attempts are noted.
NoteAttempt(p) ==
    LET o == command[p].op IN
    /\ command[p].step = "attempt" /\ file.pays[o] # Absent
    /\ Go(p, "saveAttempt", [revision |-> file.revision, pay |-> file.pays[o]])
    /\ quiet

\* discardPreparedCliPay: the store, the service, the operation, the progress.
InspectPay(p) ==
    LET o == command[p].op IN
    /\ command[p].step = "inspect" /\ file.pays[o] # Absent
    /\ ~file.pays[o].signed /\ ~file.pays[o].attempted
    /\ file.ops[o] # Absent => file.ops[o].phase # "authorized"
    /\ Go(p, "ask", [operation |-> file.ops[o] # Absent])
    /\ quiet

Ask(p) ==
    /\ command[p].step = "ask" /\ remote[command[p].op] = "none"
    /\ Go(p, IF command[p].seen.operation THEN "drop" ELSE "reread", Absent)
    /\ quiet

RereadProgress(p) ==
    /\ command[p].step = "reread"
    /\ Go(p, "removePay", [revision |-> file.revision])
    /\ quiet

-----------------------------------------------------------------------------
(* updateOwnerState: with the lock made, the state is read again, checked and *)
(* replaced; the lock goes when the directory is synchronized.  While it is   *)
(* there every other writer stops (STORE_LOCKED).  Before the state has been  *)
(* replaced the lock stops writers only, so making it is no step of its own.  *)

Saves == {"saveKey", "saveSync", "saveFixed", "saveProof", "saveSignature", "drop", "saveDraft",
          "saveSigned", "saveAttempt", "removePay", "copy"}

\* The temporary file, written and synchronized, takes the place of the state.
Replace(p, f, next) ==
    /\ file' = f /\ lock' = p
    /\ Go(p, "fsync", next)
    /\ UNCHANGED <<durable, backup, counted, outside, ghosts>>

Saving(p, step) == command[p].step = step /\ lock = Absent

SaveKey(p) ==
    /\ Saving(p, "saveKey") /\ file.keys < MaxKeys
    /\ Replace(p, [file EXCEPT !.keys = @ + 1], "done")

\* A variant: a synchronization that failed leaves the older one, and ends a restore.
SyncedKeepingOld(f, t) ==
    [f EXCEPT !.sync = IF t.seen.sync.complete THEN t.seen.sync ELSE @, !.ready = TRUE]

\* sync refuses when the receipt keys changed; a complete one ends a restore.
Synced(f, t) ==
    [f EXCEPT !.sync = t.seen.sync, !.ready = @ \/ t.seen.sync.complete]

SaveSync(p) ==
    /\ Saving(p, "saveSync") /\ file.keys = command[p].seen.keys
    /\ Replace(p, Synced(file, command[p]),
               IF command[p].cmd = "sync" THEN "done" ELSE "choose")

\* A variant: the inputs of the other operations are not looked at again.
CreatableAsRead(f, t) == Usable(f) /\ f.sync = t.seen.sync /\ f.ops[t.op] = Absent

\* create checks again: the same synchronization, a new id, an input still free.
Creatable(f, t) ==
    /\ Usable(f) /\ f.sync = t.seen.sync
    /\ f.ops[t.op] = Absent /\ t.seen.input \notin Held(f)

\* A Pay's entry in the progress is saved with its operation.
SaveFixed(p) ==
    LET t == command[p]
        f == [file EXCEPT !.ops[t.op] = [phase |-> "fixed", input |-> t.seen.input, proof |-> 0]]
    IN
    /\ Saving(p, "saveFixed") /\ Creatable(file, t)
    /\ IF t.cmd = "create" THEN Replace(p, f, "done")
       ELSE Replace(p, [f EXCEPT !.revision = @ + 1,
                                 !.pays[t.op] = [draft |-> "fixed", input |-> t.seen.input,
                                                 signed |-> FALSE, attempted |-> FALSE]], "load")

\* prove: fresh proofs of the same record; an authorized one stays authorized.
Proved(record) ==
    [record EXCEPT !.phase = IF @ = "authorized" THEN @ ELSE "proved", !.proof = @ + 1]

SaveProof(p) ==
    LET t == command[p] IN
    /\ Saving(p, "saveProof") /\ file.ops[t.op] = t.seen
    /\ Replace(p, [file EXCEPT !.ops[t.op] = Proved(@)],
               IF t.cmd = "prove" THEN "done" ELSE "reload")

SaveSignature(p) ==
    LET t == command[p] IN
    /\ Saving(p, "saveSignature") /\ file.ops[t.op] = t.seen
    /\ Replace(p, [file EXCEPT !.ops[t.op].phase = "authorized"], "done")

\* A variant: an authorized operation may be abandoned.
AbandonableAny(f, o) == f.ops[o] # Absent

Abandonable(f, o) == f.ops[o] # Absent /\ f.ops[o].phase # "authorized"

Drop(p) ==
    LET o == command[p].op IN
    /\ Saving(p, "drop") /\ Abandonable(file, o)
    /\ Replace(p, [file EXCEPT !.ops[o] = Absent],
               IF command[p].cmd = "abandon" THEN "done" ELSE "reread")

\* A variant: the revision read is not compared.
CurrentOrNot(f, seen) == f.revision >= seen.revision

\* savePaymentProgress: nobody changed the progress since it was read.
Current(f, seen) == f.revision = seen.revision

SavePay(p, step, entry, next) ==
    /\ Saving(p, step) /\ Current(file, command[p].seen)
    /\ Replace(p, [file EXCEPT !.revision = command[p].seen.revision + 1,
                               !.pays[command[p].op] = entry], next)

SaveDraft(p) == SavePay(p, "saveDraft", [command[p].seen.pay EXCEPT !.draft = "proved"],
                        IF command[p].cmd = "prepare" THEN "done" ELSE "reserve")
SaveSigned(p) == SavePay(p, "saveSigned", [command[p].seen.pay EXCEPT !.signed = TRUE],
                         IF command[p].cmd = "resume" THEN "attempt" ELSE "done")
SaveAttempt(p) == SavePay(p, "saveAttempt", [command[p].seen.pay EXCEPT !.attempted = TRUE], "done")
RemovePay(p) == SavePay(p, "removePay", Absent, "done")

\* The reports that something is saved: a key, an authorization, a signed Pay.
Report(t) ==
    CASE t.cmd = "key" -> {<<"key", file.keys>>}
      [] t.cmd = "authorize" -> {<<"authorized", t.op>>}
      [] t.cmd = "payAuthorize" -> {<<"signed", t.op>>}
      [] OTHER -> {}

\* The directory is synchronized and the lock removed.
Settle(p) ==
    /\ command[p].step = "fsync" /\ lock = p
    /\ durable' = file /\ lock' = Absent
    /\ IF command[p].seen = "done"
       THEN command' = [command EXCEPT ![p] = AtRest] /\ reported' = reported \cup Report(command[p])
       ELSE Go(p, command[p].seen, Absent) /\ reported' = reported
    /\ UNCHANGED <<file, backup, counted, outside, restored>>

\* An error under the lock, even in fsync: the lock is removed on the way out.
GiveUpLocked(p) ==
    /\ lock = p
    /\ command' = [command EXCEPT ![p] = AtRest] /\ lock' = Absent
    /\ UNCHANGED <<file, durable, backup, counted, outside, ghosts>>

Backup(p) ==
    /\ Saving(p, "copy")
    /\ backup' = file
    /\ command' = [command EXCEPT ![p] = AtRest]
    /\ UNCHANGED <<file, durable, lock, counted, outside, ghosts>>

-----------------------------------------------------------------------------
(* Around the store.                                                         *)

\* exportPublic of an authorized operation.
Export(o) ==
    /\ Usable(file) /\ file.ops[o] # Absent /\ file.ops[o].phase = "authorized"
    /\ o \notin published
    /\ published' = published \cup {o}
    /\ UNCHANGED <<file, durable, lock, backup, command, counted, remote, spent, ghosts>>

InputOf(o) == IF file.ops[o] # Absent THEN file.ops[o].input ELSE file.pays[o].input

\* An exported request, or a Pay, executes on an input nobody consumed.
Execute(o) ==
    /\ o \in published \/ remote[o] = "signed"
    /\ file.ops[o] # Absent \/ file.pays[o] # Absent
    /\ InputOf(o) \notin spent
    /\ spent' = spent \cup {InputOf(o)}
    /\ UNCHANGED <<file, durable, lock, backup, command, counted, remote, published, ghosts>>

\* A killed process leaves the lock it has made and what it renamed.
Crash(p) ==
    /\ command[p].step # "idle" /\ crashes < MaxCrashes
    /\ command' = [command EXCEPT ![p] = AtRest] /\ crashes' = crashes + 1
    /\ \/ lock' = IF lock = p THEN Left ELSE lock
       \/ command[p].step \in Saves /\ lock = Absent /\ lock' = Left
    /\ UNCHANGED <<file, durable, backup, commands, drawn, outside, ghosts>>

\* A rename whose directory was not synchronized may be lost with the power.
PowerLoss ==
    /\ crashes < MaxCrashes
    /\ file' \in {file, durable} /\ durable' = file'
    /\ command' = [p \in Proc |-> AtRest] /\ crashes' = crashes + 1
    /\ lock' = IF lock = Absent THEN Absent ELSE Left
    /\ UNCHANGED <<backup, commands, drawn, outside, ghosts>>

\* The operator stops every writer, then removes the lock one of them left.
RemoveLock ==
    /\ lock = Left /\ \A p \in Proc : command[p].step = "idle"
    /\ lock' = Absent
    /\ UNCHANGED <<file, durable, backup, command, counted, outside, ghosts>>

\* The backup in a new directory, which the owner uses from then on.
Restore ==
    /\ backup # Absent /\ crashes < MaxCrashes
    /\ \A p \in Proc : command[p].step = "idle"
    /\ file' = [backup EXCEPT !.ready = FALSE] /\ durable' = file'
    /\ lock' = Absent /\ backup' = Absent /\ reported' = {} /\ crashes' = crashes + 1
    /\ restored' = [ops |-> {o \in LocalOp : file'.ops[o] # Absent}, spent |-> spent]
    /\ UNCHANGED <<command, commands, drawn, outside>>

-----------------------------------------------------------------------------
Start(p) == \E cmd \in DOMAIN FirstStep, o \in LocalOp \cup {Absent} : Command(p, cmd, o)

Work(p) ==
    \/ GiveUp(p) \/ Look(p) \/ Choose(p) \/ ReadRecord(p) \/ Load(p) \/ Reload(p) \/ Reserve(p)
    \/ SignPay(p) \/ Recover(p) \/ NoteAttempt(p) \/ InspectPay(p) \/ Ask(p) \/ RereadProgress(p)

Update(p) ==
    \/ SaveKey(p) \/ SaveSync(p) \/ SaveFixed(p) \/ SaveProof(p) \/ SaveSignature(p)
    \/ Drop(p) \/ SaveDraft(p) \/ SaveSigned(p) \/ SaveAttempt(p) \/ RemovePay(p) \/ Settle(p)
    \/ GiveUpLocked(p) \/ Backup(p)

NextOwner ==
    \/ \E p \in Proc : Start(p) \/ Work(p) \/ Update(p) \/ Crash(p)
    \/ \E o \in LocalOp : Export(o) \/ Execute(o)
    \/ PowerLoss \/ RemoveLock \/ Restore

SpecOwner == InitOwner /\ [][NextOwner]_varsOwner

-----------------------------------------------------------------------------
(* No input is held by two local operations, although two processes may       *)
(* select it from the same synchronization (owner.ts create: the selection    *)
(* is outside the lock, the check of it under the lock).                      *)
InputsApart ==
    \A o, x \in LocalOp : o # x /\ file.ops[o] # Absent /\ file.ops[x] # Absent =>
        file.ops[o].input # file.ops[x].input

(* What a command reported saved, a key, an authorization or the signatures   *)
(* of a Pay, is in the store whatever the other processes wrote from what     *)
(* they had read, whoever was killed and even after a loss of power, until    *)
(* an older backup is restored.  A Pay's entry may be removed with all of it. *)
ReportedIsKept ==
    \A fact \in reported :
        \/ fact[1] = "key" /\ file.keys >= fact[2]
        \/ fact[1] = "authorized" /\ file.ops[fact[2]] # Absent
           /\ file.ops[fact[2]].phase = "authorized"
        \/ fact[1] = "signed" /\ (file.pays[fact[2]] # Absent => file.pays[fact[2]].signed)

(* savePaymentProgress: while a Pay's entry is there, a later save by another *)
(* command takes neither its proof, its signatures nor its attempts back.     *)
ProgressOnlyGrows ==
    [][\A o \in LocalOp :
          \/ file.pays[o] = Absent \/ file'.pays[o] = Absent
          \/ crashes' # crashes
          \/ /\ file.pays[o].draft = "proved" => file'.pays[o].draft = "proved"
             /\ file.pays[o].signed => file'.pays[o].signed
             /\ file.pays[o].attempted => file'.pays[o].attempted]_varsOwner

(* After a restore no operation is made on an input that was spent before it  *)
(* although the backup lists it as available (owner.ts restore, create).      *)
RestoredSeesTheChain ==
    \A o \in LocalOp : file.ops[o] # Absent /\ o \notin restored.ops =>
        file.ops[o].input \notin restored.spent

(* payment-owner.ts:209 and docs/guides/development.md: only a draft that     *)
(* never reached the reservation service is discarded.                        *)
DiscardsOnlyUnreserved ==
    [][\A o \in LocalOp : file.pays[o] # Absent /\ file'.pays[o] = Absent
                     /\ crashes' = crashes => remote[o] = "none"]_varsOwner
=============================================================================
