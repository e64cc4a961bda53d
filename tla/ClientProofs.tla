---------------------------- MODULE ClientProofs ----------------------------
(***************************************************************************)
(* Proofs about PaymentClient, for any number of processes of the owner, of *)
(* calls of the client and of blocks, and any deadline; and, at the end,    *)
(* about the log-in with which a client speaks to the service               *)
(* (AuthChallenge), which shares no state with it.                          *)
(***************************************************************************)
EXTENDS PaymentClient, AuthChallenge, SequenceTheorems, TLAPS

Step == {"none", "reserve", "start", "sign", "attempt", "submit", "hash",
         "resume", "retry", "release"}
Places == {"idle", "waiting", "reread", "ready", "sending", "sent", "unsure", "evidence"}
Seen == [time : Nat, succeeded : BOOLEAN, spent : BOOLEAN,
         outcomes : [Attempt -> {"finalized-failure", "unknown"}]]
Actions == {"none", "authorize", "export", "resume-original", "retry-attempt", "change-terms"}

Run == [pc : Places, run : Nat, action : Actions, did : Step,
        saved : PayRecord \cup {NoRow}, want : PayRecord \cup {NoRow}, signed : BOOLEAN,
        evidence : Seen \cup {<<>>}]

Fate == [state : {"none", "sent", "success", "failure"}, at : Nat]

TypeClient ==
    /\ row \in PayRecord \cup {NoRow}
    /\ requests \subseteq [did : Step, new : PayRecord]
    /\ tab \in [Tab -> Run]
    /\ runs \in 0..MaxRuns
    /\ signatures \subseteq {"pool", "payment"}
    /\ progress \in BOOLEAN
    /\ journal \in [Attempt -> {"absent", "prepared", "pending", "unknown"}]
    /\ txs \in [Attempt \cup Elsewhere -> Fate]
    /\ blocks \in [latest : Nat, final : Nat]
    /\ successor \in BOOLEAN

\* An attempt that can never be paid: failed in a finalized block.
Dead(a) == txs[a].state = "failure" /\ txs[a].at <= blocks.final

\* What a revision of the record says about its signatures.
Shaped(x) ==
    /\ x.revision > 0
    /\ x.state = "released" => x.revision > 1
    /\ x.state = "active" =>
          \/ x.revision = 1 /\ ~x.started /\ ~x.signed /\ x.attempts = <<>>
          \/ x.revision = 2 /\ x.started /\ ~x.signed /\ x.attempts = <<>>
          \/ x.revision > 2 /\ x.started /\ x.signed

\* An attempt was added only after all earlier ones had died.
DeadBefore(x) == \A i \in 1..Len(x.attempts) : i < Len(x.attempts) => Dead(x.attempts[i])

Sane(x) == x \in PayRecord /\ Shaped(x) /\ DeadBefore(x)

\* A record that is or was the stored one.
Past(x) ==
    /\ row # NoRow /\ x.revision <= row.revision
    /\ x.revision = row.revision => x = row
    /\ x.started => row.started
    /\ ToSet(x.attempts) \subseteq ToSet(row.attempts)

Written == {"reserve", "start", "sign", "attempt", "hash"}

\* What a run that writes has written, or is about to find written.
Wanted(t) ==
    /\ t.want \in PayRecord
    /\ t.did \in Written =>
          /\ t.want.state = "active" /\ t.want.run = t.run
          /\ t.did = "reserve" => t.want.revision = 1
          /\ t.did = "start" => t.want.revision = 2
          /\ t.did \in {"sign", "attempt", "hash"} => t.want.revision > 2
          /\ t.did = "sign" => t.want.attempts = <<>>
          /\ t.did = "attempt" => t.run \in ToSet(t.want.attempts)

Placed(t) ==
    /\ t.pc = "idle" => t.saved = NoRow /\ t.did = "none"
    /\ t.pc \in {"waiting", "reread"} =>
          /\ t.did \in Written \cup {"release"} /\ Sane(t.want) /\ Wanted(t)
          /\ t.did = "release" => t.saved # NoRow
    /\ t.pc = "ready" =>
          /\ t.saved # NoRow /\ t.did \in Step \ {"none"}
          /\ t.did \in Written => t.saved = t.want /\ Wanted(t)
          /\ t.did \in {"submit", "retry"} => t.saved.state = "active" /\ t.saved.revision > 2
          /\ t.did = "resume" =>
                /\ t.saved.state = "active" /\ t.saved.attempts = <<>>
                /\ t.signed <=> t.saved.revision > 2
          /\ t.did = "retry" => \A i \in DOMAIN t.saved.attempts : Dead(t.saved.attempts[i])
    /\ t.pc \in {"sending", "sent", "unsure"} =>
          /\ t.did = "attempt" /\ t.saved = t.want /\ t.saved # NoRow /\ Wanted(t)
          /\ journal[t.run] # "absent"
    /\ t.pc = "evidence" =>
          /\ t.saved # NoRow /\ t.did = "none" /\ t.evidence \in Seen
          /\ t.evidence.time <= blocks.final
          /\ \A a \in Attempt : t.evidence.outcomes[a] = "finalized-failure" => Dead(a)
    /\ t.pc \notin {"idle", "sent", "unsure"} /\ t.did \notin {"submit", "hash"} =>
          txs[t.run].state = "none"

Counted(t) == t.pc # "idle" => t.run \in 1..runs

Kept(t) == t.saved # NoRow => Sane(t.saved) /\ Past(t.saved)

Apart(t, u) ==
    /\ t.pc # "idle" /\ u.pc # "idle" => t.run # u.run
    /\ t.saved # NoRow /\ u.saved # NoRow /\ t.saved.revision = u.saved.revision
       => t.saved = u.saved

ChainSound ==
    /\ blocks.final <= blocks.latest
    /\ \A t \in DOMAIN txs : txs[t].state = "none" => txs[t].at = 0
    /\ \A a \in Attempt : a > runs => txs[a].state = "none"

RowSound ==
    row # NoRow => Sane(row) /\ (row.state = "released" => blocks.final > Deadline)

RequestsSound ==
    \A q \in requests : Sane(q.new) /\ (q.new.state = "released" => q.did = "release")

TabsSound ==
    /\ \A c \in Tab : Counted(tab[c]) /\ Placed(tab[c]) /\ Kept(tab[c])
    /\ \A c, d \in Tab : c # d => Apart(tab[c], tab[d])

ProgressSigned == progress => row # NoRow /\ row.revision > 2

AttemptsRecorded ==
    \A a \in Attempt : txs[a].state # "none" =>
        journal[a] # "absent" /\ row # NoRow /\ a \in ToSet(row.attempts)

DeadSuccessor ==
    successor => row # NoRow /\ row.state = "released" /\ blocks.final > Deadline /\ ~Paid

IClient ==
    /\ TypeClient /\ ChainSound /\ RowSound /\ RequestsSound /\ TabsSound
    /\ SignedAfterStarted /\ ProgressSigned /\ AttemptsRecorded /\ DeadSuccessor
-----------------------------------------------------------------------------
(* Data.                                                                     *)

\* The attempts are numbered, and transactions from elsewhere are none of them.
LEMMA AttemptTypes ==
    /\ MaxRuns \in Nat /\ Attempt \subseteq Nat /\ Attempt = 1..MaxRuns
    /\ \A t \in Elsewhere : t \notin Attempt
PROOF
<1>1. MaxRuns \in Nat
  BY ClientAssumption
<1>2. \A t \in Elsewhere : t \notin Nat
  BY ClientAssumption
<1> QED BY <1>1, <1>2 DEF Attempt

\* What one more attempt makes of a list of attempts.
LEMMA AppendAttempt ==
    ASSUME NEW s \in Seq(Attempt), NEW a \in Attempt
    PROVE  /\ Append(s, a) \in Seq(Attempt)
           /\ Len(Append(s, a)) = Len(s) + 1 /\ Len(s) \in Nat
           /\ \A i \in 1..Len(s) : Append(s, a)[i] = s[i]
           /\ Append(s, a)[Len(s) + 1] = a
           /\ a \in ToSet(Append(s, a))
PROOF
<1>1. Append(s, a) \in Seq(Attempt) /\ Len(Append(s, a)) = Len(s) + 1 /\ Len(s) \in Nat
  BY LenProperties, AppendProperties
<1>2. \A i \in 1..Len(s) : Append(s, a)[i] = s[i]
  BY AppendProperties
<1>3. Append(s, a)[Len(s) + 1] = a
  BY AppendProperties
<1>4. Len(s) + 1 \in DOMAIN Append(s, a)
  BY <1>1, LenProperties
<1> QED BY <1>1, <1>2, <1>3, <1>4 DEF ToSet

\* A longer list holds the attempts of the shorter.
LEMMA PrefixAttempts ==
    ASSUME NEW s \in Seq(Attempt), NEW t \in Seq(Attempt), IsPrefix(s, t)
    PROVE  ToSet(s) \subseteq ToSet(t)
PROOF
<1>1. /\ Len(s) \in Nat /\ Len(t) \in Nat /\ Len(s) <= Len(t)
      /\ DOMAIN s = 1..Len(s) /\ DOMAIN t = 1..Len(t)
  BY LenProperties DEF IsPrefix
<1>2. ASSUME NEW i \in 1..Len(s) PROVE i \in 1..Len(t) /\ t[i] = s[i]
  <2>1. SubSeq(s, 1, Len(s)) = SubSeq(t, 1, Len(s))
    BY DEF IsPrefix
  <2>2. SubSeq(s, 1, Len(s))[i] = s[i]
    BY <1>1, SubSeqProperties
  <2>3. SubSeq(t, 1, Len(s))[i] = t[i]
    BY <1>1, SubSeqProperties
  <2> QED BY <1>1, <2>1, <2>2, <2>3
<1> QED BY <1>1, <1>2 DEF ToSet
-----------------------------------------------------------------------------
(* Steps of the chain.                                                       *)

\* What no step undoes, whatever it is about.
LEMMA Persists ==
    ASSUME blocks.final \in Nat, blocks'.final \in Nat, blocks.final <= blocks'.final,
           \A a \in Attempt : Dead(a) => Dead(a)'
    PROVE  /\ \A x : Sane(x) => Sane(x)'
           /\ row # NoRow /\ row.state = "released" /\ blocks.final > Deadline
              => blocks'.final > Deadline
PROOF
<1>1. ASSUME NEW x, Sane(x) PROVE Sane(x)'
  <2>1. x.attempts \in Seq(Attempt)
    BY <1>1 DEF Sane, PayRecord
  <2>2. \A i \in 1..Len(x.attempts) : x.attempts[i] \in Attempt
    BY <2>1
  <2>3. DeadBefore(x)'
    BY <1>1, <2>2 DEF Sane, DeadBefore
  <2> QED BY <1>1, <2>3 DEF Sane, Shaped
<1>2. Deadline \in Nat
  BY ClientAssumption
<1> QED BY <1>1, <1>2

\* A step of the chain alone keeps the invariant.
LEMMA Undisturbed ==
    ASSUME IClient, TypeClient', ChainSound',
           UNCHANGED <<row, requests, tab, runs, signatures, progress, journal, successor>>,
           blocks.final <= blocks'.final,
           \A a \in Attempt : Dead(a) => Dead(a)',
           \A a \in Attempt : txs'[a].state = "none" <=> txs[a].state = "none",
           ~Paid /\ blocks.final > Deadline => ~Paid'
    PROVE  IClient'
PROOF
<1>1. blocks.final \in Nat /\ blocks'.final \in Nat /\ Deadline \in Nat
  BY ClientAssumption DEF IClient, TypeClient
<1>2. \A x : Sane(x) => Sane(x)'
  BY <1>1, Persists
<1>3. RowSound'
  BY <1>1, <1>2 DEF IClient, RowSound
<1>4. RequestsSound'
  BY <1>2 DEF IClient, RequestsSound
<1>5. TabsSound'
  <2>1. ASSUME NEW c \in Tab PROVE Placed(tab[c])'
    <3>1. PICK t \in Run : t = tab[c] /\ t = tab'[c]
      BY DEF IClient, TypeClient
    <3>2. Placed(t) /\ Counted(t)
      BY <3>1 DEF IClient, TabsSound
    <3>3. /\ t.pc \in {"waiting", "reread"} => Sane(t.want)'
          /\ t.pc = "evidence" => t.evidence.time <= blocks'.final
      BY <1>1, <1>2, <3>2 DEF Placed, Seen
    <3>4. t.did = "retry" /\ t.pc = "ready" =>
             \A i \in DOMAIN t.saved.attempts : Dead(t.saved.attempts[i])'
      <4> SUFFICES ASSUME t.did = "retry", t.pc = "ready", NEW i \in DOMAIN t.saved.attempts
                   PROVE  Dead(t.saved.attempts[i])'
        OBVIOUS
      <4>1. t.saved \in PayRecord
        BY <3>2 DEF Placed, Run
      <4>2. t.saved.attempts[i] \in Attempt
        BY <4>1 DEF PayRecord
      <4> QED BY <3>2, <4>2 DEF Placed
    <3>5. t.pc # "idle" => (txs[t.run].state = "none" <=> txs'[t.run].state = "none")
      <4>1. runs \in 0..MaxRuns /\ MaxRuns \in Nat
        BY AttemptTypes DEF IClient, TypeClient
      <4>2. t.pc # "idle" => t.run \in Attempt
        BY <3>2, <4>1 DEF Counted, Attempt
      <4> QED BY <4>2
    <3>6. Placed(t)'
      BY <3>2, <3>3, <3>4, <3>5 DEF Placed, Wanted
    <3> QED BY <3>1, <3>6
  <2>2. ASSUME NEW c \in Tab PROVE Counted(tab[c])' /\ Kept(tab[c])'
    BY <1>2 DEF IClient, TabsSound, Counted, Kept, Past
  <2>3. ASSUME NEW c \in Tab, NEW d \in Tab, c # d PROVE Apart(tab[c], tab[d])'
    BY <2>3 DEF IClient, TabsSound, Apart
  <2> QED BY <2>1, <2>2, <2>3 DEF TabsSound
<1>6. SignedAfterStarted' /\ ProgressSigned' /\ AttemptsRecorded'
  BY DEF IClient, SignedAfterStarted, ProgressSigned, AttemptsRecorded
<1>7. DeadSuccessor'
  BY <1>1 DEF IClient, DeadSuccessor
<1> QED BY <1>3, <1>4, <1>5, <1>6, <1>7 DEF IClient
\* The steps of the chain keep the invariant.
LEMMA ChainKeeps ==
    ASSUME IClient,
           \/ \E t \in Attempt \cup Elsewhere : Mine(t)
           \/ \E t \in Elsewhere : ForeignSend(t)
           \/ EmptyMine \/ MineFinal \/ MineAgain
    PROVE  IClient'
PROOF
<1>1. /\ blocks.final \in Nat /\ blocks.latest \in Nat /\ blocks.final <= blocks.latest
      /\ blocks \in [latest : Nat, final : Nat]
      /\ txs \in [Attempt \cup Elsewhere -> Fate] /\ Deadline \in Nat
  BY ClientAssumption DEF IClient, TypeClient, ChainSound
<1>2. \A t \in Attempt \cup Elsewhere :
         /\ txs[t] \in Fate /\ txs[t].at \in Nat
         /\ txs[t].state = "none" => txs[t].at = 0
  BY <1>1 DEF IClient, ChainSound, Fate
<1> USE DEF Dead
<1>3. ASSUME NEW t \in Attempt \cup Elsewhere, Mine(t) PROVE IClient'
  <2>1. PICK result \in {"success", "failure"} :
           /\ result = "success" => ~InputSpent /\ (t # Rival => blocks.latest + 1 <= Deadline)
           /\ txs' = [txs EXCEPT ![t] = [state |-> result, at |-> blocks.latest + 1]]
           /\ blocks' = [blocks EXCEPT !.latest = @ + 1]
    BY <1>1, <1>3 DEF Mine
  <2>2. blocks'.latest = blocks.latest + 1 /\ blocks'.final = blocks.final
        /\ blocks' \in [latest : Nat, final : Nat]
    BY <1>1, <2>1
  <2>3. /\ \A x \in Attempt \cup Elsewhere : x # t => txs'[x] = txs[x]
        /\ txs'[t].state = result /\ txs'[t].at = blocks.latest + 1
        /\ txs' \in [Attempt \cup Elsewhere -> Fate]
    BY <1>1, <2>1 DEF Fate
  <2>4. txs[t].state = "sent"
    BY <1>3 DEF Mine
  <2>5. TypeClient'
    BY <1>3, <2>2, <2>3 DEF IClient, TypeClient, Mine
  <2>6. ChainSound'
    BY <1>1, <1>2, <1>3, <2>2, <2>3, <2>4 DEF IClient, ChainSound, Mine
  <2>7. ~Paid /\ blocks.final > Deadline => ~Paid'
    BY <1>1, <2>1, <2>3, <2>4 DEF Paid
  <2>8. \A a \in Attempt : /\ Dead(a) => Dead(a)'
                           /\ txs'[a].state = "none" <=> txs[a].state = "none"
    BY <2>2, <2>3, <2>4
  <2> QED BY <1>1, <1>3, <2>2, <2>5, <2>6, <2>7, <2>8, Undisturbed DEF Mine
<1>4. ASSUME NEW t \in Elsewhere, ForeignSend(t) PROVE IClient'
  <2>1. /\ txs' = [txs EXCEPT ![t].state = "sent"] /\ blocks' = blocks
        /\ txs[t].state = "none"
    BY <1>4 DEF ForeignSend
  <2>2. /\ \A x \in Attempt \cup Elsewhere : x # t => txs'[x] = txs[x]
        /\ txs'[t].state = "sent"
        /\ txs' \in [Attempt \cup Elsewhere -> Fate]
    BY <1>1, <2>1 DEF Fate
  <2>3. TypeClient'
    BY <1>4, <2>2 DEF IClient, TypeClient, ForeignSend
  <2>4. \A a \in Attempt : txs'[a] = txs[a]
    BY <2>2, AttemptTypes
  <2>5. ChainSound'
    BY <1>1, <1>4, <2>2, <2>4 DEF IClient, ChainSound, ForeignSend
  <2>6. ~Paid /\ blocks.final > Deadline => ~Paid'
    BY <1>1, <2>2 DEF Paid
  <2>7. \A a \in Attempt : /\ Dead(a) => Dead(a)'
                           /\ txs'[a].state = "none" <=> txs[a].state = "none"
    BY <2>1, <2>4
  <2>8. UNCHANGED <<row, requests, tab, runs, signatures, progress, journal, successor>>
    BY <1>4 DEF ForeignSend
  <2>9. blocks.final <= blocks'.final
    BY <1>1, <2>1
  <2> QED BY <2>3, <2>5, <2>6, <2>7, <2>8, <2>9, Undisturbed
<1>5. CASE EmptyMine
  <2>1. blocks'.latest = blocks.latest + 1 /\ blocks'.final = blocks.final /\ txs' = txs
        /\ blocks' \in [latest : Nat, final : Nat]
    BY <1>1, <1>5 DEF EmptyMine
  <2>2. TypeClient' /\ ChainSound'
    BY <1>1, <1>5, <2>1 DEF IClient, TypeClient, ChainSound, EmptyMine
  <2> QED BY <1>1, <1>5, <2>1, <2>2, Undisturbed DEF EmptyMine, Paid
<1>6. CASE MineFinal
  <2>1. blocks'.latest = blocks.latest /\ blocks'.final = blocks.latest /\ txs' = txs
        /\ blocks' \in [latest : Nat, final : Nat]
    BY <1>1, <1>6 DEF MineFinal
  <2>2. TypeClient' /\ ChainSound'
    BY <1>1, <1>6, <2>1 DEF IClient, TypeClient, ChainSound, MineFinal
  <2>3. \A a \in Attempt : Dead(a) => Dead(a)'
    BY <1>1, <1>2, <2>1
  <2> QED BY <1>1, <1>6, <2>1, <2>2, <2>3, Undisturbed DEF MineFinal, Paid
<1>7. CASE MineAgain
  <2>1. blocks'.latest = blocks.final /\ blocks'.final = blocks.final
        /\ blocks' \in [latest : Nat, final : Nat]
    BY <1>1, <1>7 DEF MineAgain
  <2>2. txs' = [x \in Attempt \cup Elsewhere |->
                  IF txs[x].at > blocks.final THEN [state |-> "sent", at |-> 0] ELSE txs[x]]
    BY <1>1, <1>7 DEF MineAgain
  <2>3. txs' \in [Attempt \cup Elsewhere -> Fate]
    BY <1>2, <2>2 DEF Fate
  <2>4. \A x \in Attempt \cup Elsewhere :
           IF txs[x].at > blocks.final THEN txs'[x].state = "sent" /\ txs'[x].at = 0
           ELSE txs'[x] = txs[x]
    BY <2>2
  <2>5. TypeClient'
    BY <1>7, <2>1, <2>3 DEF IClient, TypeClient, MineAgain
  <2>6. ChainSound'
    BY <1>1, <1>2, <1>7, <2>1, <2>3, <2>4 DEF IClient, ChainSound, MineAgain
  <2>7. ~Paid /\ blocks.final > Deadline => ~Paid'
    BY <1>1, <2>3, <2>4 DEF Paid
  <2>8. \A a \in Attempt : /\ Dead(a) => Dead(a)'
                           /\ txs'[a].state = "none" <=> txs[a].state = "none"
    BY <1>1, <1>2, <2>1, <2>4
  <2>9. UNCHANGED <<row, requests, tab, runs, signatures, progress, journal, successor>>
    BY <1>7 DEF MineAgain
  <2>10. blocks.final <= blocks'.final
    BY <1>1, <2>1

  <2> QED BY <2>5, <2>6, <2>7, <2>8, <2>9, <2>10, Undisturbed
<1> QED BY <1>3, <1>4, <1>5, <1>6, <1>7
-----------------------------------------------------------------------------
(* Steps of a run.                                                           *)

\* Only the transaction of the run that sends may change, and it was not there.
Sending(u) ==
    \/ txs' = txs
    \/ /\ u.pc = "sending" /\ u.run \in Attempt
       /\ txs[u.run].state = "none"
       /\ txs' = [txs EXCEPT ![u.run].state = "sent"]

\* A sending changes the fate of its own attempt only.
LEMMA SendingKeeps ==
    ASSUME IClient, NEW u \in Run, Sending(u), blocks' = blocks
    PROVE  /\ txs' \in [Attempt \cup Elsewhere -> Fate]
           /\ \A x \in Attempt \cup Elsewhere : x # u.run => txs'[x] = txs[x]
           /\ u.pc # "sending" => txs' = txs
           /\ \A x \in Attempt \cup Elsewhere :
                 txs'[x] = txs[x] \/ (txs'[x].state = "sent" /\ x = u.run)
           /\ \A a \in Attempt : Dead(a) => Dead(a)'
           /\ \A x : Sane(x) => Sane(x)'
           /\ ~Paid => ~Paid'
PROOF
<1>1. txs \in [Attempt \cup Elsewhere -> Fate] /\ blocks.final \in Nat
  BY DEF IClient, TypeClient
<1>2. /\ txs' \in [Attempt \cup Elsewhere -> Fate]
      /\ \A x \in Attempt \cup Elsewhere : x # u.run => txs'[x] = txs[x]
      /\ u.pc # "sending" => txs' = txs
      /\ \A x \in Attempt \cup Elsewhere :
            txs'[x] = txs[x] \/ (txs'[x].state = "sent" /\ x = u.run)
  BY <1>1 DEF Sending, Fate
<1>3. ASSUME NEW a \in Attempt, Dead(a) PROVE Dead(a)'
  <2>1. txs[a].state = "failure"
    BY <1>3 DEF Dead
  <2>2. txs'[a] = txs[a]
    BY <1>1, <2>1 DEF Sending
  <2> QED BY <1>3, <2>2 DEF Dead
<1>4. \A x : Sane(x) => Sane(x)'
  BY <1>1, <1>3, Persists
<1>5. ~Paid => ~Paid'
  BY <1>1, <1>2 DEF Paid
<1> QED BY <1>2, <1>3, <1>4, <1>5

\* The other runs stay where they are.
LEMMA OthersKeep ==
    ASSUME IClient, NEW c \in Tab, NEW d \in Tab, c # d, tab'[d] = tab[d],
           Sending(tab[c]), UNCHANGED <<row, blocks>>, runs \in 0..runs', runs' \in Nat,
           \A a \in Attempt : journal[a] # "absent" => journal'[a] # "absent"
    PROVE  Counted(tab[d])' /\ Placed(tab[d])' /\ Kept(tab[d])'
PROOF
<1>1. PICK u \in Run : u = tab[c]
  BY DEF IClient, TypeClient
<1>2. PICK t \in Run : t = tab[d] /\ t = tab'[d]
  BY DEF IClient, TypeClient
<1>3. Counted(t) /\ Placed(t) /\ Kept(t) /\ Apart(u, t)
  BY <1>1, <1>2 DEF IClient, TabsSound
<1>4. /\ \A x \in Attempt \cup Elsewhere : x # u.run => txs'[x] = txs[x]
      /\ u.pc # "sending" => txs' = txs
      /\ \A a \in Attempt : Dead(a) => Dead(a)'
      /\ \A x : Sane(x) => Sane(x)'
  BY <1>1, SendingKeeps
<1>5. runs \in Nat /\ runs <= MaxRuns /\ MaxRuns \in Nat
  BY AttemptTypes DEF IClient, TypeClient
<1>6. t.pc # "idle" => t.run \in Attempt
  BY <1>3, <1>5 DEF Counted, Attempt
<1>7. Counted(t)'
  BY <1>3, <1>5 DEF Counted
<1>8. Kept(t)'
  BY <1>3, <1>4 DEF Kept, Past
<1>9. t.pc # "idle" => txs'[t.run] = txs[t.run]
  BY <1>3, <1>4, <1>6 DEF Apart
<1>10. t.did = "retry" /\ t.pc = "ready" =>
         \A i \in DOMAIN t.saved.attempts : Dead(t.saved.attempts[i])'
  <2> SUFFICES ASSUME t.did = "retry", t.pc = "ready", NEW i \in DOMAIN t.saved.attempts
               PROVE  Dead(t.saved.attempts[i])'
    OBVIOUS
  <2>1. t.saved \in PayRecord
    BY <1>3 DEF Placed, Run
  <2>2. t.saved.attempts[i] \in Attempt
    BY <2>1 DEF PayRecord
  <2> QED BY <1>3, <1>4, <2>2 DEF Placed
<1>11. /\ t.pc \in {"waiting", "reread"} => Sane(t.want)'
       /\ t.pc \in {"sending", "sent", "unsure"} => journal'[t.run] # "absent"
       /\ t.pc = "evidence" =>
             /\ t.evidence.time <= blocks'.final
             /\ \A a \in Attempt : t.evidence.outcomes[a] = "finalized-failure" => Dead(a)'
  BY <1>3, <1>4, <1>6 DEF Placed
<1>12. Placed(t)'
  BY <1>3, <1>9, <1>10, <1>11 DEF Placed, Wanted
<1> QED BY <1>2, <1>7, <1>8, <1>12

\* A step of run c leaves the record and the chain alone, and takes the run to t.
LEMMA RunMoves ==
    ASSUME IClient, NEW c \in Tab, NEW t \in Run,
           tab' = [tab EXCEPT ![c] = t], UNCHANGED <<row, blocks>>, Sending(tab[c]),
           runs' \in runs..MaxRuns,
           \/ t.pc = "idle"
           \/ tab[c].pc # "idle" /\ t.run = tab[c].run
           \/ t.run = runs + 1 /\ runs' = runs + 1,
           t.saved \in {tab[c].saved, row, NoRow},
           Placed(t)',
           journal' \in [Attempt -> {"absent", "prepared", "pending", "unknown"}],
           \A a \in Attempt : journal[a] # "absent" => journal'[a] # "absent",
           \A q \in requests' \ requests :
              /\ q \in [did : Step, new : PayRecord] /\ Sane(q.new)
              /\ q.new.state = "released" => q.did = "release",
           signatures' \subseteq {"pool", "payment"}, SignedAfterStarted',
           progress' \in BOOLEAN, ProgressSigned',
           successor' \in BOOLEAN, DeadSuccessor'
    PROVE  IClient'
PROOF
<1>1. PICK u \in Run : u = tab[c] /\ Counted(u) /\ Placed(u) /\ Kept(u)
  BY DEF IClient, TypeClient, TabsSound
<1>2. /\ runs \in Nat /\ MaxRuns \in Nat /\ runs' \in Nat /\ runs <= runs' /\ runs' <= MaxRuns
      /\ blocks.final \in Nat /\ Deadline \in Nat
  BY AttemptTypes, ClientAssumption DEF IClient, TypeClient
<1>3. /\ tab'[c] = t /\ \A d \in Tab : d # c => tab'[d] = tab[d]
      /\ tab' \in [Tab -> Run]
  BY DEF IClient, TypeClient
<1>4. /\ txs' \in [Attempt \cup Elsewhere -> Fate]
      /\ \A x \in Attempt \cup Elsewhere : x # u.run => txs'[x] = txs[x]
      /\ \A x \in Attempt \cup Elsewhere :
            txs'[x] = txs[x] \/ (txs'[x].state = "sent" /\ x = u.run)
      /\ u.pc # "sending" => txs' = txs
      /\ \A x : Sane(x) => Sane(x)'
  BY <1>1, SendingKeeps
<1>5. TypeClient'
  <2>1. row' \in PayRecord \cup {NoRow} /\ blocks' \in [latest : Nat, final : Nat]
    BY DEF IClient, TypeClient
  <2>2. requests' \subseteq [did : Step, new : PayRecord]
    BY DEF IClient, TypeClient
  <2>3. runs' \in 0..MaxRuns
    BY <1>2
  <2> QED BY <1>3, <1>4, <2>1, <2>2, <2>3 DEF TypeClient
<1>6. u.pc # "idle" => u.run \in 1..runs
  BY <1>1 DEF Counted
<1>7. ChainSound'
  <2>1. \A x \in Attempt \cup Elsewhere : txs'[x].state = "none" => txs'[x].at = 0
    BY <1>4 DEF IClient, TypeClient, ChainSound
  <2>2. \A a \in Attempt : a > runs' => txs'[a].state = "none"
    <3> SUFFICES ASSUME NEW a \in Attempt, a > runs' PROVE txs'[a].state = "none"
      OBVIOUS
    <3>1. a \in Nat /\ a > runs
      BY <1>2, AttemptTypes
    <3>2. txs[a].state = "none"
      BY <3>1 DEF IClient, ChainSound
    <3>3. u.pc = "sending" => a # u.run
      BY <1>2, <1>6, <3>1
    <3> QED BY <1>4, <3>2, <3>3
  <2>3. blocks'.final <= blocks'.latest
    BY DEF IClient, ChainSound
  <2> QED BY <1>4, <2>1, <2>2, <2>3 DEF ChainSound
<1>8. RowSound'
  BY <1>4 DEF IClient, RowSound
<1>9. RequestsSound'
  BY <1>4 DEF IClient, RequestsSound
<1>10. TabsSound'
  <2>1. Kept(t)
    <3>1. row # NoRow => Sane(row) /\ row.revision \in Nat
      BY DEF IClient, RowSound, Sane, PayRecord
    <3> QED BY <1>1, <3>1 DEF Kept, Past
  <2>2. Kept(t)'
    BY <1>4, <2>1 DEF Kept, Past
  <2>3. Counted(t)'
    BY <1>1, <1>2, <1>6 DEF Counted
  <2>4. ASSUME NEW d \in Tab, d # c PROVE Counted(tab[d])' /\ Placed(tab[d])' /\ Kept(tab[d])'
    BY <1>2, <1>3, <2>4, OthersKeep
  <2>5. ASSUME NEW d \in Tab, d # c PROVE Apart(t, tab[d]) /\ Apart(tab[d], t)
    <3>1. PICK v \in Run : v = tab[d] /\ Counted(v) /\ Kept(v)
      BY DEF IClient, TypeClient, TabsSound
    <3>2. Apart(u, v)
      BY <1>1, <2>5, <3>1 DEF IClient, TabsSound
    <3>3. t.pc # "idle" /\ v.pc # "idle" => t.run # v.run
      <4>1. v.pc # "idle" => v.run \in Nat /\ v.run <= runs
        BY <1>2, <3>1 DEF Counted
      <4> QED BY <1>1, <1>2, <3>2, <4>1 DEF Apart
    <3>4. t.saved # NoRow /\ v.saved # NoRow /\ t.saved.revision = v.saved.revision
          => t.saved = v.saved
      BY <1>1, <3>1, <3>2 DEF Apart, Kept, Past
    <3> QED BY <3>1, <3>3, <3>4 DEF Apart
  <2>6. ASSUME NEW d \in Tab, NEW e \in Tab, d # e PROVE Apart(tab[d], tab[e])'
    <3>1. CASE d = c
      BY <1>3, <2>5, <2>6, <3>1 DEF Apart
    <3>2. CASE e = c
      BY <1>3, <2>5, <2>6, <3>2 DEF Apart
    <3>3. CASE d # c /\ e # c
      BY <1>3, <2>6, <3>3 DEF IClient, TabsSound, Apart
    <3> QED BY <3>1, <3>2, <3>3
  <2> QED BY <1>3, <2>2, <2>3, <2>4, <2>6 DEF TabsSound
<1>11. AttemptsRecorded'
  <2> SUFFICES ASSUME NEW a \in Attempt, txs'[a].state # "none"
               PROVE  journal'[a] # "absent" /\ row # NoRow /\ a \in ToSet(row.attempts)
    BY DEF AttemptsRecorded
  <2>1. CASE txs'[a] = txs[a]
    BY <2>1 DEF IClient, AttemptsRecorded
  <2>2. CASE txs'[a] # txs[a]
    <3>1. u.pc = "sending" /\ a = u.run
      BY <1>4, <2>2
    <3>2. journal[a] # "absent" /\ a \in ToSet(u.saved.attempts) /\ u.saved # NoRow
      BY <1>1, <3>1 DEF Placed, Wanted, Written
    <3> QED BY <1>1, <3>2 DEF Kept, Past
  <2> QED BY <2>1, <2>2
<1> QED BY <1>5, <1>7, <1>8, <1>9, <1>10, <1>11 DEF IClient
-----------------------------------------------------------------------------
(* Steps of the service.                                                     *)

\* What the service stores is one revision on, and keeps what was there.
LEMMA Stored ==
    ASSUME IClient, NEW q \in requests, Serve(q)
    PROVE  /\ Sane(q.new) /\ q.new # NoRow
           /\ \A x \in PayRecord : Past(x) => Past(x)'
           /\ Accepted(q) => /\ row' = q.new /\ Past(q.new)'
                             /\ \A x \in PayRecord : Past(x) => x.revision < q.new.revision
                             /\ row # NoRow => row.state = "active"
                             /\ q.new.state = "released" => blocks.final > Deadline
           /\ ~Accepted(q) => row' = row
PROOF
<1>1. /\ q \in [did : Step, new : PayRecord] /\ Sane(q.new)
      /\ q.new.state = "released" => q.did = "release"
      /\ row # NoRow => Sane(row) /\ row \in PayRecord
  BY DEF IClient, TypeClient, RequestsSound, RowSound
<1>2. q.new \in PayRecord /\ q.new # NoRow /\ q.new.revision \in Nat
  BY <1>1, NoRowAssumption DEF PayRecord
<1>3. row' = IF Accepted(q) THEN q.new ELSE row
  BY DEF Serve
<1>4. ASSUME Accepted(q), row # NoRow
      PROVE  /\ row.state = "active" /\ q.new.revision = row.revision + 1
             /\ row.revision \in Nat /\ (row.started => q.new.started)
             /\ ToSet(row.attempts) \subseteq ToSet(q.new.attempts)
             /\ q.new.state = "released" => blocks.final > Deadline
  <2>1. /\ row.state = "active" /\ q.new.revision = row.revision + 1
        /\ row.started => q.new.started
        /\ IsPrefix(row.attempts, q.new.attempts)
        /\ q.did = "release" => blocks.final > Deadline
    BY <1>4 DEF Accepted
  <2>2. row.attempts \in Seq(Attempt) /\ q.new.attempts \in Seq(Attempt) /\ row.revision \in Nat
    BY <1>1, <1>2, <1>4 DEF PayRecord
  <2> QED BY <1>1, <2>1, <2>2, PrefixAttempts
<1>5. ASSUME Accepted(q), row = NoRow
      PROVE  q.new.revision = 1 /\ q.new.state # "released"
  BY <1>1, <1>5 DEF Accepted, Sane, Shaped
<1>6. Accepted(q) => Past(q.new)'
  BY <1>2, <1>3 DEF Past
<1>7. ASSUME NEW x \in PayRecord, Past(x)
      PROVE  Past(x)' /\ (Accepted(q) => x.revision < q.new.revision)
  <2>1. row # NoRow /\ x.revision <= row.revision /\ x.revision \in Nat
    BY <1>7 DEF Past, PayRecord
  <2>2. CASE Accepted(q)
    <3>1. x.revision < q.new.revision
      BY <1>2, <1>4, <2>1, <2>2
    <3>2. /\ x.started => q.new.started
          /\ ToSet(x.attempts) \subseteq ToSet(q.new.attempts)
      BY <1>4, <1>7, <2>1, <2>2 DEF Past
    <3> QED BY <1>2, <1>3, <2>1, <2>2, <3>1, <3>2 DEF Past
  <2>3. CASE ~Accepted(q)
    BY <1>3, <1>7, <2>3 DEF Past
  <2> QED BY <2>2, <2>3
<1> QED BY <1>1, <1>2, <1>3, <1>4, <1>5, <1>6, <1>7

\* How an answer moves the run that waits for it.
Answered(q, t, new) ==
    \/ new = t
    \/ /\ t.pc = "waiting" /\ t.want = q.new
       /\ \/ new = [t EXCEPT !.pc = "reread"]
          \/ Accepted(q) /\ new = [t EXCEPT !.pc = "ready", !.saved = q.new]

\* What the answer of the service makes of a tab.
LEMMA Answer ==
    ASSUME IClient, NEW q \in requests, Serve(q), NEW c \in Tab
    PROVE  Answered(q, tab[c], tab'[c])
PROOF
<1>1. PICK heard \in BOOLEAN :
         tab' = [d \in Tab |-> IF tab[d].pc # "waiting" \/ tab[d].want # q.new THEN tab[d]
                               ELSE IF heard /\ Accepted(q)
                               THEN [tab[d] EXCEPT !.pc = "ready", !.saved = q.new]
                               ELSE [tab[d] EXCEPT !.pc = "reread"]]
  BY DEF Serve
<1> QED BY <1>1 DEF Answered

\* A tab stays where it was, with the accepted row at most.
LEMMA ServeTab ==
    ASSUME IClient, NEW q \in requests, Serve(q), NEW c \in Tab
    PROVE  /\ tab'[c] \in Run
           /\ tab'[c].pc = "idle" <=> tab[c].pc = "idle"
           /\ tab'[c].run = tab[c].run
           /\ tab'[c].saved = tab[c].saved \/ (Accepted(q) /\ tab'[c].saved = q.new)
           /\ Counted(tab[c])' /\ Placed(tab[c])' /\ Kept(tab[c])'
PROOF
<1>1. PICK t \in Run : t = tab[c] /\ Counted(t) /\ Placed(t) /\ Kept(t)
  BY DEF IClient, TypeClient, TabsSound
<1>2. PICK new : new = tab'[c] /\ Answered(q, t, new)
  BY <1>1, Answer
<1>3. /\ Sane(q.new) /\ q.new # NoRow /\ q.new \in PayRecord
      /\ \A x \in PayRecord : Past(x) => Past(x)'
      /\ Accepted(q) => Past(q.new)'
  BY Stored DEF Sane
<1>4. /\ new \in Run /\ new.run = t.run /\ new.did = t.did /\ new.want = t.want
      /\ new.signed = t.signed /\ new.evidence = t.evidence
      /\ \/ new = t
         \/ /\ t.pc = "waiting" /\ t.want = q.new
            /\ \/ new.pc = "reread" /\ new.saved = t.saved
               \/ Accepted(q) /\ new.pc = "ready" /\ new.saved = q.new
  <2>1. CASE new = t
    BY <2>1
  <2>2. CASE t.pc = "waiting" /\ t.want = q.new /\ new = [t EXCEPT !.pc = "reread"]
    BY <2>2 DEF Run, Places
  <2>3. CASE /\ t.pc = "waiting" /\ t.want = q.new /\ Accepted(q)
             /\ new = [t EXCEPT !.pc = "ready", !.saved = q.new]
    BY <1>3, <2>3 DEF Run, Places
  <2> QED BY <1>2, <2>1, <2>2, <2>3 DEF Answered
<1>5. /\ UNCHANGED <<runs, signatures, progress, journal, txs, blocks, successor>>
  BY DEF Serve
<1>6. Counted(new)'
  BY <1>1, <1>4, <1>5 DEF Counted
<1>7. Kept(new)
      \/ (Accepted(q) /\ new.saved = q.new)
  BY <1>1, <1>4 DEF Kept
<1>8. \A x : Sane(x) <=> Sane(x)'
  BY <1>5 DEF Sane, DeadBefore, Dead, Shaped
<1>9. Kept(new)'
  BY <1>3, <1>7, <1>8 DEF Kept, Sane
<1>10. Placed(new)
  <2>1. CASE new = t
    BY <1>1, <2>1
  <2>2. CASE /\ t.pc = "waiting" /\ t.want = q.new
             /\ new.pc = "reread" /\ new.saved = t.saved
    BY <1>1, <1>4, <2>2 DEF Placed, Wanted
  <2>3. CASE /\ t.pc = "waiting" /\ t.want = q.new
             /\ new.pc = "ready" /\ new.saved = q.new
    <3>1. /\ t.did \in Written \cup {"release"} /\ Wanted(t)
          /\ t.did \notin {"submit", "hash"} => txs[t.run].state = "none"
      BY <1>1, <2>3 DEF Placed
    <3>2. t.did \notin {"submit", "retry", "resume", "none"}
      BY <3>1 DEF Written
    <3>3. Wanted(new) /\ new.did \in Step
      BY <1>4, <3>1 DEF Wanted, Run
    <3> QED BY <1>3, <1>4, <2>3, <3>1, <3>2, <3>3 DEF Placed
  <2> QED BY <1>4, <2>1, <2>2, <2>3
<1>11. Placed(new)'
  BY <1>5, <1>8, <1>10 DEF Placed, Wanted, Dead
<1> QED BY <1>1, <1>2, <1>4, <1>6, <1>9, <1>11

\* The service keeps the invariant.
LEMMA ServeKeeps ==
    ASSUME IClient, NEW q \in requests, Serve(q)
    PROVE  IClient'
PROOF
<1>1. /\ requests' \subseteq requests
      /\ UNCHANGED <<runs, signatures, progress, journal, txs, blocks, successor>>
  BY DEF Serve
<1>2. /\ Sane(q.new) /\ q.new # NoRow /\ q.new \in PayRecord
      /\ \A x \in PayRecord : Past(x) => Past(x)'
      /\ Accepted(q) => /\ row' = q.new
                        /\ \A x \in PayRecord : Past(x) => x.revision < q.new.revision
                        /\ row # NoRow => row.state = "active"
                        /\ q.new.state = "released" => blocks.final > Deadline
      /\ ~Accepted(q) => row' = row
  BY Stored DEF Sane
<1>3. ASSUME row # NoRow
      PROVE  /\ row' # NoRow /\ row'.revision >= row.revision /\ row.revision \in Nat
             /\ row'.revision \in Nat /\ (row.started => row'.started)
             /\ ToSet(row.attempts) \subseteq ToSet(row'.attempts)
  <2>1. PICK r \in PayRecord : r = row
    BY <1>3 DEF IClient, TypeClient
  <2>2. r.revision \in Nat
    BY <2>1 DEF PayRecord
  <2>3. Past(r)
    BY <1>3, <2>1, <2>2 DEF Past
  <2>4. Past(r)'
    BY <1>2, <2>3
  <2>5. row' \in PayRecord
    BY <1>2, <2>1
  <2>6. row'.revision \in Nat
    BY <2>5 DEF PayRecord
  <2> QED BY <2>1, <2>2, <2>4, <2>6 DEF Past
<1>4. \A x : Sane(x) <=> Sane(x)'
  BY <1>1 DEF Sane, DeadBefore, Dead, Shaped
<1>5. TypeClient'
  <2>1. tab' \in [Tab -> Run]
    <3>1. \A c \in Tab : tab'[c] \in Run
      BY ServeTab
    <3>2. tab' = [c \in Tab |-> tab'[c]]
      BY DEF Serve
    <3> QED BY <3>1, <3>2
  <2> QED BY <1>1, <1>2, <2>1 DEF IClient, TypeClient
<1>6. ChainSound'
  BY <1>1 DEF IClient, ChainSound
<1>7. RowSound'
  BY <1>1, <1>2, <1>4 DEF IClient, RowSound
<1>8. RequestsSound'
  BY <1>1, <1>4 DEF IClient, RequestsSound
<1>9. TabsSound'
  <2>1. ASSUME NEW c \in Tab, NEW d \in Tab, c # d PROVE Apart(tab[c], tab[d])'
    <3>1. /\ Apart(tab[c], tab[d]) /\ Kept(tab[c]) /\ Kept(tab[d])
          /\ tab[c] \in Run /\ tab[d] \in Run
      BY <2>1 DEF IClient, TypeClient, TabsSound
    <3>2. ASSUME NEW t \in Run, Kept(t), t.saved # NoRow, Accepted(q)
          PROVE  t.saved.revision # q.new.revision
      BY <1>2, <3>2 DEF Kept, Sane, PayRecord
    <3>3. /\ tab'[c].pc = "idle" <=> tab[c].pc = "idle"
          /\ tab'[d].pc = "idle" <=> tab[d].pc = "idle"
          /\ tab'[c].run = tab[c].run /\ tab'[d].run = tab[d].run
          /\ tab'[c].saved = tab[c].saved \/ (Accepted(q) /\ tab'[c].saved = q.new)
          /\ tab'[d].saved = tab[d].saved \/ (Accepted(q) /\ tab'[d].saved = q.new)
      BY ServeTab
    <3> QED BY <3>1, <3>2, <3>3 DEF Apart
  <2> QED BY <2>1, ServeTab DEF TabsSound
<1>10. SignedAfterStarted' /\ ProgressSigned' /\ AttemptsRecorded'
  <2>1. SignedAfterStarted'
    BY <1>1, <1>3 DEF IClient, SignedAfterStarted
  <2>2. ProgressSigned'
    BY <1>1, <1>3 DEF IClient, ProgressSigned
  <2>3. AttemptsRecorded'
    BY <1>1, <1>3 DEF IClient, AttemptsRecorded
  <2> QED BY <2>1, <2>2, <2>3
<1>11. DeadSuccessor'
  <2>1. successor => row' = row
    BY <1>2 DEF IClient, DeadSuccessor
  <2> QED BY <1>1, <2>1 DEF IClient, DeadSuccessor, Paid
<1> QED BY <1>5, <1>6, <1>7, <1>8, <1>9, <1>10, <1>11 DEF IClient
-----------------------------------------------------------------------------
(* Actions of a run.                                                         *)

\* A run that neither sends nor touches the journal.
LEMMA RunTurns ==
    ASSUME IClient, NEW c \in Tab, NEW t \in Run,
           tab' = [tab EXCEPT ![c] = t],
           UNCHANGED <<row, journal, txs, blocks, successor>>,
           runs' \in runs..MaxRuns,
           \/ t.pc = "idle"
           \/ tab[c].pc # "idle" /\ t.run = tab[c].run
           \/ t.run = runs + 1 /\ runs' = runs + 1,
           t.saved \in {tab[c].saved, row, NoRow},
           Placed(t),
           \A q \in requests' \ requests :
              /\ q \in [did : Step, new : PayRecord] /\ Sane(q.new)
              /\ q.new.state = "released" => q.did = "release",
           signatures' \subseteq {"pool", "payment"}, SignedAfterStarted',
           progress' \in BOOLEAN, ProgressSigned'
    PROVE  IClient'
PROOF
<1>1. Sending(tab[c])
  BY DEF Sending
<1>2. \A x : Sane(x) <=> Sane(x)'
  BY DEF Sane, DeadBefore, Dead, Shaped
<1>3. Placed(t)'
  BY <1>2 DEF Placed, Wanted, Dead
<1>4. journal' \in [Attempt -> {"absent", "prepared", "pending", "unknown"}]
  BY DEF IClient, TypeClient
<1>5. \A a \in Attempt : journal[a] # "absent" => journal'[a] # "absent"
  OBVIOUS
<1>6. successor' \in BOOLEAN /\ DeadSuccessor'
  BY DEF IClient, TypeClient, DeadSuccessor, Paid
<1> QED BY <1>1, <1>3, <1>4, <1>5, <1>6, RunMoves

\* An idle tab is a state of a tab.
LEMMA IdleTypes == Idle \in Run /\ Placed(Idle) /\ Idle.pc = "idle" /\ Idle.saved = NoRow
PROOF
<1>1. Idle \in Run /\ Idle.pc = "idle" /\ Idle.saved = NoRow /\ Idle.did = "none"
  BY DEF Idle, Run, Places, Actions, Step
<1> QED BY <1>1 DEF Placed

\* What a run that is under way holds.
LEMMA RunHolds ==
    ASSUME IClient, NEW c \in Tab, tab[c].pc # "idle"
    PROVE  \E u \in Run :
              /\ u = tab[c] /\ Placed(u) /\ u.run \in Attempt /\ runs \in runs..MaxRuns
              /\ u.saved # NoRow =>
                    /\ Sane(u.saved) /\ Past(u.saved) /\ u.saved \in PayRecord
                    /\ u.saved.revision \in Nat /\ u.saved.attempts \in Seq(Attempt)
                    /\ row # NoRow /\ row \in PayRecord /\ Shaped(row)
                    /\ u.saved.revision = row.revision => u.saved = row
PROOF
<1>1. PICK u \in Run : u = tab[c] /\ Counted(u) /\ Placed(u) /\ Kept(u)
  BY DEF IClient, TypeClient, TabsSound
<1>2. runs \in Nat /\ MaxRuns \in Nat /\ runs <= MaxRuns
  BY AttemptTypes DEF IClient, TypeClient
<1>3. u.run \in Attempt
  BY <1>1, <1>2 DEF Counted, Attempt
<1>4. u.saved # NoRow => /\ Sane(u.saved) /\ Past(u.saved) /\ u.saved \in PayRecord
                         /\ row # NoRow /\ row \in PayRecord /\ Shaped(row)
                         /\ u.saved.revision = row.revision => u.saved = row
  BY <1>1 DEF Kept, Sane, Past, IClient, TypeClient, RowSound
<1>5. \A x \in PayRecord : x.revision \in Nat /\ x.attempts \in Seq(Attempt)
  BY DEF PayRecord
<1> QED BY <1>1, <1>2, <1>3, <1>4, <1>5

\* A run that ends, or goes on to await its answer, having asked for nothing new.
LEMMA RunRests ==
    ASSUME IClient, NEW c \in Tab, NEW t \in Run,
           tab' = [tab EXCEPT ![c] = t],
           UNCHANGED <<row, runs, signatures, journal, txs, blocks, successor>>,
           t.pc = "idle" \/ (tab[c].pc # "idle" /\ t.run = tab[c].run),
           t.saved \in {tab[c].saved, row, NoRow}, Placed(t),
           requests' \subseteq requests, progress' \in BOOLEAN, ProgressSigned'
    PROVE  IClient'
PROOF
<1>1. runs' \in runs..MaxRuns
  BY AttemptTypes DEF IClient, TypeClient
<1>2. signatures' \subseteq {"pool", "payment"} /\ SignedAfterStarted'
  BY DEF IClient, TypeClient, SignedAfterStarted
<1> QED BY <1>1, <1>2, RunTurns

\* A tab that stops keeps the invariant.
LEMMA StopKeeps ==
    ASSUME IClient, NEW c \in Tab, Stop(c)
    PROVE  IClient'
PROOF
<1>1. progress' \in BOOLEAN /\ ProgressSigned'
  BY DEF Stop, IClient, TypeClient, ProgressSigned
<1> QED BY <1>1, IdleTypes, RunRests DEF Stop

\* An export keeps the invariant.
LEMMA FinishExportKeeps ==
    ASSUME IClient, NEW c \in Tab, FinishExport(c)
    PROVE  IClient'
PROOF
<1>1. row # NoRow /\ row.revision >= 3
  BY DEF FinishExport, StoredSignatures
<1>2. row.revision \in Nat
  BY <1>1 DEF IClient, TypeClient, PayRecord
<1>3. progress' \in BOOLEAN /\ ProgressSigned'
  BY <1>1, <1>2 DEF FinishExport, ProgressSigned
<1> QED BY <1>3, IdleTypes, RunRests DEF FinishExport

\* A write that times out keeps the invariant.
LEMMA WriteTimesOutKeeps ==
    ASSUME IClient, NEW c \in Tab, WriteTimesOut(c)
    PROVE  IClient'
PROOF
<1>1. PICK u \in Run : u = tab[c] /\ Placed(u) /\ u.pc = "waiting"
  BY RunHolds DEF WriteTimesOut
<1>2. PICK t \in Run : t = [u EXCEPT !.pc = "reread"]
  BY <1>1 DEF Run, Places
<1>3. /\ t.pc = "reread" /\ t.run = u.run /\ t.saved = u.saved /\ t.did = u.did
      /\ t.want = u.want /\ t.signed = u.signed
  BY <1>2 DEF Run
<1>4. Placed(t)
  BY <1>1, <1>3 DEF Placed, Wanted
<1>5. tab' = [tab EXCEPT ![c] = t] /\ requests' \subseteq requests
  BY <1>1, <1>2 DEF WriteTimesOut
<1>6. progress' \in BOOLEAN /\ ProgressSigned'
  BY DEF WriteTimesOut, IClient, TypeClient, ProgressSigned
<1> QED BY <1>1, <1>3, <1>4, <1>5, <1>6, RunRests DEF WriteTimesOut

\* The reading after it keeps the invariant.
LEMMA RereadKeeps ==
    ASSUME IClient, NEW c \in Tab, Reread(c)
    PROVE  IClient'
PROOF
<1>1. PICK u \in Run : /\ u = tab[c] /\ Placed(u) /\ u.pc = "reread"
                       /\ u.saved # NoRow => row # NoRow
  BY RunHolds DEF Reread
<1>2. u.did \in Written \cup {"release"} /\ Wanted(u) /\ u.want \in PayRecord
  BY <1>1 DEF Placed, Sane
<1>3. /\ row # NoRow /\ row \in PayRecord
      /\ u.did \in Written => row = u.want
  BY <1>1, <1>2, NoRowAssumption DEF Reread, OwnWrite, Placed, Written, IClient, TypeClient
<1>4. PICK r \in PayRecord : r = row
  BY <1>3
<1>5. PICK t \in Run : t = [u EXCEPT !.pc = "ready", !.saved = r]
  BY <1>1 DEF Run, Places
<1>6. /\ t.pc = "ready" /\ t.run = u.run /\ t.saved = r /\ t.did = u.did
      /\ t.want = u.want /\ t.signed = u.signed
  BY <1>5 DEF Run
<1>7. Placed(t)
  <2>1. txs[t.run].state = "none" \/ t.did = "hash"
    BY <1>1, <1>2, <1>6 DEF Placed, Written
  <2>2. t.did \in Written => t.saved = t.want /\ Wanted(t)
    BY <1>2, <1>3, <1>4, <1>6 DEF Wanted
  <2> QED BY <1>2, <1>3, <1>4, <1>6, <2>1, <2>2 DEF Placed, Written, Step
<1>8. tab' = [tab EXCEPT ![c] = t]
  BY <1>1, <1>4, <1>5 DEF Reread
<1>9. progress' \in BOOLEAN /\ ProgressSigned'
  BY DEF Reread, IClient, TypeClient, ProgressSigned
<1> QED BY <1>1, <1>4, <1>6, <1>7, <1>8, <1>9, RunRests DEF Reread

\* A run asks for its next row and waits.
LEMMA RunWrites ==
    ASSUME IClient, NEW c \in Tab, NEW did \in Written, NEW new \in PayRecord,
           tab[c].pc # "idle", Sane(new), new.state = "active",
           requests' = requests \cup {[did |-> did, new |-> new]},
           \/ tab' = [tab EXCEPT ![c].pc = "waiting", ![c].did = did, ![c].want = new]
           \/ tab' = [tab EXCEPT ![c].pc = "waiting", ![c].did = did, ![c].want = new,
                                 ![c].signed = TRUE],
           UNCHANGED <<row, runs, progress, journal, txs, blocks, successor>>,
           new.run = tab[c].run,
           did = "reserve" => new.revision = 1,
           did = "start" => new.revision = 2,
           did \in {"sign", "attempt", "hash"} => new.revision > 2,
           did = "sign" => new.attempts = <<>>,
           did = "attempt" => tab[c].run \in ToSet(new.attempts),
           did # "hash" => txs[tab[c].run].state = "none",
           signatures' \subseteq {"pool", "payment"}, SignedAfterStarted'
    PROVE  IClient'
PROOF
<1>1. PICK u \in Run : u = tab[c] /\ runs \in runs..MaxRuns
  BY RunHolds
<1>2. did \in Step /\ did \notin {"none", "submit", "release", "resume", "retry"}
  BY DEF Written, Step
<1>3. tab \in [Tab -> Run]
  BY DEF IClient, TypeClient
<1>4. PICK t \in Run :
         /\ t.pc = "waiting" /\ t.run = u.run /\ t.saved = u.saved /\ t.did = did
         /\ t.want = new /\ tab' = [tab EXCEPT ![c] = t]
  <2>1. CASE tab' = [tab EXCEPT ![c].pc = "waiting", ![c].did = did, ![c].want = new]
    <3>1. PICK t \in Run : t = [u EXCEPT !.pc = "waiting", !.did = did, !.want = new]
      BY <1>2 DEF Run, Places
    <3>2. /\ t.pc = "waiting" /\ t.run = u.run /\ t.saved = u.saved /\ t.did = did
          /\ t.want = new
      BY <3>1 DEF Run
    <3>3. tab' = [tab EXCEPT ![c] = t]
      BY <1>1, <1>3, <2>1, <3>1
    <3> QED BY <3>2, <3>3
  <2>2. CASE tab' = [tab EXCEPT ![c].pc = "waiting", ![c].did = did, ![c].want = new,
                                ![c].signed = TRUE]
    <3>1. PICK t \in Run : t = [u EXCEPT !.pc = "waiting", !.did = did, !.want = new,
                                         !.signed = TRUE]
      BY <1>2 DEF Run, Places
    <3>2. /\ t.pc = "waiting" /\ t.run = u.run /\ t.saved = u.saved /\ t.did = did
          /\ t.want = new
      BY <3>1 DEF Run
    <3>3. tab' = [tab EXCEPT ![c] = t]
      BY <1>1, <1>3, <2>2, <3>1
    <3> QED BY <3>2, <3>3
  <2> QED BY <2>1, <2>2
<1>5. Placed(t)
  BY <1>1, <1>2, <1>4 DEF Placed, Wanted
<1>7. \A q \in requests' \ requests :
         /\ q \in [did : Step, new : PayRecord] /\ Sane(q.new)
         /\ q.new.state = "released" => q.did = "release"
  BY <1>2
<1>8. progress' \in BOOLEAN /\ ProgressSigned'
  BY DEF IClient, TypeClient, ProgressSigned
<1> QED BY <1>1, <1>4, <1>5, <1>7, <1>8, RunTurns

\* A row that follows a sane one under the nonce of the run that writes it.
LEMMA RewrittenTypes ==
    ASSUME NEW c \in Tab, NEW x \in PayRecord, tab[c].run \in Attempt
    PROVE  /\ Rewritten(c, x) \in PayRecord
           /\ Rewritten(c, x).revision = x.revision + 1
           /\ Rewritten(c, x).run = tab[c].run
           /\ Rewritten(c, x).state = x.state
           /\ Rewritten(c, x).started = x.started
           /\ Rewritten(c, x).attempts = x.attempts
           /\ Rewritten(c, x).signed = x.signed
           /\ x.revision \in Nat /\ x.attempts \in Seq(Attempt)
PROOF
<1>1. PICK n \in Nat : n = tab[c].run
  BY AttemptTypes
<1>2. PICK k \in Nat : k = x.revision + 1 /\ x.revision \in Nat
  BY DEF PayRecord
<1>3. PICK y : y = Rewritten(c, x)
  OBVIOUS
<1>4. y = [x EXCEPT !.revision = k, !.run = n]
  BY <1>1, <1>2, <1>3 DEF Rewritten
<1>5. y \in PayRecord
  BY <1>4, Zenon DEF PayRecord
<1>6. /\ y.revision = k /\ y.run = n /\ y.state = x.state /\ y.started = x.started
      /\ y.attempts = x.attempts /\ y.signed = x.signed
  BY <1>4 DEF PayRecord
<1>7. x.attempts \in Seq(Attempt)
  BY DEF PayRecord
<1> QED BY <1>1, <1>2, <1>3, <1>5, <1>6, <1>7

\* The rows a run writes are records.
LEMMA NextRows ==
    ASSUME NEW y \in PayRecord
    PROVE  /\ [y EXCEPT !.started = TRUE] \in PayRecord
           /\ [y EXCEPT !.signed = TRUE] \in PayRecord
           /\ \A s \in Seq(Attempt) : [y EXCEPT !.attempts = s] \in PayRecord
           /\ [y EXCEPT !.state = "released", !.signed = FALSE] \in PayRecord
PROOF
<1>1. [y EXCEPT !.started = TRUE] \in PayRecord
  BY Zenon DEF PayRecord
<1>2. [y EXCEPT !.signed = TRUE] \in PayRecord
  BY Zenon DEF PayRecord
<1>3. \A s \in Seq(Attempt) : [y EXCEPT !.attempts = s] \in PayRecord
  BY Zenon DEF PayRecord
<1>4. [y EXCEPT !.state = "released", !.signed = FALSE] \in PayRecord
  BY Zenon DEF PayRecord
<1> QED BY <1>1, <1>2, <1>3, <1>4

\* The write before the signature keeps the invariant.
LEMMA WriteStartedKeeps ==
    ASSUME IClient, NEW c \in Tab, WriteStarted(c)
    PROVE  IClient'
PROOF
<1>1. PICK u \in Run : /\ u = tab[c] /\ Placed(u) /\ u.run \in Attempt
                       /\ u.saved # NoRow => /\ Sane(u.saved) /\ u.saved \in PayRecord
                                             /\ u.saved.revision \in Nat
  BY RunHolds DEF WriteStarted, Ready
<1>2. /\ u.pc = "ready" /\ u.did \in {"reserve", "resume"} /\ ~u.saved.started /\ ~u.signed
  BY <1>1 DEF WriteStarted, Ready
<1>3. /\ u.saved # NoRow /\ txs[u.run].state = "none" /\ u.saved.state = "active"
  BY <1>1, <1>2 DEF Placed, Wanted, Written
<1>4. PICK x \in PayRecord : x = u.saved /\ Sane(x) /\ x.state = "active" /\ x.revision \in Nat
  BY <1>1, <1>3
<1>5. x.revision = 1 /\ ~x.signed /\ x.attempts = <<>>
  BY <1>2, <1>4 DEF Sane, Shaped
<1>6. PICK new \in PayRecord : new = [Rewritten(c, x) EXCEPT !.started = TRUE]
  BY <1>1, <1>4, RewrittenTypes, NextRows
<1>7. /\ new.revision = 2 /\ new.run = u.run /\ new.state = "active"
      /\ new.started = TRUE /\ new.attempts = <<>> /\ new.signed = FALSE
  BY <1>1, <1>4, <1>5, <1>6, RewrittenTypes DEF PayRecord
<1>8. Sane(new)
  BY <1>7 DEF Sane, Shaped, DeadBefore
<1>9. /\ requests' = requests \cup {[did |-> "start", new |-> new]}
      /\ tab' = [tab EXCEPT ![c].pc = "waiting", ![c].did = "start", ![c].want = new]
  BY <1>1, <1>4, <1>6 DEF WriteStarted, Write
<1>10. signatures' \subseteq {"pool", "payment"} /\ SignedAfterStarted'
  BY DEF WriteStarted, IClient, TypeClient, SignedAfterStarted
<1>11. "start" \in Written
  BY DEF Written
<1>12. UNCHANGED <<row, runs, progress, journal, txs, blocks, successor>>
  BY DEF WriteStarted
<1> QED BY <1>1, <1>2, <1>3, <1>7, <1>8, <1>9, <1>10, <1>11, <1>12, RunWrites

\* The start of an authorization keeps the invariant.
LEMMA AuthorizeKeeps ==
    ASSUME IClient, NEW c \in Tab, NEW action \in {"authorize", "export"}, Authorize(c, action)
    PROVE  IClient'
PROOF
<1>1. PICK n \in Attempt : n = runs + 1 /\ runs' = n
  BY AttemptTypes DEF Authorize, Attempt, IClient, TypeClient
<1>2. n \in Nat /\ runs' \in runs..MaxRuns /\ txs[n].state = "none"
  BY <1>1, AttemptTypes DEF IClient, TypeClient, ChainSound
<1>3. PICK first : first = [revision |-> 1, state |-> "active", started |-> FALSE,
                            attempts |-> <<>>, run |-> n, signed |-> FALSE]
  OBVIOUS
<1>4. first \in PayRecord
  BY <1>2, <1>3 DEF PayRecord
<1>5. Sane(first) /\ first.state = "active" /\ first.revision = 1 /\ first.run = n
  BY <1>3, <1>4 DEF Sane, Shaped, DeadBefore
<1>6. PICK t : t = [Idle EXCEPT !.pc = "waiting", !.run = n, !.action = action,
                                !.did = "reserve", !.want = first]
  OBVIOUS
<1>7. /\ t \in Run /\ t.pc = "waiting" /\ t.run = n /\ t.did = "reserve" /\ t.want = first
      /\ t.saved = NoRow
  BY <1>2, <1>4, <1>6 DEF Idle, Run, Places, Actions, Step
<1>8. Placed(t)
  BY <1>2, <1>4, <1>5, <1>7 DEF Placed, Wanted, Written
<1>9. /\ tab' = [tab EXCEPT ![c] = t]
      /\ requests' = requests \cup {[did |-> "reserve", new |-> first]}
  BY <1>1, <1>3, <1>6 DEF Authorize
<1>10. \A q \in requests' \ requests :
          /\ q \in [did : Step, new : PayRecord] /\ Sane(q.new)
          /\ q.new.state = "released" => q.did = "release"
  BY <1>4, <1>5, <1>9 DEF Step
<1>11. /\ signatures' \subseteq {"pool", "payment"} /\ SignedAfterStarted'
       /\ progress' \in BOOLEAN /\ ProgressSigned'
  BY DEF Authorize, IClient, TypeClient, SignedAfterStarted, ProgressSigned
<1>12. UNCHANGED <<row, journal, txs, blocks, successor>>
  BY DEF Authorize
<1> QED BY <1>1, <1>2, <1>7, <1>8, <1>9, <1>10, <1>11, <1>12, RunTurns

\* The signature comes after the start was recorded.
LEMMA SignKeeps ==
    ASSUME IClient, NEW c \in Tab, Sign(c)
    PROVE  IClient'
PROOF
<1>1. PICK u \in Run : /\ u = tab[c] /\ Placed(u) /\ u.run \in Attempt /\ runs \in runs..MaxRuns
                       /\ u.saved # NoRow => /\ Sane(u.saved) /\ u.saved \in PayRecord
                                             /\ u.saved.revision \in Nat /\ Past(u.saved)
  BY RunHolds DEF Sign, Ready
<1>2. /\ u.pc = "ready" /\ u.did \in {"reserve", "start", "resume"}
      /\ u.saved.started /\ ~u.signed
  BY <1>1 DEF Sign, Ready, MaySign
<1>3. /\ u.saved # NoRow /\ txs[u.run].state = "none" /\ u.saved.state = "active"
      /\ ~(u.saved.revision > 2)
  BY <1>1, <1>2 DEF Placed, Wanted, Written
<1>4. PICK x \in PayRecord : /\ x = u.saved /\ Sane(x) /\ x.state = "active"
                             /\ x.revision \in Nat /\ x.started
  BY <1>1, <1>2, <1>3
<1>5. x.revision = 2 /\ x.attempts = <<>>
  BY <1>3, <1>4 DEF Sane, Shaped
<1>6. SignedAfterStarted'
  BY <1>1, <1>2, <1>3 DEF Past, SignedAfterStarted, Sign
<1>7. UNCHANGED <<row, runs, progress, journal, txs, blocks, successor>>
  BY DEF Sign
<1>8. progress' \in BOOLEAN /\ ProgressSigned'
  BY <1>7 DEF IClient, TypeClient, ProgressSigned
<1>9. ASSUME signatures' = signatures \cup {"pool"}, tab' = [tab EXCEPT ![c] = Idle],
             UNCHANGED requests
      PROVE  IClient'
  <2>1. signatures' \subseteq {"pool", "payment"}
    BY <1>9 DEF IClient, TypeClient
  <2> QED BY <1>1, <1>6, <1>7, <1>8, <1>9, <2>1, IdleTypes, RunTurns
<1>10. ASSUME NEW new, new = [Rewritten(c, x) EXCEPT !.signed = TRUE],
              signatures' = {"pool", "payment"},
              requests' = requests \cup {[did |-> "sign", new |-> new]},
              tab' = [tab EXCEPT ![c].pc = "waiting", ![c].did = "sign",
                                 ![c].want = new, ![c].signed = TRUE]
       PROVE  IClient'
  <2>1. new \in PayRecord
    BY <1>1, <1>4, <1>10, RewrittenTypes, NextRows
  <2>2. /\ new.revision = 3 /\ new.run = u.run /\ new.state = "active"
        /\ new.started /\ new.attempts = <<>> /\ new.signed = TRUE
    BY <1>1, <1>4, <1>5, <1>10, RewrittenTypes DEF PayRecord
  <2>3. Sane(new)
    BY <2>1, <2>2 DEF Sane, Shaped, DeadBefore
  <2>4. "sign" \in Written
    BY DEF Written
  <2>5. /\ signatures' \subseteq {"pool", "payment"} /\ new.revision > 2
        /\ tab[c].pc # "idle" /\ new.run = tab[c].run /\ txs[tab[c].run].state = "none"
    BY <1>1, <1>2, <1>3, <1>10, <2>2
  <2> QED BY <1>6, <1>7, <1>10, <2>1, <2>2, <2>3, <2>4, <2>5, RunWrites
<1> QED BY <1>1, <1>4, <1>9, <1>10 DEF Sign

\* The write of an attempt keeps the invariant.
LEMMA WriteAttemptKeeps ==
    ASSUME IClient, NEW c \in Tab, WriteAttempt(c)
    PROVE  IClient'
PROOF
<1>1. PICK u \in Run : /\ u = tab[c] /\ Placed(u) /\ u.run \in Attempt
                       /\ u.saved # NoRow => /\ Sane(u.saved) /\ u.saved \in PayRecord
                                             /\ u.saved.revision \in Nat
  BY RunHolds DEF WriteAttempt, Ready
<1>2. u.pc = "ready" /\ u.did \in {"sign", "resume", "retry"} /\ u.signed
  BY <1>1 DEF WriteAttempt, Ready
<1>3. /\ u.saved # NoRow /\ txs[u.run].state = "none" /\ u.saved.state = "active"
      /\ u.saved.revision > 2
      /\ \A i \in DOMAIN u.saved.attempts : Dead(u.saved.attempts[i])
  BY <1>1, <1>2 DEF Placed, Wanted, Written
<1>4. PICK x \in PayRecord : /\ x = u.saved /\ Sane(x) /\ x.state = "active"
                             /\ x.revision \in Nat /\ x.revision > 2
                             /\ \A i \in DOMAIN x.attempts : Dead(x.attempts[i])
  BY <1>1, <1>3
<1>5. x.started /\ x.signed
  BY <1>4 DEF Sane, Shaped
<1>6. PICK y \in PayRecord : y = Rewritten(c, x)
  BY <1>1, RewrittenTypes
<1>7. /\ y.revision = x.revision + 1 /\ y.run = u.run /\ y.state = "active"
      /\ y.started /\ y.signed /\ y.attempts = x.attempts /\ x.attempts \in Seq(Attempt)
  BY <1>1, <1>4, <1>5, <1>6, RewrittenTypes
<1>8. PICK s \in Seq(Attempt) : s = Append(y.attempts, u.run)
  BY <1>1, <1>7, AppendAttempt
<1>9. PICK new \in PayRecord : new = [y EXCEPT !.attempts = s]
  BY NextRows
<1>10. /\ new.revision = x.revision + 1 /\ new.run = u.run /\ new.state = "active"
       /\ new.started /\ new.signed /\ new.attempts = s
  BY <1>7, <1>9 DEF PayRecord
<1>11. DeadBefore(new)
  <2>1. /\ Len(s) = Len(x.attempts) + 1 /\ Len(x.attempts) \in Nat
        /\ \A i \in 1..Len(x.attempts) : s[i] = x.attempts[i]
    BY <1>1, <1>7, <1>8, AppendAttempt
  <2>2. \A i \in 1..Len(x.attempts) : Dead(x.attempts[i])
    BY <1>4, <1>7, LenProperties
  <2> QED BY <1>10, <2>1, <2>2 DEF DeadBefore
<1>12. Sane(new)
  BY <1>4, <1>10, <1>11 DEF Sane, Shaped
<1>13. u.run \in ToSet(new.attempts)
  BY <1>1, <1>7, <1>8, <1>10, AppendAttempt
<1>14. /\ requests' = requests \cup {[did |-> "attempt", new |-> new]}
       /\ tab' = [tab EXCEPT ![c].pc = "waiting", ![c].did = "attempt", ![c].want = new]
  <2>1. new = [Rewritten(c, tab[c].saved) EXCEPT !.attempts = Append(@, tab[c].run)]
    BY <1>1, <1>4, <1>6, <1>8, <1>9
  <2> QED BY <2>1 DEF WriteAttempt, Write
<1>15. signatures' \subseteq {"pool", "payment"} /\ SignedAfterStarted'
  BY DEF WriteAttempt, IClient, TypeClient, SignedAfterStarted
<1>16. "attempt" \in Written /\ new.revision > 2
  BY <1>4, <1>10 DEF Written
<1>17. UNCHANGED <<row, runs, progress, journal, txs, blocks, successor>>
  BY DEF WriteAttempt
<1> QED BY <1>1, <1>2, <1>3, <1>10, <1>12, <1>13, <1>14, <1>15, <1>16, <1>17, RunWrites

\* The saved hash keeps the invariant.
LEMMA PersistKnownHashKeeps ==
    ASSUME IClient, NEW c \in Tab, PersistKnownHash(c)
    PROVE  IClient'
PROOF
<1>1. PICK u \in Run : /\ u = tab[c] /\ Placed(u) /\ u.run \in Attempt
                       /\ u.saved # NoRow => /\ Sane(u.saved) /\ u.saved \in PayRecord
                                             /\ u.saved.revision \in Nat
  BY RunHolds DEF PersistKnownHash, Ready
<1>2. u.pc = "ready" /\ u.did = "submit"
  BY <1>1 DEF PersistKnownHash, Ready
<1>3. u.saved # NoRow /\ u.saved.state = "active" /\ u.saved.revision > 2
  BY <1>1, <1>2 DEF Placed
<1>4. PICK x \in PayRecord : /\ x = u.saved /\ Sane(x) /\ x.state = "active"
                             /\ x.revision \in Nat /\ x.revision > 2
  BY <1>1, <1>3
<1>5. PICK new \in PayRecord : new = Rewritten(c, x)
  BY <1>1, RewrittenTypes
<1>6. /\ new.revision = x.revision + 1 /\ new.run = u.run /\ new.state = "active"
      /\ new.started = x.started /\ new.signed = x.signed /\ new.attempts = x.attempts
  BY <1>1, <1>4, <1>5, RewrittenTypes
<1>7. Sane(new) /\ new.revision > 2
  BY <1>4, <1>6 DEF Sane, Shaped, DeadBefore
<1>8. /\ requests' = requests \cup {[did |-> "hash", new |-> new]}
      /\ tab' = [tab EXCEPT ![c].pc = "waiting", ![c].did = "hash", ![c].want = new]
  BY <1>1, <1>4, <1>5 DEF PersistKnownHash, Write
<1>9. signatures' \subseteq {"pool", "payment"} /\ SignedAfterStarted'
  BY DEF PersistKnownHash, IClient, TypeClient, SignedAfterStarted
<1>10. "hash" \in Written
  BY DEF Written
<1>11. UNCHANGED <<row, runs, progress, journal, txs, blocks, successor>>
  BY DEF PersistKnownHash
<1>12. tab[c].pc # "idle" /\ new.run = tab[c].run /\ new.state = "active"
  BY <1>1, <1>2, <1>6
<1> QED BY <1>7, <1>8, <1>9, <1>10, <1>11, <1>12, RunWrites

\* The journal keeps the invariant.
LEMMA JournalAttemptKeeps ==
    ASSUME IClient, NEW c \in Tab, JournalAttempt(c)
    PROVE  IClient'
PROOF
<1>1. PICK u \in Run : /\ u = tab[c] /\ Placed(u) /\ u.run \in Attempt /\ runs \in runs..MaxRuns
  BY RunHolds DEF JournalAttempt, Ready
<1>2. u.pc = "ready" /\ u.did = "attempt"
  BY <1>1 DEF JournalAttempt, Ready
<1>3. u.saved # NoRow /\ u.saved = u.want /\ Wanted(u) /\ txs[u.run].state = "none"
  BY <1>1, <1>2 DEF Placed, Written
<1>4. PICK t \in Run : t = [u EXCEPT !.pc = "sending"]
  BY <1>1 DEF Run, Places
<1>5. /\ t.pc = "sending" /\ t.run = u.run /\ t.saved = u.saved /\ t.did = u.did
      /\ t.want = u.want
  BY <1>4 DEF Run
<1>6. tab' = [tab EXCEPT ![c] = t]
  BY <1>1, <1>4 DEF JournalAttempt
<1>7. /\ UNCHANGED <<row, requests, runs, signatures, txs, blocks, successor>>
      /\ journal' = [journal EXCEPT ![u.run] = "prepared"] /\ progress' = TRUE
      /\ row # NoRow /\ row.revision >= 3
  BY <1>1 DEF JournalAttempt, StoredSignatures
<1>8. journal \in [Attempt -> {"absent", "prepared", "pending", "unknown"}]
  BY DEF IClient, TypeClient
<1>9. /\ journal' \in [Attempt -> {"absent", "prepared", "pending", "unknown"}]
      /\ \A a \in Attempt : journal[a] # "absent" => journal'[a] # "absent"
      /\ journal'[u.run] = "prepared"
  BY <1>1, <1>7, <1>8
<1>10. Placed(t)'
  BY <1>2, <1>3, <1>5, <1>7, <1>9 DEF Placed, Wanted
<1>11. ProgressSigned'
  BY <1>7 DEF ProgressSigned, IClient, TypeClient, PayRecord
<1>12. signatures' \subseteq {"pool", "payment"} /\ SignedAfterStarted'
  BY <1>7 DEF IClient, TypeClient, SignedAfterStarted
<1>13. successor' \in BOOLEAN /\ DeadSuccessor'
  BY <1>7 DEF IClient, TypeClient, DeadSuccessor, Paid
<1>14. Sending(tab[c])
  BY <1>7 DEF Sending
<1> QED BY <1>1, <1>2, <1>5, <1>6, <1>7, <1>9, <1>10, <1>11, <1>12, <1>13, <1>14, RunMoves

\* The sending keeps the invariant: the attempt was recorded before.
LEMMA SendKeeps ==
    ASSUME IClient, NEW c \in Tab, Send(c)
    PROVE  IClient'
PROOF
<1>1. PICK u \in Run : /\ u = tab[c] /\ Placed(u) /\ u.run \in Attempt /\ runs \in runs..MaxRuns
  BY RunHolds DEF Send
<1>2. u.pc = "sending"
  BY <1>1 DEF Send
<1>3. /\ u.did = "attempt" /\ u.saved # NoRow /\ u.saved = u.want /\ Wanted(u)
      /\ journal[u.run] # "absent" /\ txs[u.run].state = "none"
  BY <1>1, <1>2 DEF Placed
<1>4. PICK pc \in {"sent", "unsure"} :
         /\ tab' = [tab EXCEPT ![c] = [u EXCEPT !.pc = pc]]
         /\ txs' = txs \/ txs' = [txs EXCEPT ![u.run].state = "sent"]
  BY <1>1 DEF Send
<1>5. PICK t \in Run : t = [u EXCEPT !.pc = pc]
  BY <1>1 DEF Run, Places
<1>6. /\ t.pc = pc /\ t.run = u.run /\ t.saved = u.saved /\ t.did = u.did
      /\ t.want = u.want
  BY <1>5 DEF Run
<1>7. UNCHANGED <<row, requests, runs, signatures, progress, journal, blocks, successor>>
  BY DEF Send
<1>8. Sending(tab[c])
  BY <1>1, <1>2, <1>3, <1>4 DEF Sending
<1>9. Placed(t)'
  BY <1>3, <1>6, <1>7 DEF Placed, Wanted, Written
<1>10. /\ signatures' \subseteq {"pool", "payment"} /\ SignedAfterStarted'
       /\ progress' \in BOOLEAN /\ ProgressSigned'
       /\ journal' \in [Attempt -> {"absent", "prepared", "pending", "unknown"}]
  BY <1>7 DEF IClient, TypeClient, SignedAfterStarted, ProgressSigned
<1>11. successor' \in BOOLEAN /\ DeadSuccessor'
  <2>1. ~Paid => ~Paid'
    BY <1>1, <1>7, <1>8, SendingKeeps
  <2> QED BY <1>7, <2>1 DEF IClient, TypeClient, DeadSuccessor
<1>12. /\ tab' = [tab EXCEPT ![c] = t] /\ tab[c].pc # "idle" /\ t.run = tab[c].run
       /\ t.saved = tab[c].saved /\ runs' \in runs..MaxRuns
  BY <1>1, <1>2, <1>4, <1>5, <1>6, <1>7
<1> QED BY <1>7, <1>8, <1>9, <1>10, <1>11, <1>12, RunMoves

\* The record of the sending keeps the invariant.
LEMMA RecordSendKeeps ==
    ASSUME IClient, NEW c \in Tab, RecordSend(c)
    PROVE  IClient'
PROOF
<1>1. PICK u \in Run : /\ u = tab[c] /\ Placed(u) /\ u.run \in Attempt /\ runs \in runs..MaxRuns
  BY RunHolds DEF RecordSend
<1>2. u.pc \in {"sent", "unsure"}
  BY <1>1 DEF RecordSend
<1>3. u.did = "attempt" /\ u.saved # NoRow /\ u.saved = u.want /\ Wanted(u)
  BY <1>1, <1>2 DEF Placed
<1>4. UNCHANGED <<row, requests, runs, signatures, progress, txs, blocks, successor>>
  BY DEF RecordSend
<1>5. journal \in [Attempt -> {"absent", "prepared", "pending", "unknown"}]
  BY DEF IClient, TypeClient
<1>6. /\ journal' \in [Attempt -> {"absent", "prepared", "pending", "unknown"}]
      /\ \A a \in Attempt : journal[a] # "absent" => journal'[a] # "absent"
  BY <1>1, <1>5 DEF RecordSend
<1>7. Sending(tab[c])
  BY <1>4 DEF Sending
<1>8. /\ signatures' \subseteq {"pool", "payment"} /\ SignedAfterStarted'
      /\ progress' \in BOOLEAN /\ ProgressSigned'
      /\ successor' \in BOOLEAN /\ DeadSuccessor'
  BY <1>4 DEF IClient, TypeClient, SignedAfterStarted, ProgressSigned, DeadSuccessor, Paid
<1>9. CASE tab' = [tab EXCEPT ![c].pc = "ready", ![c].did = "submit"]
  <2>1. PICK t \in Run : t = [u EXCEPT !.pc = "ready", !.did = "submit"]
    BY <1>1 DEF Run, Places, Step
  <2>2. /\ t.pc = "ready" /\ t.run = u.run /\ t.saved = u.saved /\ t.did = "submit"
    BY <2>1 DEF Run
  <2>3. tab' = [tab EXCEPT ![c] = t]
    <3>1. tab \in [Tab -> Run]
      BY DEF IClient, TypeClient
    <3> QED BY <1>1, <1>9, <2>1, <3>1
  <2>4. t.saved.state = "active" /\ t.saved.revision > 2
    BY <1>3, <2>2 DEF Wanted, Written
  <2>5. Placed(t)'
    BY <1>3, <2>2, <2>4 DEF Placed, Written, Step
  <2> QED BY <1>1, <1>2, <1>4, <1>6, <1>7, <1>8, <2>2, <2>3, <2>5, RunMoves
<1>10. CASE tab' = [tab EXCEPT ![c] = Idle]
  <2>1. Placed(Idle)'
    BY DEF Placed, Idle
  <2> QED BY <1>1, <1>4, <1>6, <1>7, <1>8, <1>10, <2>1, IdleTypes, RunMoves
<1> QED BY <1>9, <1>10 DEF RecordSend
-----------------------------------------------------------------------------
(* Recovery.                                                                 *)

\* The evidence is of the final block.
LEMMA EvidenceTypes ==
    ASSUME IClient
    PROVE  /\ Evidence \in Seen /\ Evidence.time = blocks.final
           /\ \A a \in Attempt : Evidence.outcomes[a] = "finalized-failure" => Dead(a)
PROOF
<1>1. blocks.final \in Nat
  BY DEF IClient, TypeClient
<1>2. \A a \in Attempt : /\ Outcome(a) \in {"finalized-failure", "unknown"}
                         /\ Outcome(a) = "finalized-failure" => Dead(a)
  BY DEF Outcome, Dead, Final
<1>3. PaidFinally \in BOOLEAN /\ InputSpentFinally \in BOOLEAN
  BY DEF PaidFinally, InputSpentFinally
<1>4. [a \in Attempt |-> Outcome(a)] \in [Attempt -> {"finalized-failure", "unknown"}]
  BY <1>2
<1> QED BY <1>1, <1>2, <1>3, <1>4 DEF Evidence, Seen

\* The reading for a recovery keeps the invariant.
LEMMA RecoverReadKeeps ==
    ASSUME IClient, NEW c \in Tab,
           NEW action \in {"resume-original", "retry-attempt", "change-terms"},
           RecoverRead(c, action)
    PROVE  IClient'
PROOF
<1>1. PICK n \in Attempt : n = runs + 1 /\ runs' = n
  BY AttemptTypes DEF RecoverRead, Attempt, IClient, TypeClient
<1>2. n \in Nat /\ runs' \in runs..MaxRuns /\ txs[n].state = "none"
  BY <1>1, AttemptTypes DEF IClient, TypeClient, ChainSound
<1>3. PICK e \in Seen : /\ e = Evidence /\ e.time = blocks.final
                        /\ \A a \in Attempt : e.outcomes[a] = "finalized-failure" => Dead(a)
  BY EvidenceTypes
<1>4. PICK r \in PayRecord : r = row /\ r # NoRow
  BY DEF RecoverRead, IClient, TypeClient
<1>5. PICK t : t = [Idle EXCEPT !.pc = "evidence", !.run = n, !.action = action,
                                !.saved = r, !.evidence = e]
  OBVIOUS
<1>6. /\ t \in Run /\ t.pc = "evidence" /\ t.run = n /\ t.did = "none" /\ t.saved = r
      /\ t.evidence = e
  BY <1>2, <1>5 DEF Idle, Run, Places, Actions, Step
<1>7. Placed(t)
  <2>1. e.time <= blocks.final
    BY <1>3 DEF IClient, TypeClient
  <2> QED BY <1>2, <1>3, <1>4, <1>6, <2>1 DEF Placed
<1>8. tab' = [tab EXCEPT ![c] = t]
  BY <1>1, <1>3, <1>4, <1>5 DEF RecoverRead
<1>9. /\ signatures' \subseteq {"pool", "payment"} /\ SignedAfterStarted'
      /\ progress' \in BOOLEAN /\ ProgressSigned'
  BY DEF RecoverRead, IClient, TypeClient, SignedAfterStarted, ProgressSigned
<1>10. UNCHANGED <<row, requests, journal, txs, blocks, successor>>
  BY DEF RecoverRead
<1> QED BY <1>1, <1>2, <1>4, <1>6, <1>7, <1>8, <1>9, <1>10, RunTurns

\* The record judged is the one read; what each verdict says of it.
LEMMA JudgedRow ==
    ASSUME IClient, NEW c \in Tab, Judged(c)
    PROVE  \E u \in Run :
              /\ u = tab[c] /\ Placed(u) /\ u.pc = "evidence" /\ u.run \in Attempt
              /\ runs \in runs..MaxRuns
              /\ u.saved = row /\ row \in PayRecord /\ Sane(u.saved) /\ row # NoRow
              /\ u.saved.revision \in Nat
              /\ u.action = "resume-original" =>
                    u.saved.state = "active" /\ u.saved.attempts = <<>>
              /\ u.action = "retry-attempt" =>
                    /\ u.saved.state = "active"
                    /\ \A i \in DOMAIN u.saved.attempts : Dead(u.saved.attempts[i])
PROOF
<1>1. PICK u \in Run :
         /\ u = tab[c] /\ Placed(u) /\ u.run \in Attempt /\ runs \in runs..MaxRuns
         /\ u.saved # NoRow =>
               /\ Sane(u.saved) /\ u.saved \in PayRecord /\ row # NoRow
               /\ u.saved.revision \in Nat /\ u.saved.attempts \in Seq(Attempt)
               /\ u.saved.revision = row.revision => u.saved = row
  BY RunHolds DEF Judged
<1>2. /\ u.pc = "evidence" /\ row.revision = u.saved.revision
      /\ u.action = Inspect(u.saved, u.evidence,
                            row.state = "active" \/ u.action = "change-terms")
  BY <1>1 DEF Judged
<1>3. /\ u.saved # NoRow
      /\ \A a \in Attempt : u.evidence.outcomes[a] = "finalized-failure" => Dead(a)
  BY <1>1, <1>2 DEF Placed
<1>4. /\ u.saved = row /\ row \in PayRecord /\ Sane(u.saved) /\ row # NoRow
      /\ u.saved.revision \in Nat
  BY <1>1, <1>2, <1>3
<1>5. u.action = "resume-original" => u.saved.state = "active" /\ u.saved.attempts = <<>>
  BY <1>2, <1>4 DEF Inspect
<1>6. ASSUME u.action = "retry-attempt"
      PROVE  /\ u.saved.state = "active"
             /\ \A i \in DOMAIN u.saved.attempts : Dead(u.saved.attempts[i])
  <2>1. /\ u.saved.state = "active"
        /\ \A i \in DOMAIN u.saved.attempts :
              u.evidence.outcomes[u.saved.attempts[i]] = "finalized-failure"
    BY <1>2, <1>4, <1>6 DEF Inspect
  <2>2. \A i \in DOMAIN u.saved.attempts : u.saved.attempts[i] \in Attempt
    BY <1>1, <1>3
  <2> QED BY <1>3, <2>1, <2>2
<1> QED BY <1>1, <1>2, <1>4, <1>5, <1>6

\* The resumption of the original attempt keeps the invariant.
LEMMA ResumeOriginalKeeps ==
    ASSUME IClient, NEW c \in Tab, ResumeOriginal(c)
    PROVE  IClient'
PROOF
<1>1. PICK u \in Run :
         /\ u = tab[c] /\ Placed(u) /\ u.pc = "evidence" /\ u.run \in Attempt
         /\ u.saved = row /\ row # NoRow /\ u.saved.revision \in Nat
         /\ u.saved.state = "active" /\ u.saved.attempts = <<>>
  <2>1. Judged(c) /\ tab[c].action = "resume-original"
    BY DEF ResumeOriginal
  <2> QED BY <2>1, JudgedRow
<1>2. u.did = "none" /\ txs[u.run].state = "none"
  BY <1>1 DEF Placed
<1>3. PICK signed \in BOOLEAN : signed = (u.saved.revision >= 3 \/ progress)
  BY DEF IClient, TypeClient
<1>4. /\ progress' = signed
      /\ tab' = [tab EXCEPT ![c].pc = "ready", ![c].did = "resume", ![c].signed = signed,
                            ![c].evidence = <<>>]
      /\ UNCHANGED <<row, requests, runs, signatures, journal, txs, blocks, successor>>
  BY <1>1, <1>3 DEF ResumeOriginal
<1>5. signed <=> u.saved.revision > 2
  <2>1. progress => u.saved.revision > 2
    BY <1>1 DEF IClient, ProgressSigned
  <2>2. u.saved.revision >= 3 <=> u.saved.revision > 2
    BY <1>1
  <2> QED BY <1>3, <2>1, <2>2, Zenon
<1>6. PICK t \in Run : t = [u EXCEPT !.pc = "ready", !.did = "resume", !.signed = signed,
                                     !.evidence = <<>>]
  BY <1>1 DEF Run, Places, Step
<1>7. /\ t.pc = "ready" /\ t.run = u.run /\ t.saved = u.saved /\ t.did = "resume"
      /\ t.signed = signed
  BY <1>6 DEF Run
<1>8. tab' = [tab EXCEPT ![c] = t]
  <2>1. tab \in [Tab -> Run]
    BY DEF IClient, TypeClient
  <2> QED BY <1>1, <1>4, <1>6, <2>1
<1>9. Placed(t)
  BY <1>1, <1>2, <1>5, <1>7 DEF Placed, Written, Step
<1>10. progress' \in BOOLEAN /\ ProgressSigned'
  BY <1>1, <1>4, <1>5 DEF ProgressSigned
<1> QED BY <1>1, <1>4, <1>7, <1>8, <1>9, <1>10, RunRests

\* Another attempt keeps the invariant.
LEMMA RetryAttemptKeeps ==
    ASSUME IClient, NEW c \in Tab, RetryAttempt(c)
    PROVE  IClient'
PROOF
<1>1. PICK u \in Run :
         /\ u = tab[c] /\ Placed(u) /\ u.pc = "evidence" /\ u.run \in Attempt
         /\ u.saved = row /\ row # NoRow /\ u.saved.state = "active"
         /\ \A i \in DOMAIN u.saved.attempts : Dead(u.saved.attempts[i])
  <2>1. Judged(c) /\ tab[c].action = "retry-attempt"
    BY DEF RetryAttempt
  <2>2. PICK u \in Run :
           /\ u = tab[c] /\ Placed(u) /\ u.pc = "evidence" /\ u.run \in Attempt
           /\ u.saved = row /\ row # NoRow
           /\ u.action = "retry-attempt" =>
                 /\ u.saved.state = "active"
                 /\ \A i \in DOMAIN u.saved.attempts : Dead(u.saved.attempts[i])
    BY <2>1, JudgedRow, Zenon
  <2> QED BY <2>1, <2>2
<1>2. /\ u.did = "none" /\ txs[u.run].state = "none" /\ u.saved.revision > 2
  BY <1>1 DEF Placed, RetryAttempt, IClient, ProgressSigned
<1>3. /\ tab' = [tab EXCEPT ![c].pc = "ready", ![c].did = "retry", ![c].signed = TRUE,
                            ![c].evidence = <<>>]
      /\ UNCHANGED <<row, requests, runs, signatures, progress, journal, txs, blocks, successor>>
  BY DEF RetryAttempt
<1>4. PICK t \in Run : t = [u EXCEPT !.pc = "ready", !.did = "retry", !.signed = TRUE,
                                     !.evidence = <<>>]
  BY <1>1 DEF Run, Places, Step
<1>5. /\ t.pc = "ready" /\ t.run = u.run /\ t.saved = u.saved /\ t.did = "retry"
  BY <1>4 DEF Run
<1>6. tab' = [tab EXCEPT ![c] = t]
  <2>1. tab \in [Tab -> Run]
    BY DEF IClient, TypeClient
  <2> QED BY <1>1, <1>3, <1>4, <2>1
<1>7. Placed(t)
  BY <1>1, <1>2, <1>5 DEF Placed, Written, Step
<1>8. progress' \in BOOLEAN /\ ProgressSigned'
  BY <1>3 DEF IClient, TypeClient, ProgressSigned
<1> QED BY <1>1, <1>3, <1>5, <1>6, <1>7, <1>8, RunRests

\* A change of terms keeps the invariant.
LEMMA ChangeTermsKeeps ==
    ASSUME IClient, NEW c \in Tab, ChangeTerms(c)
    PROVE  IClient'
PROOF
<1>1. PICK u \in Run :
         /\ u = tab[c] /\ Placed(u) /\ u.pc = "evidence" /\ u.run \in Attempt
         /\ u.saved = row /\ row \in PayRecord /\ Sane(u.saved) /\ row # NoRow
         /\ runs \in runs..MaxRuns
  BY JudgedRow DEF ChangeTerms
<1>2. u.did = "none" /\ txs[u.run].state = "none"
  BY <1>1 DEF Placed
<1>3. PICK x \in PayRecord : x = row /\ x = u.saved /\ Sane(x)
  BY <1>1
<1>4. PICK y \in PayRecord : y = Rewritten(c, x)
  BY <1>1, RewrittenTypes
<1>5. /\ y.revision = x.revision + 1 /\ y.attempts = x.attempts /\ x.revision \in Nat
  BY <1>1, <1>4, RewrittenTypes
<1>6. PICK released \in PayRecord : released = [y EXCEPT !.state = "released", !.signed = FALSE]
  BY NextRows
<1>7. /\ released.revision = x.revision + 1 /\ released.attempts = x.attempts
      /\ released.state = "released"
  BY <1>5, <1>6 DEF PayRecord
<1>8. Sane(released)
  BY <1>3, <1>5, <1>7 DEF Sane, Shaped, DeadBefore
<1>9. UNCHANGED <<row, runs, signatures, progress, journal, txs, blocks, successor>>
  BY DEF ChangeTerms
<1>10. /\ signatures' \subseteq {"pool", "payment"} /\ SignedAfterStarted'
       /\ progress' \in BOOLEAN /\ ProgressSigned'
  BY <1>9 DEF IClient, TypeClient, SignedAfterStarted, ProgressSigned
<1>11. tab \in [Tab -> Run]
  BY DEF IClient, TypeClient
<1>12. CASE row.state = "released"
  <2>1. /\ tab' = [tab EXCEPT ![c].pc = "ready", ![c].did = "release", ![c].want = x,
                              ![c].evidence = <<>>]
        /\ UNCHANGED requests
    BY <1>3, <1>12 DEF ChangeTerms
  <2>2. PICK t \in Run : t = [u EXCEPT !.pc = "ready", !.did = "release", !.want = x,
                                       !.evidence = <<>>]
    BY <1>1 DEF Run, Places, Step
  <2>3. /\ t.pc = "ready" /\ t.run = u.run /\ t.saved = u.saved /\ t.did = "release"
    BY <2>2 DEF Run
  <2>4. tab' = [tab EXCEPT ![c] = t]
    BY <1>1, <1>11, <2>1, <2>2
  <2>5. Placed(t)
    BY <1>1, <1>2, <2>3 DEF Placed, Written, Step
  <2> QED BY <1>1, <1>9, <1>10, <2>1, <2>3, <2>4, <2>5, RunRests
<1>13. CASE row.state # "released"
  <2>1. /\ requests' = requests \cup {[did |-> "release", new |-> released]}
        /\ tab' = [tab EXCEPT ![c].pc = "waiting", ![c].did = "release",
                              ![c].want = released, ![c].evidence = <<>>]
    BY <1>1, <1>3, <1>4, <1>6, <1>13 DEF ChangeTerms
  <2>2. PICK t \in Run : t = [u EXCEPT !.pc = "waiting", !.did = "release",
                                       !.want = released, !.evidence = <<>>]
    BY <1>1 DEF Run, Places, Step
  <2>3. /\ t.pc = "waiting" /\ t.run = u.run /\ t.saved = u.saved /\ t.did = "release"
        /\ t.want = released
    BY <2>2 DEF Run
  <2>4. tab' = [tab EXCEPT ![c] = t]
    BY <1>1, <1>11, <2>1, <2>2
  <2>5. Placed(t)
    BY <1>1, <1>2, <1>8, <2>3 DEF Placed, Wanted, Written
  <2>6. \A q \in requests' \ requests :
           /\ q \in [did : Step, new : PayRecord] /\ Sane(q.new)
           /\ q.new.state = "released" => q.did = "release"
    BY <1>8, <2>1 DEF Step
  <2>7. /\ tab[c].pc # "idle" /\ t.run = tab[c].run /\ t.saved = tab[c].saved
        /\ runs' \in runs..MaxRuns
    BY <1>1, <1>9, <2>3
  <2> QED BY <1>9, <1>10, <2>4, <2>5, <2>6, <2>7, RunTurns
<1> QED BY <1>12, <1>13

\* A successor is prepared only when every attempt is dead.
LEMMA PrepareSuccessorKeeps ==
    ASSUME IClient, NEW c \in Tab, PrepareSuccessor(c)
    PROVE  IClient'
PROOF
<1>1. PICK u \in Run : /\ u = tab[c] /\ Placed(u) /\ runs \in runs..MaxRuns
                       /\ u.saved # NoRow => row # NoRow
  BY RunHolds DEF PrepareSuccessor, Ready
<1>2. u.pc = "ready" /\ u.did = "release" /\ row.state = "released" /\ ~InputSpent
  BY <1>1 DEF PrepareSuccessor, Ready, ReleaseConfirmed
<1>3. row # NoRow
  BY <1>1, <1>2 DEF Placed
<1>4. /\ UNCHANGED <<row, requests, runs, signatures, progress, journal, txs, blocks>>
      /\ successor' = TRUE /\ tab' = [tab EXCEPT ![c] = Idle]
  BY DEF PrepareSuccessor
<1>5. blocks.final > Deadline /\ ~Paid
  BY <1>2, <1>3 DEF IClient, RowSound, InputSpent, Paid
<1>6. DeadSuccessor' /\ successor' \in BOOLEAN
  BY <1>2, <1>3, <1>4, <1>5 DEF DeadSuccessor, Paid
<1>7. /\ signatures' \subseteq {"pool", "payment"} /\ SignedAfterStarted'
      /\ progress' \in BOOLEAN /\ ProgressSigned'
      /\ journal' \in [Attempt -> {"absent", "prepared", "pending", "unknown"}]
  BY <1>4 DEF IClient, TypeClient, SignedAfterStarted, ProgressSigned
<1>8. Sending(tab[c])
  BY <1>4 DEF Sending
<1>9. Placed(Idle)'
  BY DEF Placed, Idle
<1> QED BY <1>1, <1>4, <1>6, <1>7, <1>8, <1>9, IdleTypes, RunMoves
-----------------------------------------------------------------------------
(* The specification.                                                        *)

\* The invariant holds initially.
LEMMA ClientInit == InitClient => IClient
PROOF
<1> SUFFICES ASSUME InitClient PROVE IClient
  OBVIOUS
<1>1. /\ row = NoRow /\ requests = {} /\ runs = 0 /\ tab = [c \in Tab |-> Idle]
      /\ signatures = {} /\ progress = FALSE /\ successor = FALSE
      /\ journal = [a \in Attempt |-> "absent"]
      /\ txs = [t \in Attempt \cup Elsewhere |-> [state |-> "none", at |-> 0]]
      /\ blocks = [latest |-> 0, final |-> 0]
  BY DEF InitClient
<1>2. \A t \in Attempt \cup Elsewhere : txs[t].state = "none" /\ txs[t].at = 0
  BY <1>1
<1>3. \A c \in Tab : tab[c] = Idle
  BY <1>1
<1>4. TypeClient
  <2>1. txs \in [Attempt \cup Elsewhere -> Fate] /\ tab \in [Tab -> Run]
    BY <1>1, IdleTypes DEF Fate
  <2>2. runs \in 0..MaxRuns /\ blocks \in [latest : Nat, final : Nat]
    BY <1>1, AttemptTypes
  <2> QED BY <1>1, <2>1, <2>2 DEF TypeClient
<1>5. ChainSound
  BY <1>1, <1>2 DEF ChainSound
<1>6. TabsSound
  BY <1>3, IdleTypes DEF TabsSound, Counted, Kept, Apart
<1>7. RowSound /\ RequestsSound /\ SignedAfterStarted /\ ProgressSigned /\ DeadSuccessor
  BY <1>1 DEF RowSound, RequestsSound, SignedAfterStarted, ProgressSigned, DeadSuccessor
<1>8. AttemptsRecorded
  BY <1>2 DEF AttemptsRecorded
<1> QED BY <1>4, <1>5, <1>6, <1>7, <1>8 DEF IClient

\* Every step keeps the invariant.
LEMMA ClientStep == IClient /\ [NextClient]_varsClient => IClient'
PROOF
<1> SUFFICES ASSUME IClient, [NextClient]_varsClient PROVE IClient'
  OBVIOUS
<1>1. ASSUME NEW c \in Tab, TabStep(c) PROVE IClient'
  <2>1. ASSUME NEW action \in {"authorize", "export"}, Authorize(c, action) PROVE IClient'
    BY <2>1, AuthorizeKeeps
  <2>2. ASSUME NEW action \in {"resume-original", "retry-attempt", "change-terms"},
               RecoverRead(c, action)
        PROVE  IClient'
    BY <2>2, RecoverReadKeeps
  <2>3. CASE WriteStarted(c) \/ Sign(c) \/ WriteAttempt(c) \/ PersistKnownHash(c)
    BY <2>3, WriteStartedKeeps, SignKeeps, WriteAttemptKeeps, PersistKnownHashKeeps
  <2>4. CASE FinishExport(c) \/ JournalAttempt(c) \/ Send(c) \/ RecordSend(c)
    BY <2>4, FinishExportKeeps, JournalAttemptKeeps, SendKeeps, RecordSendKeeps
  <2>5. CASE ResumeOriginal(c) \/ RetryAttempt(c) \/ ChangeTerms(c) \/ PrepareSuccessor(c)
    BY <2>5, ResumeOriginalKeeps, RetryAttemptKeeps, ChangeTermsKeeps, PrepareSuccessorKeeps
  <2>6. CASE WriteTimesOut(c) \/ Reread(c) \/ Stop(c)
    BY <2>6, WriteTimesOutKeeps, RereadKeeps, StopKeeps
  <2> QED BY <1>1, <2>1, <2>2, <2>3, <2>4, <2>5, <2>6 DEF TabStep
<1>2. ASSUME NEW q \in requests, Serve(q) PROVE IClient'
  BY <1>2, ServeKeeps
<1>3. CASE \/ \E t \in Attempt \cup Elsewhere : Mine(t)
           \/ \E t \in Elsewhere : ForeignSend(t)
           \/ EmptyMine \/ MineFinal \/ MineAgain
  BY <1>3, ChainKeeps
<1>4. CASE UNCHANGED varsClient
  <2>1. /\ blocks' = blocks /\ txs' = txs
        /\ UNCHANGED <<row, requests, tab, runs, signatures, progress, journal, successor>>
    BY <1>4 DEF varsClient
  <2>2. TypeClient' /\ ChainSound'
    BY <2>1 DEF IClient, TypeClient, ChainSound
  <2>3. blocks.final <= blocks'.final
    BY <2>1 DEF IClient, TypeClient
  <2> QED BY <2>1, <2>2, <2>3, Undisturbed DEF Paid, Dead
<1> QED BY <1>1, <1>2, <1>3, <1>4 DEF NextClient

\* In every state: what each step of process.ts, recovery.ts and recoverAck
\* leaves true of the record, of the writes on their way and of every run.
THEOREM ClientInvariant == SpecClient => []IClient
PROOF
<1> QED BY ClientInit, ClientStep, PTL DEF SpecClient

\* process.ts asks the wallet only after "signature started" is stored at the
\* service, for every number of processes, lost answers and late writes.
THEOREM ClientSignsAfterStarted == SpecClient => []SignedAfterStarted
PROOF
<1>1. IClient => SignedAfterStarted
  BY DEF IClient
<1> QED BY <1>1, ClientInvariant, PTL

\* What payment-owner.ts reads an active revision 3 for: it holds signatures,
\* whichever of the writes of process.ts and recovery.ts produced it.
THEOREM ClientRevisionCarriesSignatures == SpecClient => []RevisionCarriesSignatures
PROOF
<1>1. IClient => RevisionCarriesSignatures
  <2> SUFFICES ASSUME IClient, row # NoRow, row.state = "active", row.revision >= 3
               PROVE  row.signed
    BY DEF RevisionCarriesSignatures
  <2>1. Shaped(row) /\ row.revision \in Nat
    BY DEF IClient, TypeClient, RowSound, Sane, PayRecord
  <2> QED BY <2>1 DEF Shaped
<1> QED BY <1>1, ClientInvariant, PTL

\* recoverAck: no two runs go on from one written revision, because a run goes
\* on only with the row it wrote, which holds its own nonce.
THEOREM ClientOneHolder == SpecClient => []OneHolder
PROOF
<1>1. IClient => OneHolder
  <2> SUFFICES ASSUME IClient, NEW c \in Tab, NEW d \in Tab, c # d,
                      Ready(c, {"reserve", "start", "sign", "attempt"}),
                      Ready(d, {"reserve", "start", "sign", "attempt"}),
                      tab[c].saved.revision = tab[d].saved.revision
               PROVE  FALSE
    BY DEF OneHolder
  <2>1. /\ Placed(tab[c]) /\ Placed(tab[d]) /\ Apart(tab[c], tab[d])
    BY DEF IClient, TabsSound
  <2>2. /\ tab[c].pc = "ready" /\ tab[c].saved # NoRow /\ tab[c].saved.run = tab[c].run
        /\ tab[d].pc = "ready" /\ tab[d].saved # NoRow /\ tab[d].saved.run = tab[d].run
    BY <2>1 DEF Ready, Placed, Wanted, Written
  <2> QED BY <2>1, <2>2 DEF Apart
<1> QED BY <1>1, ClientInvariant, PTL

\* submitAttempt and submitPublicPayment: the record and the journal name the
\* attempt of every transaction of the client before it can be on the chain.
THEOREM ClientSentIsRecorded == SpecClient => []SentIsRecorded
PROOF
<1>1. IClient => SentIsRecorded
  BY DEF IClient, AttemptsRecorded, SentIsRecorded, ToSet
<1> QED BY <1>1, ClientInvariant, PTL

\* inspectOperation and prepareAttempt: an attempt is added only when all the
\* earlier ones have failed in finalized blocks, so no two are ever open.
THEOREM ClientOneUnresolved == SpecClient => []OneUnresolved
PROOF
<1>1. IClient => OneUnresolved
  <2> SUFFICES ASSUME IClient, NEW a1 \in Attempt, NEW a2 \in Attempt, a1 # a2,
                      Unresolved(a1), Unresolved(a2)
               PROVE  FALSE
    BY DEF OneUnresolved
  <2>1. /\ ~Dead(a1) /\ ~Dead(a2) /\ row # NoRow /\ Sane(row)
        /\ a1 \in ToSet(row.attempts) /\ a2 \in ToSet(row.attempts)
    BY DEF Unresolved, Final, Dead, IClient, AttemptsRecorded, RowSound
  <2>2. row.attempts \in Seq(Attempt)
    BY <2>1 DEF Sane, PayRecord
  <2>3. PICK i \in 1..Len(row.attempts), j \in 1..Len(row.attempts) :
           row.attempts[i] = a1 /\ row.attempts[j] = a2
    BY <2>1, <2>2, LenProperties DEF ToSet
  <2>4. ~(i < Len(row.attempts)) /\ ~(j < Len(row.attempts))
    BY <2>1, <2>3 DEF Sane, DeadBefore
  <2>5. Len(row.attempts) \in Nat
    BY <2>2, LenProperties
  <2>6. i = j
    BY <2>3, <2>4, <2>5
  <2> QED BY <2>3, <2>6
<1> QED BY <1>1, ClientInvariant, PTL

\* releaseOriginal and prepareChangedTerms: when the changed terms are prepared,
\* no continuation of the chain executes the first authorization.
THEOREM ClientSuccessorOnlyWhenDead == SpecClient => []SuccessorOnlyWhenDead
PROOF
<1>1. IClient => SuccessorOnlyWhenDead
  BY DEF IClient, DeadSuccessor, SuccessorOnlyWhenDead
<1> QED BY <1>1, ClientInvariant, PTL

-----------------------------------------------------------------------------
\* The log-in, for any number of accounts, challenges and requests and any
\* terms.  The invariant adds to the property what makes it inductive: the same
\* of the database that may be restored, what a waiting request has checked (its
\* challenge cannot change but by being used), and that an identifier is in a
\* database only once it was drawn.
Session == [token : Login, owner : Account, expiresAt : Nat, from : Challenge]

Database(ch, open) ==
    /\ ch \in [Challenge -> Row \cup {Unset}]
    /\ open \subseteq Session
    /\ \A c \in Challenge : ch[c] # Unset => c \in drawn /\ ch[c].issuedAt <= clock
    /\ Consistent(ch, open)

\* What a request that passed the first checks relies on.
Waiting(q) ==
    LET entry == challenges[logins[q].challenge]
    IN /\ entry # Unset /\ entry.owner = logins[q].address
       /\ entry.issuedAt <= logins[q].at /\ logins[q].at < entry.expiresAt

IAuth ==
    /\ clock \in Nat
    /\ logins \in [Login -> Waiter \cup {Unset}]
    /\ \A q \in Login : logins[q] # Unset => Waiting(q)
    /\ Database(challenges, sessions)
    /\ Database(snapshot.challenges, snapshot.sessions)

\* A database stays consistent when a wallet signs, an identifier is drawn and
\* time passes.
LEMMA DatabaseGrows ==
    ASSUME NEW ch, NEW open, Database(ch, open), clock \in Nat, clock' \in Nat,
           wallets \subseteq wallets', drawn \subseteq drawn', clock <= clock'
    PROVE  Database(ch, open)'
PROOF
<1>1. \A c \in Challenge : ch[c] # Unset => c \in drawn' /\ ch[c].issuedAt <= clock'
  <2> SUFFICES ASSUME NEW c \in Challenge, ch[c] # Unset
               PROVE  c \in drawn' /\ ch[c].issuedAt <= clock'
    OBVIOUS
  <2>1. ch[c] \in Row /\ ch[c].issuedAt <= clock /\ c \in drawn
    BY DEF Database
  <2> QED BY <2>1 DEF Row
<1>2. Consistent(ch, open)'
  BY DEF Database, Consistent
<1> QED BY <1>1, <1>2 DEF Database

\* VerifyEnd writes the challenge and the session in one transaction.
LEMMA VerifyEndKeeps ==
    ASSUME IAuth, NEW q \in Login, VerifyEnd(q)
    PROVE  Database(challenges, sessions)'
PROOF
<1> DEFINE c == logins[q].challenge
           now == logins[q].at
           new == [token |-> q, owner |-> logins[q].address,
                   expiresAt |-> now + SessionTerm, from |-> c]
<1>1. /\ logins[q] \in Waiter /\ Waiting(q)
      /\ c \in Challenge /\ now \in Nat /\ challenges[c] \in Row
  BY DEF IAuth, VerifyEnd, Waiting, Waiter, Database
<1>2. CASE ~(<<logins[q].address, c>> \in wallets /\ Usable(q))
  BY <1>2 DEF IAuth, VerifyEnd, Database, Consistent
<1>3. CASE <<logins[q].address, c>> \in wallets /\ Usable(q)
  <2>1. /\ challenges' = [challenges EXCEPT ![c] = [challenges[c] EXCEPT !.usedAt = now]]
        /\ sessions' = sessions \cup {new}
        /\ wallets' = wallets /\ drawn' = drawn /\ clock' = clock
    BY <1>3 DEF VerifyEnd
  <2>2. challenges[c].usedAt = Unset
    BY <1>3 DEF Usable
  <2>3. [challenges[c] EXCEPT !.usedAt = now] \in Row
    BY <1>1 DEF Row
  <2>4. challenges' \in [Challenge -> Row \cup {Unset}] /\ challenges'[c] # Unset
    BY <1>1, <2>1, <2>3, AuthAssumption DEF IAuth, Database
  <2>5. new \in Session
    BY <1>1, AuthAssumption DEF Session, Waiter
  <2>6. \A s \in sessions : s.from # c
    <3> SUFFICES ASSUME NEW s \in sessions, s.from = c
                 PROVE  FALSE
      OBVIOUS
    <3> DEFINE at == s.expiresAt - SessionTerm
    <3>1. challenges[c].usedAt = at /\ challenges[c].issuedAt <= at
      BY DEF IAuth, Database, Consistent
    <3>2. at \in Int /\ challenges[c].issuedAt \in Nat
      BY <1>1, AuthAssumption DEF IAuth, Database, Session, Row
    <3>3. at \in Nat
      BY <3>1, <3>2
    <3> QED BY <3>1, <3>3, <2>2, AuthAssumption
  <2>7. \A s \in sessions : s.from \in Challenge /\ challenges'[s.from] = challenges[s.from]
    BY <2>1, <2>6 DEF IAuth, Database, Session
  <2>8. /\ challenges'[c].owner = new.owner /\ challenges'[c].usedAt = now
        /\ challenges'[c].issuedAt <= now /\ now < challenges'[c].expiresAt
        /\ new.expiresAt - SessionTerm = now
    <3>1. challenges'[c] = [challenges[c] EXCEPT !.usedAt = now]
      BY <1>1, <2>1 DEF IAuth, Database
    <3>2. new.expiresAt - SessionTerm = now
      BY <1>1, AuthAssumption
    <3> QED BY <1>1, <3>1, <3>2 DEF Waiting, Row
  <2>9. Consistent(challenges, sessions)'
    <3>1. \A s, t \in sessions' : s.from = t.from => s = t
      BY <2>1, <2>6 DEF IAuth, Database, Consistent
    <3>2. ASSUME NEW s \in sessions'
          PROVE  LET entry == challenges'[s.from]
                     at == s.expiresAt - SessionTerm
                 IN /\ entry # Unset /\ entry.owner = s.owner /\ entry.usedAt = at
                    /\ entry.issuedAt <= at /\ at < entry.expiresAt
                    /\ <<s.owner, s.from>> \in wallets'
      <4>1. CASE s \in sessions
        <5>1. /\ challenges[s.from] # Unset /\ challenges[s.from].owner = s.owner
              /\ challenges[s.from].usedAt = s.expiresAt - SessionTerm
              /\ challenges[s.from].issuedAt <= s.expiresAt - SessionTerm
              /\ s.expiresAt - SessionTerm < challenges[s.from].expiresAt
              /\ <<s.owner, s.from>> \in wallets
          BY <4>1 DEF IAuth, Database, Consistent
        <5>2. challenges'[s.from] = challenges[s.from] /\ wallets' = wallets
          BY <4>1, <2>1, <2>7
        <5> QED BY <5>1, <5>2
      <4>2. CASE s = new
        BY <4>2, <1>3, <2>1, <2>4, <2>8
      <4> QED BY <4>1, <4>2, <2>1
    <3>3. ASSUME NEW d \in Challenge, challenges'[d] # Unset, challenges'[d].usedAt # Unset
          PROVE  \E s \in sessions' : s.from = d
      <4>1. CASE d = c
        <5>1. new \in sessions' /\ new.from = c
          BY <2>1
        <5> QED BY <4>1, <5>1
      <4>2. CASE d # c
        BY <4>2, <3>3, <2>1 DEF IAuth, Database, Consistent
      <4> QED BY <4>1, <4>2
    <3> QED BY <3>1, <3>2, <3>3 DEF Consistent
  <2>10. \A d \in Challenge : challenges'[d] # Unset =>
            d \in drawn' /\ challenges'[d].issuedAt <= clock'
    BY <1>1, <2>1 DEF IAuth, Database, Waiting, Row
  <2> QED BY <2>1, <2>4, <2>5, <2>9, <2>10 DEF IAuth, Database
<1> QED BY <1>2, <1>3

\* A request that waits goes on relying on its challenge unless the database is
\* replaced: rows are only added, and only used.
LEMMA WaitingKeeps ==
    ASSUME IAuth, NEW q \in Login, Waiting(q), logins'[q] = logins[q],
           \A c \in Challenge : challenges[c] # Unset =>
              /\ challenges'[c] # Unset
              /\ challenges'[c].owner = challenges[c].owner
              /\ challenges'[c].issuedAt = challenges[c].issuedAt
              /\ challenges'[c].expiresAt = challenges[c].expiresAt,
           logins[q] # Unset
    PROVE  Waiting(q)'
PROOF
<1>1. logins[q].challenge \in Challenge
  BY DEF IAuth, Waiter
<1> QED BY <1>1 DEF Waiting

\* The invariant holds initially.
LEMMA AuthInvariantInitially == InitAuth => IAuth
PROOF BY AuthAssumption DEF InitAuth, IAuth, Database, Consistent, Session

\* Every step keeps the invariant.
LEMMA AuthInvariantKept == IAuth /\ [NextAuth]_varsAuth => IAuth'
PROOF
<1> SUFFICES ASSUME IAuth, [NextAuth]_varsAuth PROVE IAuth'
  OBVIOUS
<1> USE DEF IAuth
<1>1. ASSUME NEW a \in Account, CreateChallenge(a) PROVE IAuth'
  <2>1. PICK c \in Challenge \ drawn :
           /\ drawn' = drawn \cup {c}
           /\ challenges' = [challenges EXCEPT ![c] =
                  [owner |-> a, issuedAt |-> clock, expiresAt |-> clock + ChallengeTerm,
                   usedAt |-> Unset]]
           /\ UNCHANGED <<sessions, logins, clock, wallets, snapshot>>
    BY <1>1 DEF CreateChallenge
  <2> DEFINE entry == [owner |-> a, issuedAt |-> clock, expiresAt |-> clock + ChallengeTerm,
                     usedAt |-> Unset]
  <2>2. entry \in Row /\ entry # Unset
    BY AuthAssumption DEF Row
  <2>3. challenges[c] = Unset /\ challenges'[c] = entry
    BY <2>1 DEF Database
  <2>4. \A d \in Challenge : d # c => challenges'[d] = challenges[d]
    BY <2>1 DEF Database
  <2>5. \A s \in sessions : s.from \in Challenge /\ s.from # c
    BY <2>3 DEF Database, Consistent, Session
  <2>6. Consistent(challenges, sessions)'
    BY <2>1, <2>3, <2>4, <2>5 DEF Database, Consistent
  <2>7. Database(challenges, sessions)'
    BY <2>1, <2>2, <2>3, <2>4, <2>6 DEF Database
  <2>8. Database(snapshot.challenges, snapshot.sessions)'
    BY <2>1, DatabaseGrows
  <2>9. \A q \in Login : logins'[q] # Unset => Waiting(q)'
    BY <2>1, <2>3, <2>4, WaitingKeeps
  <2> QED BY <2>1, <2>7, <2>8, <2>9
<1>2. ASSUME NEW a \in Account, NEW c \in Challenge, SignMessage(a, c) PROVE IAuth'
  <2>1. wallets \subseteq wallets' /\ drawn' = drawn
        /\ UNCHANGED <<challenges, sessions, logins, clock, snapshot>>
    BY <1>2 DEF SignMessage
  <2> QED BY <2>1, DatabaseGrows DEF Waiting
<1>3. ASSUME NEW q \in Login, NEW a \in Account, NEW b \in Account,
             NEW c \in Challenge, NEW n \in Challenge, VerifyStart(q, a, c, b, n)
      PROVE  IAuth'
  <2> DEFINE waiter == [challenge |-> c, address |-> b, at |-> clock]
  <2>1. /\ logins' = [logins EXCEPT ![q] = waiter]
        /\ UNCHANGED <<challenges, sessions, clock, wallets, drawn, snapshot>>
        /\ challenges[c] # Unset /\ challenges[c].owner = b /\ clock < challenges[c].expiresAt
    BY <1>3 DEF VerifyStart
  <2>2. waiter \in Waiter
    BY DEF Waiter
  <2>3. challenges[c].issuedAt <= clock
    BY <2>1 DEF Database
  <2>4. \A p \in Login : logins'[p] # Unset => Waiting(p)'
    BY <2>1, <2>3 DEF Waiting
  <2>5. Database(challenges, sessions)' /\ Database(snapshot.challenges, snapshot.sessions)'
    BY <2>1 DEF Database, Consistent
  <2> QED BY <2>1, <2>2, <2>4, <2>5
<1>4. ASSUME NEW q \in Login, VerifyEnd(q) PROVE IAuth'
  <2>1. Database(challenges, sessions)'
    BY <1>4, VerifyEndKeeps
  <2>2. /\ logins' = [logins EXCEPT ![q] = Unset]
        /\ UNCHANGED <<clock, wallets, drawn, snapshot>>
        /\ \/ challenges' = challenges
           \/ challenges' = [challenges EXCEPT ![logins[q].challenge] =
                                [challenges[logins[q].challenge] EXCEPT !.usedAt = logins[q].at]]
    BY <1>4 DEF VerifyEnd
  <2>3. \A c \in Challenge : challenges[c] # Unset =>
           /\ challenges'[c] # Unset
           /\ challenges'[c].owner = challenges[c].owner
           /\ challenges'[c].issuedAt = challenges[c].issuedAt
           /\ challenges'[c].expiresAt = challenges[c].expiresAt
    <3> SUFFICES ASSUME NEW c \in Challenge, challenges[c] # Unset
                 PROVE  /\ challenges'[c] # Unset
                        /\ challenges'[c].owner = challenges[c].owner
                        /\ challenges'[c].issuedAt = challenges[c].issuedAt
                        /\ challenges'[c].expiresAt = challenges[c].expiresAt
      OBVIOUS
    <3> DEFINE used == [challenges[c] EXCEPT !.usedAt = logins[q].at]
    <3>1. logins[q].at \in Nat /\ challenges[c] \in Row
      BY <1>4 DEF VerifyEnd, Waiter, Database
    <3>2. used \in Row /\ used.owner = challenges[c].owner
          /\ used.issuedAt = challenges[c].issuedAt /\ used.expiresAt = challenges[c].expiresAt
      BY <3>1 DEF Row
    <3>3. challenges'[c] \in {challenges[c], used}
      BY <2>2 DEF Database
    <3> QED BY <3>2, <3>3, AuthAssumption
  <2>4. \A p \in Login : logins'[p] # Unset => Waiting(p)'
    BY <2>2, <2>3, WaitingKeeps
  <2>5. Database(snapshot.challenges, snapshot.sessions)'
    BY <2>2 DEF Database, Consistent
  <2> QED BY <2>1, <2>2, <2>4, <2>5
<1>5. CASE Tick
  <2>1. clock' = clock + 1 /\ UNCHANGED <<challenges, sessions, logins, wallets, drawn, snapshot>>
    BY <1>5 DEF Tick
  <2>2. clock' \in Nat /\ clock <= clock'
    BY <2>1
  <2> QED BY <2>1, <2>2, DatabaseGrows DEF Waiting
<1>6. CASE Bookmark
  <2>1. snapshot'.challenges = challenges' /\ snapshot'.sessions = sessions'
        /\ UNCHANGED <<challenges, sessions, logins, clock, wallets, drawn>>
    BY <1>6 DEF Bookmark
  <2>2. Database(challenges, sessions)'
    BY <2>1 DEF Database, Consistent
  <2> QED BY <2>1, <2>2 DEF Waiting
<1>7. CASE RestoreSessions
  <2>1. /\ challenges' = snapshot.challenges /\ sessions' = snapshot.sessions
        /\ logins' = [q \in Login |-> Unset]
        /\ UNCHANGED <<clock, wallets, drawn, snapshot>>
    BY <1>7 DEF RestoreSessions
  <2>2. Database(snapshot.challenges, snapshot.sessions)'
    BY <2>1 DEF Database, Consistent
  <2> QED BY <2>1, <2>2
<1>8. CASE UNCHANGED varsAuth
  BY <1>8 DEF varsAuth, Waiting, Database, Consistent
<1> QED BY <1>1, <1>2, <1>3, <1>4, <1>5, <1>6, <1>7, <1>8 DEF NextAuth

\* A signature opens one session, for its owner and within its challenge's term,
\* whatever the number of requests, owners and challenges (verifyChallenge).
THEOREM SignedOnce == SpecAuth => []OneSessionPerSignature
PROOF
<1>1. IAuth => OneSessionPerSignature
  BY DEF IAuth, Database, OneSessionPerSignature
<1> QED BY <1>1, AuthInvariantInitially, AuthInvariantKept, PTL DEF SpecAuth

=============================================================================
