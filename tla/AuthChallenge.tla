---------------------------- MODULE AuthChallenge ----------------------------
(***************************************************************************)
(* apps/uniswap-service/src/auth.ts: a browser asks for a challenge, the    *)
(* wallet signs its SIWE message, and the service turns it into a session.  *)
(* verifyChallenge looks at the challenge, awaits the check of the          *)
(* signature, and only then writes, while other requests with the same      *)
(* challenge may be as far.  The database may be restored to an earlier     *)
(* point in time.                                                           *)
(*                                                                          *)
(* Identifiers, nonces and tokens are random, hence fresh: a challenge is   *)
(* its own nonce, a session's token is the request it answers.  There is    *)
(* one deployment.                                                          *)
(***************************************************************************)
EXTENDS Integers

CONSTANTS
    Account,       \* owners
    Challenge,     \* identifiers the service may draw
    Login,         \* requests to /v1/auth/verify
    ChallengeTerm, SessionTerm,
    MaxClock,      \* bound
    Unset

\* A row of the table challenges, and what a waiting request remembers.
Row == [owner : Account, issuedAt : Nat, expiresAt : Nat, usedAt : Nat \cup {Unset}]
Waiter == [challenge : Challenge, address : Account, at : Nat]

ASSUME AuthAssumption ==
    /\ ChallengeTerm \in Nat \ {0} /\ SessionTerm \in Nat \ {0} /\ MaxClock \in Nat
    /\ Unset \notin Nat \cup Row \cup Waiter

VARIABLES
    challenges,  \* table challenges
    sessions,    \* table sessions, with the challenge each came from
    logins,      \* requests that wait for the check of their signature
    clock,       \* Date.now()
    wallets,     \* <<account, challenge>>: messages a wallet signed
    drawn,       \* identifiers ever drawn
    snapshot     \* the point in time the database may be restored to

varsAuth == <<challenges, sessions, logins, clock, wallets, drawn, snapshot>>

InitAuth ==
    /\ challenges = [c \in Challenge |-> Unset] /\ sessions = {}
    /\ logins = [q \in Login |-> Unset]
    /\ clock = 0 /\ wallets = {} /\ drawn = {}
    /\ snapshot = [challenges |-> challenges, sessions |-> sessions]

CreateChallenge(owner) ==
    \E c \in Challenge \ drawn :
        /\ drawn' = drawn \cup {c}
        /\ challenges' = [challenges EXCEPT ![c] =
               [owner |-> owner, issuedAt |-> clock, expiresAt |-> clock + ChallengeTerm,
                usedAt |-> Unset]]
        /\ UNCHANGED <<sessions, logins, clock, wallets, snapshot>>

\* Any account's wallet may be asked to sign the message with the nonce.
SignMessage(account, c) ==
    /\ c \in drawn /\ <<account, c>> \notin wallets
    /\ wallets' = wallets \cup {<<account, c>>}
    /\ UNCHANGED <<challenges, sessions, logins, clock, drawn, snapshot>>

\* The message names its nonce and its address, the request the challenge and
\* its owner; whatever disagrees is refused before the signature is looked at.
VerifyStart(q, owner, c, address, nonce) ==
    /\ logins[q] = Unset /\ \A s \in sessions \cup snapshot.sessions : s.token # q
    /\ challenges[c] # Unset
    /\ challenges[c].owner = owner
    /\ challenges[c].usedAt = Unset
    /\ clock < challenges[c].expiresAt
    /\ address = owner /\ nonce = c
    /\ logins' = [logins EXCEPT ![q] = [challenge |-> c, address |-> address, at |-> clock]]
    /\ UNCHANGED <<challenges, sessions, clock, wallets, drawn, snapshot>>

\* A variant: the update does not ask whether the challenge was used meanwhile.
UsableAgain(q) == challenges[logins[q].challenge].expiresAt > logins[q].at

\* The transaction's UPDATE ... WHERE used_at_ms IS NULL AND expires_at_ms > now.
Usable(q) ==
    LET row == challenges[logins[q].challenge]
    IN row.usedAt = Unset /\ row.expiresAt > logins[q].at

\* now is still the time at which the request came.
VerifyEnd(q) ==
    /\ logins[q] # Unset
    /\ LET c == logins[q].challenge
           now == logins[q].at
       IN IF <<logins[q].address, c>> \in wallets /\ Usable(q)
          THEN /\ challenges' = [challenges EXCEPT ![c].usedAt = now]
               /\ sessions' = sessions \cup {[token |-> q, owner |-> logins[q].address,
                                              expiresAt |-> now + SessionTerm, from |-> c]}
          ELSE UNCHANGED <<challenges, sessions>>
    /\ logins' = [logins EXCEPT ![q] = Unset]
    /\ UNCHANGED <<clock, wallets, drawn, snapshot>>

Tick ==
    /\ clock < MaxClock /\ clock' = clock + 1
    /\ UNCHANGED <<challenges, sessions, logins, wallets, drawn, snapshot>>

Bookmark ==
    /\ snapshot' = [challenges |-> challenges, sessions |-> sessions]
    /\ UNCHANGED <<challenges, sessions, logins, clock, wallets, drawn>>

\* The object is restarted with the old database; nothing in memory is left.
RestoreSessions ==
    /\ challenges' = snapshot.challenges /\ sessions' = snapshot.sessions
    /\ logins' = [q \in Login |-> Unset]
    /\ UNCHANGED <<clock, wallets, drawn, snapshot>>

NextAuth ==
    \/ \E a \in Account : CreateChallenge(a) \/ \E c \in Challenge : SignMessage(a, c)
    \/ \E q \in Login, a, b \in Account, c, n \in Challenge : VerifyStart(q, a, c, b, n)
    \/ \E q \in Login : VerifyEnd(q)
    \/ Tick \/ Bookmark \/ RestoreSessions

SpecAuth == InitAuth /\ [][NextAuth]_varsAuth

-----------------------------------------------------------------------------
\* Sessions and challenges of one database, given what the wallets signed.
Consistent(ch, open) ==
    /\ \A s, t \in open : s.from = t.from => s = t
    /\ \A s \in open :
          LET c == ch[s.from]
              at == s.expiresAt - SessionTerm
          IN /\ c # Unset /\ c.owner = s.owner /\ c.usedAt = at
             /\ c.issuedAt <= at /\ at < c.expiresAt
             /\ <<s.owner, s.from>> \in wallets
    /\ \A c \in Challenge : ch[c] # Unset /\ ch[c].usedAt # Unset => \E s \in open : s.from = c

\* Every session comes from a challenge of its own, made for its owner, signed
\* by the owner's wallet and answered within its term; and a used challenge has
\* its session: also when requests with one challenge run at the same time, and
\* after the database was restored (verifyChallenge).
OneSessionPerSignature == Consistent(challenges, sessions)
=============================================================================
