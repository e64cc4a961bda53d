---------------------------- MODULE AmountProofs ----------------------------
(***************************************************************************)
(* The proofs about hidden amounts, from both ends: packages/crypto/src     *)
(* (range/body.ts, range/fold.ts, balance.ts) makes them, contracts/src/    *)
(* verifier checks them.  The two are written independently, and the prover *)
(* uses folded vectors where the verifier uses weights.                     *)
(*                                                                          *)
(* A point of the curve is its coefficients over the independent generators *)
(* G, H, g_1.., h_1..: what the discrete-logarithm assumption leaves of it. *)
(* The order of the group is a small prime.  A challenge is any scalar but  *)
(* zero (a hash); the verifier's is the same if it hashes the same.         *)
(***************************************************************************)
EXTENDS Integers, Sequences, SequencesExt, Functions

CONSTANTS
    Order,        \* Bn254.Q, a prime
    Width,        \* BIT_WIDTH, a power of two
    Amount,       \* amounts the prover is asked to prove
    Secret,       \* what the prover may draw: blinding, masks and nonces
    Answer,       \* challenges
    Opening,      \* openings of commitments in a balance
    Public        \* public amounts in a balance

Index == 1..Width

\* The product of a sequence of numbers.
Product(f) ==
    LET upTo[n \in 0..Len(f)] == IF n = 0 THEN 1 ELSE upTo[n - 1] * f[n]
    IN upTo[Len(f)]

Power(y, n) == Product([i \in 1..n |-> y])

MaxAmount == Power(2, Width)

\* A record with more fields, or others in their place.
With(record, more) ==
    [x \in (DOMAIN record) \cup (DOMAIN more) |-> IF x \in DOMAIN more THEN more[x] ELSE record[x]]

ASSUME ProofAssumption ==
    /\ Order \in Nat \ {0, 1} /\ \A k \in 2..(Order - 1) : Order % k # 0
    /\ \E k \in 1..Width : Width = Power(2, k)
    /\ MaxAmount < Order /\ Answer \subseteq 1..(Order - 1)
    /\ Amount \subseteq Int /\ Public \subseteq Nat
    /\ \A o \in Opening : o.amount \in Int /\ o.blinding \in Int
    /\ \A s \in Secret : /\ {s.blinding, s.alpha, s.rho, s.tau1, s.tau2, s.nonce} \subseteq Int
                         /\ {s.left, s.right} \subseteq [Index -> Int]

VARIABLES
    job,          \* the prover's memory, and what it publishes
    transcript,   \* what was hashed so far, each step with its challenge
    verdict

varsProof == <<job, transcript, verdict>>

-----------------------------------------------------------------------------
(* group.ts, Bn254.sol.                                                      *)

Inv(k) == CHOOSE l \in 1..(Order - 1) : (k * l) % Order = 1

Generator == ({"g", "h"} \X Index) \cup ({"G", "H"} \X {0})
Point(e) == [b \in Generator |-> IF b = e THEN 1 ELSE 0]
GS == [i \in Index |-> Point(<<"g", i>>)]
HS == [i \in Index |-> Point(<<"h", i>>)]
BlindingBase == Point(<<"G", 0>>)
ValueBase == Point(<<"H", 0>>)

Dot(v, w) == FoldFunction(+, 0, [i \in DOMAIN v |-> v[i] * w[i]]) % Order
Multi(points, v) == [b \in Generator |-> Dot([i \in DOMAIN points |-> points[i][b]], v)]
Add(points) == Multi(points, [i \in DOMAIN points |-> 1])
Times(k, p) == Multi(<<p>>, <<k>>)
Hide(o) == Multi(<<ValueBase, BlindingBase>>, <<o.amount, o.blinding>>)

Lower(v) == SubSeq(v, 1, Len(v) \div 2)
Upper(v) == SubSeq(v, Len(v) \div 2 + 1, Len(v))
Bit(n, i) == (n \div Power(2, i - 1)) % 2
RangePoint(commitment) == Add(<<commitment, Times(-1, ValueBase)>>)
Powers(y) == [i \in Index |-> Power(y, i - 1) % Order]

Ask(stage, payload, answer) == transcript' = Append(transcript, <<stage, payload, answer>>)

-----------------------------------------------------------------------------
(* The prover of a range.                                                    *)

NoJob == [stage |-> "none"]
InitProof == job = NoJob /\ transcript = <<>> /\ verdict = "none"

\* buildRangeBody up to z: the digits of amount - 1 and their masks.
StartRange(a, s) ==
    /\ job.stage = "none" /\ verdict = "none"
    /\ IF a \notin 1..MaxAmount
       THEN /\ verdict' = "refused" /\ job' = [stage |-> "range", amount |-> a]
            /\ UNCHANGED transcript
       ELSE \E y, z \in Answer :
          LET bits == [i \in Index |-> Bit(a - 1, i)]
              C == RangePoint(Hide([amount |-> a, blinding |-> s.blinding]))
              A == Add(<<Multi(GS, bits), Multi(HS, [i \in Index |-> bits[i] - 1]),
                         Times(s.alpha, BlindingBase)>>)
              S == Add(<<Multi(GS, s.left), Multi(HS, s.right), Times(s.rho, BlindingBase)>>)
          IN /\ job' = [stage |-> "polynomial", amount |-> a, secret |-> s, bits |-> bits,
                        commitment |-> Hide([amount |-> a, blinding |-> s.blinding]),
                        y |-> y, z |-> z, C |-> C, A |-> A, S |-> S]
             /\ transcript' = <<<<"range", C>>, <<"y", <<A, S>>, y>>, <<"z", <<>>, z>>>>
             /\ UNCHANGED verdict

\* buildRangeBody up to x.
Polynomial ==
    /\ job.stage = "polynomial"
    /\ LET s == job.secret
           yPow == Powers(job.y)
           le == [i \in Index |-> job.bits[i] - job.z]
           re == [i \in Index |-> yPow[i] * (job.bits[i] - 1 + job.z)
                                     + job.z * job.z * Power(2, i - 1)]
           linear == [i \in Index |-> yPow[i] * s.right[i]]
           T1 == Multi(<<ValueBase, BlindingBase>>,
                       <<Dot(s.left, re) + Dot(le, linear), s.tau1>>)
           T2 == Multi(<<ValueBase, BlindingBase>>, <<Dot(s.left, linear), s.tau2>>)
       IN \E x \in Answer :
             /\ job' = With(job, [
                  stage |-> "inner", T1 |-> T1, T2 |-> T2,
                  le |-> [i \in Index |-> (le[i] + s.left[i] * x) % Order],
                  re |-> [i \in Index |-> (re[i] + linear[i] * x) % Order],
                  h |-> [i \in Index |-> Times(Inv(yPow[i]), HS[i])],
                  tauX |-> (job.z * job.z * s.blinding + s.tau1 * x + s.tau2 * x * x) % Order,
                  mu |-> (s.alpha + s.rho * x) % Order])
             /\ Ask("x", <<T1, T2>>, x)
    /\ UNCHANGED verdict

\* buildRangeBody from u on.
Inner ==
    /\ job.stage = "inner"
    /\ LET t == Dot(job.le, job.re)
       IN \E u \in Answer :
             LET uPoint == Times(u, ValueBase)
                 inner == Add(<<Multi(GS, job.le), Multi(job.h, job.re), Times(t, uPoint)>>)
             IN /\ job' = With(job, [stage |-> "fold", t |-> t, g |-> GS, uPoint |-> uPoint,
                                     ls |-> <<>>, rs |-> <<>>])
                /\ transcript' = transcript \o <<<<"u", <<job.tauX, job.mu, t>>, u>>,
                                                 <<"inner", <<inner, uPoint>>>>>>
    /\ UNCHANGED verdict

\* finishRangeBody: one round halves the vectors.
FoldRound ==
    /\ job.stage = "fold" /\ Len(job.le) > 1
    /\ LET ll == Lower(job.le) lh == Upper(job.le) rl == Lower(job.re) rh == Upper(job.re)
           gl == Lower(job.g) gh == Upper(job.g) hl == Lower(job.h) hh == Upper(job.h)
           left == Add(<<Multi(gh, ll), Multi(hl, rh), Times(Dot(ll, rh), job.uPoint)>>)
           right == Add(<<Multi(gl, lh), Multi(hh, rl), Times(Dot(lh, rl), job.uPoint)>>)
       IN \E c \in Answer :
             /\ job' = [job EXCEPT
                  !.ls = Append(@, left), !.rs = Append(@, right),
                  !.g = [i \in DOMAIN gl |-> Multi(<<gl[i], gh[i]>>, <<Inv(c), c>>)],
                  !.h = [i \in DOMAIN hl |-> Multi(<<hl[i], hh[i]>>, <<c, Inv(c)>>)],
                  !.le = [i \in DOMAIN ll |-> (ll[i] * c + lh[i] * Inv(c)) % Order],
                  !.re = [i \in DOMAIN rl |-> (rl[i] * Inv(c) + rh[i] * c) % Order]]
             /\ Ask("round", <<Len(job.ls), left, right>>, c)
    /\ UNCHANGED verdict

-----------------------------------------------------------------------------
(* RangeProofV3.verifyRange.                                                 *)

\* A variant: the weight's bits are read from the other end.
WeightUnreversed(cs, i) ==
    (Inv(Product(cs)) *
        Product([k \in DOMAIN cs |-> IF Bit(i - 1, k) = 1 THEN cs[k] * cs[k] ELSE 1])) % Order

\* calculateInnerWeights: round k folded by the k-th highest bit of the index.
Weight(cs, i) ==
    (Inv(Product(cs)) *
        Product([k \in DOMAIN cs |->
            IF Bit(i - 1, Len(cs) + 1 - k) = 1 THEN cs[k] * cs[k] ELSE 1])) % Order

\* satisfiesPolynomialCommitment.
PolynomialHolds(p, C, y, z, x) ==
    LET delta == Dot(Powers(y), [i \in Index |-> z - z * z]) - z * z * z * (MaxAmount - 1)
    IN Multi(<<p.T1, p.T2, C, ValueBase>>, <<x, x * x, z * z, delta>>)
          = Multi(<<ValueBase, BlindingBase>>, <<p.t, p.tauX>>)

\* deriveInnerCommitment.
InnerCommitment(p, h, y, z, x, innerBase) ==
    Add(<<p.A, Times(x, p.S), Times(-z, Add(GS)),
          Multi(h, [i \in Index |-> Powers(y)[i] * z + Power(2, i - 1) * z * z]),
          Times(-p.mu, BlindingBase), Times(p.t, innerBase)>>)

\* verifyInner.
InnerHolds(p, h, innerBase, commitment, cs) ==
    LET weights == [i \in Index |-> Weight(cs, i)]
        squares == [k \in DOMAIN cs |-> cs[k] * cs[k]]
        inverses == [k \in DOMAIN cs |-> Inv(cs[k]) * Inv(cs[k])]
    IN Add(<<Multi(p.ls, squares), Multi(p.rs, inverses), commitment>>)
          = Add(<<Times(p.a, Multi(GS, weights)), Times(p.b, Multi(h, Reverse(weights))),
                  Times(p.a * p.b, innerBase)>>)

\* The challenges are those of the prover if the same was hashed before each.
RangeAccepted(p, C) ==
    LET Answered(n) == transcript[n][3]
        y == Answered(2) z == Answered(3) x == Answered(4) u == Answered(5)
        cs == [k \in DOMAIN p.ls |-> Answered(6 + k)]
        innerBase == Times(u, ValueBase)
        h == [i \in Index |-> Times(Inv(Powers(y)[i]), HS[i])]
        commitment == InnerCommitment(p, h, y, z, x, innerBase)
    IN /\ transcript = <<<<"range", C>>, <<"y", <<p.A, p.S>>, y>>, <<"z", <<>>, z>>,
                         <<"x", <<p.T1, p.T2>>, x>>, <<"u", <<p.tauX, p.mu, p.t>>, u>>,
                         <<"inner", <<commitment, innerBase>>>>>>
                       \o [k \in DOMAIN cs |-> <<"round", <<k - 1, p.ls[k], p.rs[k]>>, cs[k]>>]
       /\ PolynomialHolds(p, C, y, z, x)
       /\ InnerHolds(p, h, innerBase, commitment, cs)

\* Pool._verifyProofs recomputes the point the proof must be about.
VerifyRange ==
    /\ job.stage = "fold" /\ Len(job.le) = 1 /\ verdict = "none"
    /\ LET p == [A |-> job.A, S |-> job.S, T1 |-> job.T1, T2 |-> job.T2, tauX |-> job.tauX,
                 mu |-> job.mu, t |-> job.t, ls |-> job.ls, rs |-> job.rs,
                 a |-> job.le[1], b |-> job.re[1]]
           C == RangePoint(job.commitment)
       IN verdict' = IF C = job.C /\ RangeAccepted(p, C) THEN "accepted" ELSE "rejected"
    /\ UNCHANGED <<job, transcript>>

-----------------------------------------------------------------------------
(* Balance: Pool._verifyProofs and computeBalancePoint sum the commitments,  *)
(* proveBalance knows the sum of the blindings, BalanceProofV3 verifies.     *)

Sum(v) == FoldFunction(+, 0, v)
UpToTwoOpenings == {<<>>} \cup {<<o>> : o \in Opening} \cup (Opening \X Opening)

BalancePoint(ins, outs, d, w) ==
    Add(<<Add([i \in DOMAIN ins |-> Hide(ins[i])]), Times(d, ValueBase),
          Times(-1, Add([i \in DOMAIN outs |-> Hide(outs[i])])), Times(-w, ValueBase)>>)

StartBalance(ins, outs, d, w, s) ==
    /\ job.stage = "none" /\ verdict = "none"
    /\ d <= MaxAmount /\ w <= 2 * MaxAmount
    /\ LET X == BalancePoint(ins, outs, d, w)
           witness == (Sum([i \in DOMAIN ins |-> ins[i].blinding])
                         - Sum([i \in DOMAIN outs |-> outs[i].blinding])) % Order
           R == Times(s.nonce, BlindingBase)
           balance == [stage |-> "balance", X |-> X,
                       surplus |-> Sum([i \in DOMAIN ins |-> ins[i].amount]) + d
                                     - Sum([i \in DOMAIN outs |-> outs[i].amount]) - w]
       IN IF X # Times(witness, BlindingBase)
          THEN verdict' = "refused" /\ job' = balance /\ UNCHANGED transcript
          ELSE \E c \in Answer :
                  /\ job' = With(balance, [R |-> R, s |-> (s.nonce + c * witness) % Order])
                  /\ transcript' = <<<<"balance", <<X, R>>, c>>>>
                  /\ UNCHANGED verdict

VerifyBalance ==
    /\ job.stage = "balance" /\ verdict = "none"
    /\ LET c == transcript[1][3]
       IN verdict' = IF Times(job.s, BlindingBase) = Multi(<<job.R, job.X>>, <<1, c>>)
                     THEN "accepted" ELSE "rejected"
    /\ UNCHANGED <<job, transcript>>

NextProof ==
    \/ \E a \in Amount, s \in Secret : StartRange(a, s)
    \/ Polynomial \/ Inner \/ FoldRound \/ VerifyRange
    \/ \E ins, outs \in UpToTwoOpenings, d, w \in Public, s \in Secret :
          StartBalance(ins, outs, d, w, s)
    \/ VerifyBalance

SpecProof == InitProof /\ [][NextProof]_varsProof

-----------------------------------------------------------------------------
\* What the client proves the contracts accept, and the client proves exactly
\* what is true: an amount in 1..MaxAmount, a balance without surplus.  Whatever was
\* drawn and whatever the hash answers, both ends hash and compute the same.
ProvedIffTrue ==
    verdict # "none" =>
        verdict = IF \/ job.stage = "balance" /\ job.surplus % Order = 0
                     \/ job.stage # "balance" /\ job.amount \in 1..MaxAmount
                  THEN "accepted" ELSE "refused"
=============================================================================
