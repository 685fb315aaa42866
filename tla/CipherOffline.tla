---------------------------- MODULE CipherOffline ----------------------------
(***************************************************************************)
(* Calls of the offline phase on homomorphic encryption: a job is one use  *)
(* of the definitions of HomomorphicEncryption by one party or by all, out *)
(* what it returns.  The definitions below are the protocols that the      *)
(* parties build on it (FHEOffline/): masking by a secret mask to turn a   *)
(* ciphertext into shares, the producers of tuples, the sacrifices, and    *)
(* the proofs that a ciphertext is what it should be.                      *)
(***************************************************************************)
EXTENDS HomomorphicEncryption, Computation

\* The parameters for every setup, and for some of them a key that two
\* parties share: SetupOf and SharedKeyOf of the names.
CONSTANTS Setups, SharedKeys

(***************************************************************************)
(* From a ciphertext to shares.  f is what EC.next() gives: a message of   *)
(* every party and the sum of their ciphertexts.                           *)
(***************************************************************************)
SumMod(p, xs) == FoldSeq(LAMBDA x, t : (x + t) % p, 0, xs)
NextCommitted(P, pk, seed, n, cond) ==
    LET m == [i \in 1..n |-> RandomPlain(P, SubSeed(seed, 20 + i), cond)]
    IN  [m |-> m, c |-> SumCipher(P, [i \in 1..n |-> Encrypt(P, pk, m[i], Coins(P, SubSeed(seed, 40 + i)))])]

\* DistDecrypt::run for all parties; own[i] is what intermediate_step adds.
SumOfSent(P, sent) ==
    LET upto[i \in DOMAIN sent] == IF i = 1 THEN sent[1] ELSE DistDecrypt2(P, upto[i - 1], sent[i])
    IN  upto[Len(sent)]
AddOwn(v, own) == [k \in DOMAIN v |-> v[k] + own[k]]
RunDecryption(P, sks, c, own, seed) ==
    SetPolyMod(P, SumOfSent(P, [i \in DOMAIN sks |->
        AddOwn(DistDecrypt1(P, sks[i], c, i - 1, Len(sks), SubSeed(seed, 60 + i)), own[i])]), P0(P))
NothingOwn(P, n) == [i \in 1..n |-> Zeros(PhiM(P))]

\* Player 0 has the opened value less its mask, the others minus theirs.
LessMasks(P, mf, f) ==
    [i \in DOMAIN f |-> IF i = 1 THEN SubPlain(P, ToPoly(P, mf), ToPoly(P, f[1])) ELSE NegatePlain(P, f[i])]
ReshareWith(P, sks, c, f, seed) ==
    LessMasks(P, RunDecryption(P, sks, c, [i \in DOMAIN sks |-> f[i].b], seed), f)
SimpleReshare(P, sks, c, seed) ==
    ReshareWith(P, sks, c, [i \in DOMAIN sks |-> RandomPlain(P, SubSeed(seed, 80 + i), "full")], seed)
\* Also a new ciphertext, with coins that everybody knows.
AtLevelOf(P, c, d) == IF Dimension(d.c0) = 1 THEN ScaleCipher(P, c) ELSE c
FreshLess(P, pk, mf, m, cf) ==
    [m |-> LessMasks(P, mf, m), c |-> SubCipher(P, AtLevelOf(P, Encrypt(P, pk, mf, Coins(P, 0)), cf), cf)]
NewReshareWith(P, pk, sks, cm, m, cf, seed) ==
    FreshLess(P, pk, RunDecryption(P, sks, AddCipher(P, cf, cm), NothingOwn(P, Len(sks)), seed), m, cf)
MaskedReshare(P, pk, sks, cm, f, seed) == NewReshareWith(P, pk, sks, cm, f.m, AtLevelOf(P, f.c, cm), seed)
NewReshare(P, pk, sks, cm, seed) ==
    MaskedReshare(P, pk, sks, cm, NextCommitted(P, pk, seed, Len(sks), "full"), seed)

\* Values of all parties, with the shares of their MACs.
MacSeed == [a |-> 4, b |-> 5, c |-> 6, x |-> 4]
Authenticated(P, K, values, seed) ==
    [x \in DOMAIN values |->
        [value |-> values[x].m,
         mac |-> SimpleReshare(P, K.sks, MulCipher(P, K.pk, K.calpha, values[x].c), SubSeed(seed, MacSeed[x]))]]
Factors(P, K, seed) == Table([k \in 1..2 |-> NextCommitted(P, K.pk, SubSeed(seed, k), Len(K.sks), "full")])
Multiply(P, K, f, g, seed) == NewReshare(P, K.pk, K.sks, MulCipher(P, K.pk, f.c, g.c), SubSeed(seed, 3))
TripleOf(P, K, f, seed) ==
    Authenticated(P, K, [a |-> f[1], b |-> f[2], c |-> Multiply(P, K, f[1], f[2], seed)], seed)
TripleProduction(P, K, seed) == TripleOf(P, K, Factors(P, K, seed), seed)
SquareOf(P, K, f, seed) == Authenticated(P, K, [a |-> f, b |-> Multiply(P, K, f, f, seed)], seed)
SquareProduction(P, K, seed) == SquareOf(P, K, Factors(P, K, seed)[1], seed)
\* The product is opened; get() leaves out the slots where it is zero and
\* divides the other share by it.
Opened(P, K, c, seed) == SlotValues(P, RunDecryption(P, K.sks, c, NothingOwn(P, Len(K.sks)), seed))
InverseOf(P, K, f, seed) ==
    [ab |-> Opened(P, K, MulCipher(P, K.pk, f[1].c, f[2].c), seed)] @@
    Authenticated(P, K, [a |-> f[1], b |-> f[2]], seed)
InverseProduction(P, K, seed) == InverseOf(P, K, Factors(P, K, seed), seed)
\* Shares of a ciphertext and of its MACs, by decryption both.
Reshared(P, K, c, seed) ==
    Authenticated(P, K, [x |-> [m |-> SimpleReshare(P, K.sks, c, SubSeed(seed, 3)), c |-> c]], seed).x
UsableSlots(x) == {k \in DOMAIN x.ab : x.ab[k] # 0}
\* The least square root, as sqrRoot() may choose either.
RootMod(y, p) == CHOOSE r \in 0..(p - 1) : (r * r) % p = y
RootsOf(P, s) == Evaluation(Table([k \in DOMAIN s |-> IF s[k] = 0 THEN 1 ELSE InvMod(RootMod(s[k], P.p), P.p)]))
BitsOf(P, K, c, s, seed) ==
    [used |-> {k \in DOMAIN s : s[k] # 0}, v |-> Reshared(P, K, TimesPlain(P, c, RootsOf(P, s)), seed)]
BitsFrom(P, K, c, seed) == BitsOf(P, K, c, Opened(P, K, MulCipher(P, K.pk, c, c), seed), seed)
BitProduction(P, K, seed) ==
    BitsFrom(P, K, NextCommitted(P, K.pk, SubSeed(seed, 1), Len(K.sks), "full").c, seed)
\* (v + 1) / 2, the constant in the first share and in every MAC.
HalfOf(P, x) == (x * ((P.p + 1) \div 2)) % P.p
BitShare(P, K, i, v) == HalfOf(P, v + IF i = 1 THEN 1 ELSE 0)
BitMac(P, K, i, g) == HalfOf(P, g + K.alphas[i])
\* An input is known to its owner, and shared and authenticated by decryption.
InputProduction(P, K, cond, seed) ==
    LET a == RandomPlain(P, SubSeed(seed, 1), cond)
        ca == Encrypt(P, K.pk, a, Coins(P, SubSeed(seed, 2)))
    IN  [a |-> a, x |-> Reshared(P, K, ca, seed)]

(***************************************************************************)
(* Covert security: some runs are opened and computed again.  fault is the *)
(* run in which the last party sends something else, or 0.                 *)
(***************************************************************************)
\* own(r)[i] is what party i makes of its seed for run r, sent(r)[i] what it sends.
OpenedHonestly(own, sent, challenge) == \A r \in DOMAIN own \ {challenge} : sent[r] = own[r]
AltersLast(own, fault, Alter(_)) ==
    [r \in DOMAIN own |->
        [i \in DOMAIN own[r] |-> IF r = fault /\ i = Len(own[r]) THEN Alter(own[r][i]) ELSE own[r][i]]]
CiphersFrom(m, own, sent, challenge) ==
    IF OpenedHonestly(own, sent, challenge) THEN <<[m |-> m[challenge], c |-> sent[challenge]]>> ELSE <<>>
CiphersSent(P, m, own, fault, challenge) ==
    CiphersFrom(m, own, AltersLast(own, fault, LAMBDA c : [c EXCEPT !.c0 = AddRq(P, @, OneRq(P))]), challenge)
EncryptEach(P, pks, m, seeds) ==
    [r \in DOMAIN m |-> [i \in DOMAIN pks |-> Encrypt(P, pks[i], m[r][i], Coins(P, SubSeed(seeds[r][i], 2)))]]
CiphersOf(P, pks, seeds, m, fault, challenge) ==
    CiphersSent(P, m, EncryptEach(P, pks, m, seeds), fault, challenge)
CovertCiphertexts(P, pks, seeds, fault, challenge, cond) ==
    CiphersOf(P, pks, seeds,
              [r \in DOMAIN seeds |-> [i \in DOMAIN pks |-> RandomPlain(P, SubSeed(seeds[r][i], 1), cond)]],
              fault, challenge)
KeysFrom(own, sent, challenge) ==
    IF OpenedHonestly(own, sent, challenge)
    THEN <<[i \in DOMAIN sent[challenge] |-> [pk |-> sent[challenge][i].pk, sk |-> own[challenge][i].sk]]>> ELSE <<>>
KeysSent(P, own, fault, challenge) ==
    KeysFrom(own, AltersLast(own, fault, LAMBDA k : [k EXCEPT !.pk.b = AddRq(P, @, OneRq(P))]), challenge)
CovertKeys(P, seeds, fault, challenge) ==
    KeysSent(P, [r \in DOMAIN seeds |-> [i \in DOMAIN seeds[r] |-> KeyGen(P, seeds[r][i])]], fault, challenge)

(***************************************************************************)
(* Without distributed decryption: a party multiplies what another         *)
(* encrypted by its own value, masks it, and sends it back.  MaskNoise is  *)
(* the width of the noise that hides its value, small for small moduli.    *)
(***************************************************************************)
MaskNoise == 6
MaskCoins(P, seed) ==
    LET wide(k) == [i \in Vec(PhiM(P)) |-> (Draw(SubSeed(seed, k), i) % (2 * MaskNoise + 1)) - MaskNoise]
    IN  CoinsOf(P, Zeros(PhiM(P)), wide(1), wide(2))
\* What the sender subtracts and the receiver adds.
MultipliedBy(P, keys, enc, b, share, seed) ==
    [minus |-> share,
     plus |-> Decrypt(P, keys.sk, AddCipher(P, Encrypt(P, keys.pk, share, MaskCoins(P, seed)), TimesPlain(P, enc, b)))]
Multiplied(P, keys, enc, b, seed) ==
    MultipliedBy(P, keys, enc, b, RandomPlain(P, SubSeed(seed, 9), "full"), seed)
\* With keys[i] the key pair of party i, the shares of a product of values
\* that the parties hold shares of; encs[i] is party i's share in encryption.
PairwiseShares(P, products, with) ==
    LET others(i) == InOrder(DOMAIN products \ {i})
    IN  [i \in DOMAIN products |->
            FoldLeft(LAMBDA res, j : AddToPlain(P, SubPlain(P, ToPoly(P, res), ToPoly(P, with[i, j].minus)),
                                                with[j, i].plus),
                     products[i], others(i))]
PairwiseProduct(P, keys, xs, encs, ys, seed) ==
    PairwiseShares(P, [i \in DOMAIN keys |-> MulPlain(P, xs[i], ys[i])],
                   [i, j \in DOMAIN keys |-> Multiplied(P, keys[j], encs[j], ys[i], SubSeed(seed, 10 * i + j))])
EncryptOwn(P, keys, xs, seed) ==
    [i \in DOMAIN keys |-> Encrypt(P, keys[i].pk, xs[i], Coins(P, SubSeed(seed, i)))]
PairwiseMacs(P, keys, alpha, encAlpha, values, seed) ==
    [alpha |-> alpha] @@
    [x \in DOMAIN values |->
        [value |-> values[x],
         mac |-> PairwiseProduct(P, keys, alpha, encAlpha, values[x], SubSeed(seed, 3 + MacSeed[x]))]]
PairwiseOf(P, keys, a, b, alpha, seed) ==
    PairwiseMacs(P, keys, alpha, EncryptOwn(P, keys, alpha, SubSeed(seed, 6)),
        [a |-> a, b |-> b,
         c |-> PairwiseProduct(P, keys, a, EncryptOwn(P, keys, a, SubSeed(seed, 4)), b, SubSeed(seed, 5))], seed)
PairwiseTriple(P, keys, seed) ==
    LET drawn(k, cond) == [i \in DOMAIN keys |-> RandomPlain(P, SubSeed(seed, 10 * k + i), cond)]
    IN  PairwiseOf(P, keys, drawn(1, "full"), drawn(2, "full"), drawn(3, "diagonal"), seed)
\* MACs of an input of party 1, who is the only one to multiply.
InputMacs(P, alpha, b, with) ==
    [alpha |-> alpha, b |-> b,
     mac |-> [i \in DOMAIN alpha |->
                IF i = 1 THEN FoldSet(LAMBDA j, t : SubPlain(P, ToPoly(P, t), ToPoly(P, with[j].minus)),
                                      MulPlain(P, alpha[1], b), DOMAIN with)
                ELSE with[i].plus]]
InputOf(P, keys, b, alpha, encAlpha, seed) ==
    InputMacs(P, alpha, b,
              [j \in 2..Len(keys) |-> Multiplied(P, keys[j], encAlpha[j], b, SubSeed(seed, 10 + j))])
PairwiseInputOf(P, keys, b, alpha, seed) ==
    InputOf(P, keys, b, alpha, EncryptOwn(P, keys, alpha, SubSeed(seed, 6)), seed)
PairwiseInput(P, keys, seed) ==
    PairwiseInputOf(P, keys, RandomPlain(P, SubSeed(seed, 1), "full"),
                    [i \in DOMAIN keys |-> RandomPlain(P, SubSeed(seed, 30 + i), "diagonal")], seed)

(***************************************************************************)
(* Proofs that a ciphertext encrypts a short message with short coins: y   *)
(* and s are drawn, a challenge combines them with the message and the     *)
(* coins, and the verifier checks the combination.  kind is plain, diagonal*)
(* or top (top gear: challenges are powers of X and results are doubled).  *)
(***************************************************************************)
Length(n) == CHOOSE k \in 0..30 : 2^k > n /\ (k = 0 \/ 2^(k - 1) <= n)
\* tau and rho bound a message and the noise.
Tau(P) == P.p \div 2
Rho(P) == P.hope
Sizes(P, sec, kind) ==
    IF kind = "top"
    THEN LET V == CHOOSE v \in 1..9 : (2 * PhiM(P) + 1)^v >= 2^(sec + 2) /\ (2 * PhiM(P) + 1)^(v - 1) < 2^(sec + 2)
         IN  [U |-> 2 * V, V |-> V]
    ELSE [U |-> sec, V |-> 2 * sec - 1]
NonInteractive(P, sec, kind) ==
    LET B == 128 * sec * sec
        plain == Length(B * PhiM(P) * Tau(P))
        rand == Length(B * 3 * PhiM(P) * Rho(P))
    IN  Sizes(P, sec, kind) @@
        [sec |-> sec, kind |-> kind, proofs |-> 1, plain |-> plain, rand |-> rand,
         plainCheck |-> 2^plain - sec * Tau(P), randCheck |-> 2^rand - sec * Rho(P)]
Interactive(P, sec, kind, n) ==
    LET plain == Length(2^sec * Tau(P))
        rand == Length(2^sec * Rho(P))
    IN  Sizes(P, sec, kind) @@
        [sec |-> sec, kind |-> kind, proofs |-> n, plain |-> plain, rand |-> rand,
         plainCheck |-> 2 * 2^plain, randCheck |-> 2 * 2^rand]

\* The combination for row i, with the sum and the shift of what is combined.
ApplyChallenge(pr, ch, i, output, input, Plus(_, _), Shift(_, _)) ==
    IF pr.kind = "top"
    THEN FoldLeft(LAMBDA t, j : IF ch[i][j] >= 0 THEN Plus(t, Shift(input[j], ch[i][j])) ELSE t,
                  output, [j \in 1..pr.U |-> j])
    ELSE FoldLeft(LAMBDA t, k : IF i - k + 1 \in 1..pr.sec /\ ch[i - k + 1] = 1
                                THEN Plus(t, input[i - k + 1]) ELSE t,
                  output, [k \in 1..pr.sec |-> k])
PlusVector(v, w) == Table([k \in DOMAIN v |-> v[k] + w[k]])
\* Coins are shifted as integer vectors in X^phi + 1, messages in R_q and back.
ShiftVector(v, j) ==
    LET n == Dimension(v)
        from(k) == (k - j) % n
    IN  Table([k \in Vec(n) |-> IF ((from(k) + j) \div n) % 2 = 0 THEN v[from(k)] ELSE -v[from(k)]])
ShiftMessage(P, v, j) == ToIntegers(P, ShiftRq(P, FromIntegers(P, v, "polynomial"), j))

\* Draws of len bits: both ends occur, negative ones only for messages.
Wide(len, seed, k) ==
    CASE Draw(seed, k) % 16 = 0 -> 2^len - 1 [] Draw(seed, k) % 16 = 1 -> 0
      [] OTHER -> Draw(seed, k + 3) % 2^len
Masks(P, pr, seed) ==
    [y |-> [i \in 1..pr.V |-> Table([k \in Vec(PhiM(P)) |->
              IF pr.kind = "diagonal" /\ k > 0 THEN 0
              ELSE Wide(pr.plain, SubSeed(seed, i), k) * (IF Draw(SubSeed(seed, i), k + 9) % 2 = 0 THEN 1 ELSE -1)])],
     s |-> [i \in 1..pr.V |-> [k \in 1..3 |-> Table([l \in Vec(PhiM(P)) |-> Wide(pr.rand, SubSeed(seed, 30 * k + i), l)])]]]
OwnCoins(P, seed) ==
    <<SampleHalf(PhiM(P), SubSeed(seed, 1)), SampleGauss(PhiM(P), P.hope, SubSeed(seed, 2)),
      SampleGauss(PhiM(P), P.hope, SubSeed(seed, 3))>>
EncryptWith(P, pk, v, r) == EncryptIntegers(P, pk, v, CoinsOf(P, r[1], r[2], r[3]))

InBounds(pr, z, t) ==
    /\ \A k \in DOMAIN z : Magnitude(z[k]) <= pr.plainCheck * pr.proofs
    /\ \A c \in 1..3 : \A k \in DOMAIN t[c] : Magnitude(t[c][k]) <= pr.randCheck * pr.proofs
\* Stage_2 of the prover for row i: message and coins.
PreimageOf(P, pr, ch, masks, x, r, i) ==
    [z |-> ApplyChallenge(pr, ch, i, masks.y[i], x, PlusVector, LAMBDA v, j : ShiftMessage(P, v, j)),
     t |-> [c \in 1..3 |-> ApplyChallenge(pr, ch, i, masks.s[i][c], [j \in DOMAIN r |-> r[j][c]],
                                         PlusVector, ShiftVector)]]
AcceptsRow(P, pr, ch, pk, c, commitment, image, i) ==
    /\ InBounds(pr, image.z, image.t)
    /\ ApplyChallenge(pr, ch, i, commitment, c, LAMBDA x, y : AddCipher(P, x, y), LAMBDA x, j : ShiftCipher(P, x, j))
           = EncryptWith(P, pk, image.z, image.t)
    /\ pr.kind = "diagonal" => \A k \in DOMAIN image.z : k = 0 \/ image.z[k] = 0
VerifierAccepts(P, pr, ch, pk, c, commitments, images) ==
    \A i \in 1..pr.V : AcceptsRow(P, pr, ch, pk, c, commitments[i], images[i], i)

ImagesOf(P, pr, ch, masks, x, r) == Table([i \in 1..pr.V |-> PreimageOf(P, pr, ch, masks, x, r, i)])
\* The prover starts again when a preimage is out of bounds.
RECURSIVE Prove(_, _, _, _, _, _)
Prove(P, pr, ch, x, r, seed) ==
    LET masks == Masks(P, pr, seed)
        images == ImagesOf(P, pr, ch, masks, x, r)
    IN  IF \A i \in 1..pr.V : InBounds(pr, images[i].z, images[i].t)
        THEN [masks |-> masks, images |-> images] ELSE Prove(P, pr, ch, x, r, SubSeed(seed, 77))
Commitments(P, pk, masks) == Table([i \in DOMAIN masks.y |-> EncryptWith(P, pk, masks.y[i], masks.s[i])])

(***************************************************************************)
(* Commitments with cut and choose (EncCommit::Create_More, for t = b = 1, *)
(* one prover and its verifiers): of two masks one is opened, and the other*)
(* one hides the message.  A mask too large is drawn again, Retries times. *)
(***************************************************************************)
Retries == 5
\* Values below half of the modulus count as they are, also negative ones.
LargestOf(v, q) == Max({0} \cup {IF v[k] < q \div 2 THEN v[k] ELSE q - v[k] : k \in DOMAIN v})
Norm(P, a) == LargestOf(ToIntegers(P, a), P0(P) * (IF Dimension(a) = 2 THEN P1(P) ELSE 1))
CommitMask(P) == 4 * PhiM(P)
RhoI(P) == 4 * P.hope
UniformDraws(P, bound, seed) == Table([k \in Vec(PhiM(P)) |-> Wide(Length(bound), seed, k)])
MaskWith(P, seed) ==
    [z |-> FromIntegers(P, UniformDraws(P, P.p * CommitMask(P), SubSeed(seed, 1)), "polynomial"),
     rc |-> CoinsOf(P, UniformDraws(P, CommitMask(P), SubSeed(seed, 2)),
                    UniformDraws(P, RhoI(P) * CommitMask(P), SubSeed(seed, 3)),
                    UniformDraws(P, RhoI(P) * CommitMask(P), SubSeed(seed, 4)))]
AddCoins(P, r, s) == [u |-> AddRq(P, r.u, s.u), v |-> AddRq(P, r.v, s.v), w |-> AddRq(P, r.w, s.w)]
Short(P, x) ==
    /\ Norm(P, x.z) <= 2 * (P.p * CommitMask(P) - P.p)
    /\ Norm(P, x.rc.u) <= 2 * (CommitMask(P) - 1)
    /\ Norm(P, x.rc.v) <= 2 * (RhoI(P) * CommitMask(P) - RhoI(P))
    /\ Norm(P, x.rc.w) <= 2 * (RhoI(P) * CommitMask(P) - RhoI(P))
Bumped(P, c, bad) == IF bad THEN [c EXCEPT !.c0 = AddRq(P, @, OneRq(P))] ELSE c
\* fault is cipher, mask or none: what the prover sends is not what it drew.
Judged(P, pk, c, x, sent) ==
    IF ~Short(P, x) THEN "again"
    ELSE IF QuasiEncrypt(P, pk, x.z, x.rc) = AddCipher(P, c, sent) THEN "accepted" ELSE "aborted"
MaskedBy(P, m, rc, mask) ==
    [z |-> AddRq(P, FromIntegers(P, m, "polynomial"), mask.z), rc |-> AddCoins(P, rc, mask.rc)]
OpenOne(P, pk, m, rc, c, open, masks, honest, fault) ==
    LET sent(i) == Bumped(P, honest[i], fault = "mask" /\ i = 1)
    IN  IF sent(open) # honest[open] THEN "aborted"
        ELSE Judged(P, pk, c, MaskedBy(P, m, rc, masks[3 - open]), sent(3 - open))
CommitWith(P, pk, m, rc, c, open, fault, masks) ==
    OpenOne(P, pk, m, rc, c, open, masks, [i \in 1..2 |-> QuasiEncrypt(P, pk, masks[i].z, masks[i].rc)], fault)
ActiveCommit(P, pk, m, rc, c, open, fault, seed) ==
    CommitWith(P, pk, m, rc, c, open, fault, [i \in 1..2 |-> MaskWith(P, SubSeed(seed, 50 * i))])
RECURSIVE CreateMore(_, _, _, _, _, _, _, _, _)
CreateMore(P, pk, m, rc, c, open, fault, seed, tries) ==
    LET verdict == ActiveCommit(P, pk, m, rc, c, open, fault, seed)
    IN  IF verdict # "again" \/ tries = 1 THEN verdict
        ELSE CreateMore(P, pk, m, rc, c, open, fault, SubSeed(seed, 9), tries - 1)

(***************************************************************************)
(* Sacrifices, on values: what is opened for a random t must be zero.      *)
(***************************************************************************)
TripleTau(p, u, v, t) ==
    LET rho == t * u.a - v.a
        sigma == u.b - v.b
    IN  (t * u.c - v.c - v.a * sigma - v.b * rho - rho * sigma) % p
InverseTau(p, u, v, t) ==
    (v.c - t + v.a * (u.b - v.b) + u.b * (t * u.a - v.a)) % p
SquareTau(p, f, a, t) == (a.b * t * t - f.b - (a.a * t + f.a) * (t * a.a - f.a)) % p
BitTau(p, f, a, t) == (a * t * t - f.b - (a * t + f.a) * (t * a - f.a)) % p

(***************************************************************************)
(* Jobs.  Two moduli, one, and GF(4); p0 > p1 as the parameters give it.   *)
(***************************************************************************)
SetupWith(s, p0) ==
    MakeParams(MakeRing(s.m), s.p, p0, IF s.bits1 = 0 THEN 0 ELSE GenerateModulus(s.m, s.p, s.bits1, p0), s.h, 1)
SetupFrom(s) == SetupWith(s, GenerateModulus(s.m, s.p, 15, 0))
SetupOf(s) ==
    SetupFrom(CASE s = "two" -> [m |-> 4, p |-> 5, bits1 |-> 14, h |-> 1]
                [] s = "one" -> [m |-> 4, p |-> 5, bits1 |-> 0, h |-> 1]
                [] s = "gf4" -> [m |-> 3, p |-> 2, bits1 |-> 14, h |-> -1])
PlainSamples(s) ==
    IF s = "gf4" THEN {Evaluation(0 :> v) : v \in 0..3}
    ELSE {Evaluation((0 :> v) @@ (1 :> w)) : v \in {0, 1, 4}, w \in {2, 3}}

\* A key that two parties share, with an encrypted MAC key.
SharedKey(P, key, seed) ==
    LET alpha == NextCommitted(P, key.pk, seed, Len(key.sks), "diagonal")
    IN  [pk |-> key.pk, sks |-> key.sks, calpha |-> alpha.c,
         alphas |-> [i \in DOMAIN alpha.m |-> SlotValues(P, alpha.m[i])[0]]]
Honest == <<"none", "none">>
SharedKeyOf(P) == SharedKey(P, GenProtocol(P, <<<<1, 2>>, <<3, 4>>>>, <<0, 1>>, Honest), 5)
Faults == {"none", "a", "b", "enc_dash", "enc"}

\* A challenge for every number; with 0 nothing is combined.
ChallengeOf(P, pr, k) ==
    IF pr.kind = "top"
    THEN [i \in 1..pr.V |-> [j \in 1..pr.U |->
            IF k = 0 THEN -1 ELSE (Draw(k, 5 * i + j) % (2 * PhiM(P))) - 1]]
    ELSE [j \in 1..pr.sec |-> (k \div 2^(j - 1)) % 2]
Combines(pr, ch, j) == IF pr.kind = "top" THEN \E i \in 1..pr.V : ch[i][j] >= 0 ELSE ch[j] = 1

Tuples == {"triple", "square", "inverse", "input"}
Sacrifices == {"triple", "inverse", "square", "bit"}
CipherCalls ==
    UNION {[op : {"ops"}, s : {s}, seed : {1}, x : PlainSamples(s), y : PlainSamples(s)] : s \in DOMAIN Setups} \cup
    [op : {"keygen"}, s : {"two", "gf4"}, fault : Faults, run : {1, 2}, numbers : {<<0, 0>>, <<0, 1>>, <<1, 1>>}] \cup
    UNION {[op : Tuples, s : {s}, key : {SharedKeys[s]}, seed : 1..3] : s \in {"two", "gf4"}} \cup
    [op : {"bit"}, s : {"two"}, key : {SharedKeys["two"]}, seed : 1..4] \cup
    [op : {"covert", "covert_keys"}, s : {"one", "gf4"}, fault : 0..2, challenge : 1..2, seed : {1}] \cup
    [op : {"pairwise", "pairwise_input"}, s : {"one"}, seed : 1..3] \cup
    [op : {"proof", "summing"}, s : {"one", "two"}, kind : {"plain", "diagonal", "top"}, sec : 1..2, seed : {1},
     ch : 0..3, fault : {"none", "cipher", "message"}] \cup
    [op : {"active"}, s : {"two"}, open : 1..2, fault : {"none", "cipher", "mask"}, seed : 1..6] \cup
    [op : {"sacrifice"}, kind : Sacrifices, x : {0, 2, 3}, y : {1, 4}, z : {0, 2}, w : {1, 3}, e : 0..1, f : 0..1]

\* With one modulus a product is a mismatch, which nobody decrypts.
OpsOn(P, cx, cy, y, product) ==
    [enc |-> cx, sum |-> AddCipher(P, cx, cy), difference |-> SubCipher(P, cx, cy),
     scaled |-> TimesPlain(P, cx, y), shifted |-> ShiftCipher(P, cx, 1),
     low |-> AddCipher(P, ScaleCipher(P, cx), ScaleCipher(P, cy))] @@
    IF Top(P) = 0 THEN <<>> ELSE [product |-> product, twice |-> AddCipher(P, product, product)]
DecryptAll(P, sk, cs) == [o \in DOMAIN cs |-> Decrypt(P, sk, cs[o])]
OpsWith(P, keys, cx, cy, y, product, foreign) ==
    DecryptAll(P, keys.sk, OpsOn(P, cx, cy, y, product)) @@ [raw |-> product.c0, wrong |-> AddCipher(P, cx, foreign)]
OpsOnPair(P, keys, cx, cy, y, foreign) == OpsWith(P, keys, cx, cy, y, MulCipher(P, keys.pk, cx, cy), foreign)
OpsOfKeys(P, keys, other, x, y, seed) ==
    OpsOnPair(P, keys, Encrypt(P, keys.pk, x, Coins(P, SubSeed(seed, 21))),
              Encrypt(P, keys.pk, y, Coins(P, SubSeed(seed, 22))), y, Encrypt(P, other.pk, y, Coins(P, 5)))
OpsResult(P, x, y, seed) == OpsOfKeys(P, KeyGen(P, seed), KeyGen(P, seed + 10), x, y, seed)
KeygenResult(P, key, x, y) ==
    [accepted |-> key # NoKey,
     opened |-> IF key = NoKey THEN Evaluation(<<>>)
                ELSE RunDecryption(P, key.sks, MulCipher(P, key.pk, Encrypt(P, key.pk, x, Coins(P, 3)),
                                                          Encrypt(P, key.pk, y, Coins(P, 4))),
                                   NothingOwn(P, 2), 8)]
FaultsIn(j) == [r \in 1..2 |-> IF r = j.run THEN j.fault ELSE "none"]
OwnKeys(P, seed) == [i \in 1..2 |-> KeyGen(P, SubSeed(seed, 70 + i))]
RunSeeds(seed) == [r \in 1..2 |-> <<SubSeed(seed, 10 * r), SubSeed(seed, 10 * r + 1)>>]
Verdict(got, Good(_)) == [accepted |-> got # <<>>, good |-> got # <<>> /\ \A i \in 1..2 : Good(i)]
CovertVerdict(P, keys, got) ==
    Verdict(got, LAMBDA i : SlotValues(P, Decrypt(P, keys[i].sk, got[1].c[i])) = SlotValues(P, got[1].m[i]))
CovertResult(P, keys, j) ==
    CovertVerdict(P, keys, CovertCiphertexts(P, <<keys[1].pk, keys[2].pk>>, RunSeeds(j.seed), j.fault, j.challenge,
                                             "diagonal"))
KeysVerdict(P, got, x) ==
    Verdict(got, LAMBDA i :
        SlotValues(P, Decrypt(P, got[1][i].sk, Encrypt(P, got[1][i].pk, x, Coins(P, 6)))) = SlotValues(P, x))
CovertKeysResult(P, j) ==
    KeysVerdict(P, CovertKeys(P, RunSeeds(j.seed), j.fault, j.challenge), RandomPlain(P, 4, "full"))

\* A message that is not what the proof is about: not diagonal, or far too long.
Messages(P, pr, fault, seed) ==
    [j \in 1..pr.U |->
        LET x == PolyValues(P, RandomPlain(P, SubSeed(seed, j), IF pr.kind = "diagonal" THEN "diagonal" ELSE "full"))
        IN  IF j = 1 /\ fault = "message" THEN [x EXCEPT ![1] = IF pr.kind = "diagonal" THEN 3 ELSE 4 * pr.proofs * 2^pr.plain]
            ELSE x]
Ciphertexts(P, pk, pr, x, r, fault) ==
    [j \in 1..pr.U |-> Bumped(P, EncryptWith(P, pk, x[j], r[j]), j = 1 /\ fault = "cipher")]
Doubled(P, x) == AddPlain(P, x, x)
DoubledCipher(P, c) == AddCipher(P, c, c)
\* The ciphertext that next() gives, doubled by generate_proof() and again by
\* next() with top gear.
Twice(P, x) == Doubled(P, Doubled(P, x))
NextOf(P, pr, x, c) ==
    IF pr.kind = "top" THEN [m |-> Twice(P, Polynomial(x)), c |-> DoubledCipher(P, DoubledCipher(P, c))]
    ELSE [m |-> Polynomial(x), c |-> c]
Opens(P, sk, next) == SlotValues(P, Decrypt(P, sk, next.c)) = SlotValues(P, next.m)
\* One prover: its proof, tried once when the message is too long for any
\* other outcome.
SentProof(P, pr, ch, x, r, j) ==
    IF j.fault = "message" /\ Combines(pr, ch, 1)
    THEN [masks |-> Masks(P, pr, j.seed), images |-> ImagesOf(P, pr, ch, Masks(P, pr, j.seed), x, r)]
    ELSE Prove(P, pr, ch, x, r, j.seed)
Verified(P, keys, pr, ch, x, r, c, sent) ==
    [accepted |-> VerifierAccepts(P, pr, ch, keys.pk, c, Commitments(P, keys.pk, sent.masks), sent.images),
     combined |-> Combines(pr, ch, 1), good |-> Opens(P, keys.sk, NextOf(P, pr, x[1], c[1]))]
ProofWith(P, keys, pr, ch, j) ==
    LET x == Messages(P, pr, j.fault, j.seed)
        r == [k \in 1..pr.U |-> OwnCoins(P, SubSeed(j.seed, 60 + k))]
    IN  Verified(P, keys, pr, ch, x, r, Ciphertexts(P, keys.pk, pr, x, r, j.fault), SentProof(P, pr, ch, x, r, j))

\* Two provers whose ciphertexts, commitments and preimages are summed, and
\* checked once with wider bounds; here next() alone doubles.
SummedNext(P, pr, xs, c) ==
    LET sum == Doubled(P, Polynomial(xs[1]))
        other == Doubled(P, Polynomial(xs[2]))
    IN  IF pr.kind = "top" THEN [m |-> AddPlain(P, sum, other), c |-> DoubledCipher(P, c)]
        ELSE [m |-> AddPlain(P, Polynomial(xs[1]), Polynomial(xs[2])), c |-> c]
SummedRows(P, a, b) ==
    [i \in DOMAIN a |-> [z |-> PlusVector(a[i].z, b[i].z), t |-> [k \in 1..3 |-> PlusVector(a[i].t[k], b[i].t[k])]]]
SummedCiphers(P, c, d) == Table([k \in DOMAIN c |-> AddCipher(P, c[k], d[k])])
SummedProof(P, keys, pr, ch, x, r, masks, sums) ==
    LET images(i) == ImagesOf(P, pr, ch, masks[i], x[i], r[i])
        commitments(i) == Commitments(P, keys.pk, masks[i])
    IN  [accepted |-> VerifierAccepts(P, pr, ch, keys.pk, sums, SummedCiphers(P, commitments(1), commitments(2)),
                                      SummedRows(P, images(1), images(2))),
         combined |-> Combines(pr, ch, 1),
         good |-> Opens(P, keys.sk, SummedNext(P, pr, <<x[1][1], x[2][1]>>, sums[1]))]
SumOf(P, keys, pr, ch, x, r, j) ==
    SummedProof(P, keys, pr, ch, x, r, [i \in 1..2 |-> Masks(P, pr, SubSeed(j.seed, 90 + i))],
                SummedCiphers(P, Ciphertexts(P, keys.pk, pr, x[1], r[1], "none"),
                              Ciphertexts(P, keys.pk, pr, x[2], r[2], j.fault)))
SummingWith(P, keys, pr, ch, j) ==
    SumOf(P, keys, pr, ch, <<Messages(P, pr, "none", SubSeed(j.seed, 1)), Messages(P, pr, j.fault, SubSeed(j.seed, 2))>>,
          [i \in 1..2 |-> [k \in 1..pr.U |-> OwnCoins(P, SubSeed(j.seed, 30 * i + k))]], j)
ProofResult(P, keys, j) ==
    IF j.op = "proof"
    THEN LET pr == NonInteractive(P, j.sec, j.kind) IN ProofWith(P, keys, pr, ChallengeOf(P, pr, j.ch), j)
    ELSE LET pr == Interactive(P, j.sec, j.kind, 2) IN SummingWith(P, keys, pr, ChallengeOf(P, pr, j.ch), j)
ActiveResult(P, keys, j) ==
    LET m == PolyValues(P, RandomPlain(P, j.seed, "full"))
        rc == Coins(P, SubSeed(j.seed, 2))
    IN  CreateMore(P, keys.pk, m, rc, Bumped(P, EncryptIntegers(P, keys.pk, m, rc), j.fault = "cipher"),
                   j.open, j.fault, j.seed, Retries)

\* The errors are e and f.
SacrificeResult(P, j) ==
    LET u == [a |-> j.x, b |-> j.y, c |-> j.x * j.y + j.e]
        v == [a |-> j.z, b |-> j.w, c |-> j.z * j.w + j.f]
        f == [a |-> j.z, b |-> j.z^2 + j.f]
    IN  {t \in 0..(P.p - 1) :
            CASE j.kind = "triple" -> TripleTau(P.p, u, v, t) = 0
              [] j.kind = "inverse" -> InverseTau(P.p, u, v, t) = 0
              [] j.kind = "square" -> SquareTau(P.p, f, [a |-> j.x, b |-> j.x^2 + j.e], t) = 0
              [] j.kind = "bit" -> BitTau(P.p, f, j.y + j.e, t) = 0}

OfflineInit == Called("cipher", CipherCalls)
Asked(ops) == Computing("cipher") /\ job.op \in ops
Operate == Asked({"ops"}) /\ Gives(OpsResult(Setups[job.s], job.x, job.y, job.seed))
GenerateKeys ==
    /\ Asked({"keygen"})
    /\ Gives(KeygenResult(Setups[job.s], GenProtocol(Setups[job.s], RunSeeds(3), job.numbers, FaultsIn(job)),
                          RandomPlain(Setups[job.s], 1, "full"), RandomPlain(Setups[job.s], 2, "full")))
ProduceTriples == Asked({"triple"}) /\ Gives(TripleProduction(Setups[job.s], job.key, job.seed))
ProduceSquares == Asked({"square"}) /\ Gives(SquareProduction(Setups[job.s], job.key, job.seed))
ProduceInverses == Asked({"inverse"}) /\ Gives(InverseProduction(Setups[job.s], job.key, job.seed))
ProduceBits == Asked({"bit"}) /\ Gives(BitProduction(Setups[job.s], job.key, job.seed))
ProduceInputs == Asked({"input"}) /\ Gives(InputProduction(Setups[job.s], job.key, "full", job.seed))
EncryptCovertly == Asked({"covert"}) /\ Gives(CovertResult(Setups[job.s], OwnKeys(Setups[job.s], 1), job))
GenerateCovertly == Asked({"covert_keys"}) /\ Gives(CovertKeysResult(Setups[job.s], job))
MultiplyPairwise ==
    Asked({"pairwise"}) /\ Gives(PairwiseTriple(Setups[job.s], OwnKeys(Setups[job.s], job.seed), job.seed))
InputPairwise ==
    Asked({"pairwise_input"}) /\ Gives(PairwiseInput(Setups[job.s], OwnKeys(Setups[job.s], job.seed), job.seed))
ProveKnowledge == Asked({"proof", "summing"}) /\ Gives(ProofResult(Setups[job.s], OwnKeys(Setups[job.s], 1)[1], job))
CommitActively == Asked({"active"}) /\ Gives(ActiveResult(Setups[job.s], OwnKeys(Setups[job.s], 1)[1], job))
Sacrifice == Asked({"sacrifice"}) /\ Gives(SacrificeResult(Setups["one"], job))

(***************************************************************************)
(* Properties.                                                             *)
(***************************************************************************)
Came(ops) == Ended("cipher") /\ job.op \in ops
\* Decryption gives what the operations on ciphertexts stand for, at either
\* level, and ciphertexts under different keys are not added (Ciphertext.cpp,
\* Rq_Element::Scale, KeyGen, decrypt_any).
Decrypted(P, x, y) ==
    LET is(got, wanted) == SlotValues(P, got) = SlotValues(P, wanted)
        product == MulPlain(P, x, y)
    IN  /\ is(out[1].enc, x) /\ is(out[1].sum, AddPlain(P, x, y)) /\ is(out[1].difference, SubPlain(P, x, y))
        /\ is(out[1].scaled, product) /\ is(out[1].low, AddPlain(P, x, y))
        /\ P.p # 2 => out[1].shifted =
              SetPolyMod(P, MulByX(Element("polynomial", PolyValues(P, x)), 1, P.D[0]).v, P0(P))
        /\ Top(P) = 0 => out[1].raw = Mismatch
        /\ Top(P) = 1 => is(out[1].product, product) /\ is(out[1].twice, AddPlain(P, product, product))
        /\ out[1].wrong = WrongKey
CiphersDecrypt == Came({"ops"}) => Decrypted(Setups[job.s], job.x, job.y)

\* A key is accepted when nothing but the run that stays closed was tampered
\* with, and an accepted honest key multiplies and decrypts with all shares
\* (DistKeyGen::Gen_Protocol, DistDecrypt::run).
KeySound ==
    Came({"keygen"}) =>
        LET P == Setups[job.s]
            closed == (FoldSeq(LAMBDA e, t : e + t, 0, job.numbers) % 2) + 1
        IN  /\ out[1].accepted <=> job.fault = "none" \/ job.run = closed
            /\ job.fault = "none" =>
                  SlotValues(P, out[1].opened) =
                      SlotValues(P, MulPlain(P, RandomPlain(P, 1, "full"), RandomPlain(P, 2, "full")))

\* The sum of the shares of all parties.
Whole(P, ms) == FoldLeft(LAMBDA t, x : AddPlain(P, FromPoly(P, t), FromPoly(P, x)), ms[1], Tail(ms)).a
TimesSlot(P, u, v) == [k \in DOMAIN u |-> SlotProduct(P, u[k], v[k])]
MacWhole(P, alphas) ==
    [k \in Vec(SlotCount(P)) |-> Whole(P, [i \in DOMAIN alphas |-> Evaluation(0 :> alphas[i])])[0]]
Correct(P, key, v) == Whole(P, v.mac) = Table(TimesSlot(P, Table(key), Whole(P, v.value)))

\* Shares made from ciphertexts have the relation of their tuple and MACs
\* under the shared key, a produced bit is a bit, and a produced inverse is
\* used only where the opened product has one (Producer.cpp, Reshare.cpp).
InverseFits(P, x) ==
    \A k \in DOMAIN x.ab :
        /\ SlotProduct(P, Whole(P, x.a.value)[k], Whole(P, x.b.value)[k]) = x.ab[k]
        /\ k \in UsableSlots(x) <=> Whole(P, x.a.value)[k] # 0 /\ Whole(P, x.b.value)[k] # 0
BitFits(P, K, x) ==
    \A k \in x.used :
        LET sum(f(_)) == SumMod(P.p, [i \in DOMAIN K.sks |-> f(i)])
            bit == sum(LAMBDA i : BitShare(P, K, i, SlotValues(P, x.v.value[i])[k]))
        IN  /\ bit \in {0, 1}
            /\ sum(LAMBDA i : BitMac(P, K, i, SlotValues(P, x.v.mac[i])[k])) = (bit * SumMod(P.p, K.alphas)) % P.p
TupleFits(P, K, x, op) ==
    LET ok(v) == Correct(P, MacWhole(P, K.alphas), v)
    IN  CASE op = "triple" ->
                ok(x.a) /\ ok(x.b) /\ ok(x.c)
                /\ Whole(P, x.c.value) = Table(TimesSlot(P, Whole(P, x.a.value), Whole(P, x.b.value)))
          [] op = "square" ->
                ok(x.a) /\ ok(x.b)
                /\ Whole(P, x.b.value) = Table(TimesSlot(P, Whole(P, x.a.value), Whole(P, x.a.value)))
          [] op = "inverse" -> ok(x.a) /\ ok(x.b) /\ InverseFits(P, x)
          [] op = "input" -> ok(x.x) /\ Whole(P, x.x.value) = SlotValues(P, x.a)
          [] op = "bit" -> BitFits(P, K, x)
ProducedRight == Came(Tuples \cup {"bit"}) => TupleFits(Setups[job.s], job.key, out[1], job.op)

\* A run that was tampered with is found unless it is the one that stays
\* closed (covert_generation, covert_key_generation).
CovertFound ==
    Came({"covert", "covert_keys"}) =>
        /\ out[1].accepted <=> job.fault \in {0, job.challenge}
        /\ job.fault = 0 => out[1].good

\* Parties that only multiply by what others encrypted get a triple and its
\* MACs, and MACs of an input (Multiplier, PairwiseGenerator).
PairwiseFits(P, x) ==
    LET key == Whole(P, x.alpha)
    IN  IF job.op = "pairwise_input" THEN Whole(P, x.mac) = Table(TimesSlot(P, key, SlotValues(P, x.b)))
        ELSE /\ \A f \in {"a", "b", "c"} : Correct(P, key, x[f])
             /\ Whole(P, x.c.value) = Table(TimesSlot(P, Whole(P, x.a.value), Whole(P, x.b.value)))
PairwiseRight == Came({"pairwise", "pairwise_input"}) => PairwiseFits(Setups[job.s], out[1])

\* Honest proofs are accepted and what next() gives fits together; what does
\* not fit is accepted only if the challenge leaves it out (Prover, Verifier,
\* SimpleEncCommit, SummingEncCommit).  With cut and choose a prover is never
\* stopped for what it drew, only for what it sent (EncCommit::Create_More).
ProofsSound ==
    /\ Came({"proof", "summing"}) /\ job.fault = "none" => out[1].accepted /\ out[1].good
    /\ Came({"proof", "summing"}) /\ job.fault # "none" => (out[1].accepted <=> ~out[1].combined)
    /\ Came({"active"}) => out[1] \in (IF job.fault = "none" THEN {"accepted", "again"} ELSE {"aborted", "again"})

\* Correct tuples always pass, a wrong one for at most one challenge, two
\* where the challenge is squared (Triple_Checking, Inverse_Checking,
\* Square_Checking, Bit_Checking).
WrongTuple(p) ==
    CASE job.kind = "inverse" -> (job.x * job.y) % p # 1 \/ job.f # 0
      [] job.kind = "bit" -> (job.y + job.e) % p \notin {0, 1} \/ job.f # 0
      [] OTHER -> job.e # 0 \/ job.f # 0
SacrificesCatch ==
    Came({"sacrifice"}) =>
        IF WrongTuple(5) THEN Cardinality(out[1]) <= (IF job.kind \in {"square", "bit"} THEN 2 ELSE 1)
        ELSE out[1] = 0..4
=============================================================================
