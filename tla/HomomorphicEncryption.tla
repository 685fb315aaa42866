------------------------ MODULE HomomorphicEncryption ------------------------
(***************************************************************************)
(* The encryption scheme of the offline phase (FHE/): ring elements modulo *)
(* one prime p0 or two (level 0 or 1), plaintexts in two representations,  *)
(* keys, encryption, the operations on ciphertexts with the change of      *)
(* modulus and of key, decryption by one party or by all, and the          *)
(* generation of a key that all parties share (FHEOffline/DistKeyGen.cpp). *)
(* A generator of random numbers is a function of its seed.                *)
(***************************************************************************)
EXTENDS Cyclotomic

\* Both changes of representation are linear: the data of a prime come with
\* what ChangeRep makes of the unit elements, and an element is transformed by
\* that.
UnitVector(i, n) == [k \in Vec(n) |-> IF k = i THEN 1 ELSE 0]
WithImages(R, D) ==
    D @@ [to |-> Table([i \in Vec(R.phi) |-> ToEvaluation(UnitVector(i, R.phi), D)]),
          back |-> Table([i \in Vec(R.phi) |-> ToPolynomial(UnitVector(i, R.phi), D)])]
DataOf(R, p) == WithImages(R, FFTData(R, p))
Transformed(v, images, p) ==
    LET upto[k \in DOMAIN v, n \in 0..Dimension(v)] ==
            IF n = 0 THEN 0 ELSE (upto[k, n - 1] + images[n - 1][k] * v[n - 1]) % p
    IN  [k \in DOMAIN v |-> upto[k, Dimension(v)]]
InRep(e, rep, D) ==
    IF e.rep = rep THEN e
    ELSE Element(rep, Transformed(e.v, IF rep = "evaluation" THEN D.to ELSE D.back, D.p))
Residues(v, rep, D) == InRep(Element("polynomial", [i \in Vec(D.R.phi) |-> v[i] % D.p]), rep, D)
Coefficients(e, D) == InRep(e, "polynomial", D).v

\* h, hope and sec are those of FHE_Params: weight of a secret key, width of
\* the noise, and the bits that drown it in distributed decryption.
MakeParams(R, p, p0, p1, h, sec) ==
    [p |-> p, h |-> h, hope |-> 1, sec |-> sec,
     field |-> IF p = 2 THEN <<>> ELSE DataOf(R, p),
     D |-> Table([l \in (IF p1 = 0 THEN {0} ELSE {0, 1}) |-> DataOf(R, IF l = 0 THEN p0 ELSE p1)])]
PhiM(P) == P.D[0].R.phi
Top(P) == Dimension(P.D) - 1        \* n_mults()
P0(P) == P.D[0].p
P1(P) == P.D[1].p
DrownBound(P) == P0(P) \div (2 * (1 + 2^P.sec))

(***************************************************************************)
(* Randomness.                                                             *)
(***************************************************************************)
Draw(seed, i) == (seed * 7919 + i * 7477 + seed * i * 31 + (i * i + seed) * (i + 3) * 57) \div 8
SubSeed(seed, k) == (seed * 17 + k * 101 + 3) % 997

SampleHalf(n, seed) ==
    Table([i \in Vec(n) |-> CASE Draw(seed, i) % 4 = 2 -> 1 [] Draw(seed, i) % 4 = 3 -> -1 [] OTHER -> 0])
SampleGauss(n, hope, seed) ==
    LET odd(i, b) == Cardinality({k \in (i * hope)..((i + 1) * hope - 1) : Draw(seed, 2 * k + b) % 2 = 1})
    IN  Table([i \in Vec(n) |-> odd(i, 0) - odd(i, 1)])
\* Signs come from bit 0 of a byte that is drawn again after eight of them.
SampleHwt(n, h, hope, seed) ==
    LET RECURSIVE Fill(_, _, _)
        Fill(v, cnt, k) ==
            LET i == Draw(seed, k) % n
                sign == IF Draw(seed, 100 + cnt \div 8) % 2 = 0 THEN -1 ELSE 1
            IN  IF cnt = h THEN v
                ELSE IF v[i] = 0 THEN Fill([v EXCEPT ![i] = sign], cnt + 1, k + 1)
                ELSE Fill(v, cnt, k + 1)
    IN  IF h > n \div 2 \/ h <= 0 THEN SampleGauss(n, hope, seed) ELSE Fill(Zeros(n), 0, 0)

(***************************************************************************)
(* Elements of R_q: a ring element for every modulus in use.  Operands of  *)
(* different levels are a level_mismatch.                                  *)
(***************************************************************************)
Mismatch == <<>>
FromIntegers(P, v, rep) == Table([l \in DOMAIN P.D |-> Residues(v, rep, P.D[l])])
RandomRq(P, seed) ==
    Table([l \in DOMAIN P.D |->
        Element("evaluation", [i \in Vec(PhiM(P)) |-> Draw(seed, 20 * l + i) % P.D[l].p])])
AddRq(P, a, b) ==
    IF DOMAIN a # DOMAIN b THEN Mismatch ELSE Table([l \in DOMAIN a |-> AddRing(a[l], b[l], P.D[l].p)])
SubRq(P, a, b) ==
    IF DOMAIN a # DOMAIN b THEN Mismatch ELSE Table([l \in DOMAIN a |-> SubRing(a[l], b[l], P.D[l].p)])
MulRq(P, a, b) ==
    IF DOMAIN a # DOMAIN b THEN Mismatch ELSE Table([l \in DOMAIN a |-> MulRing(a[l], b[l], P.D[l])])
TimesRq(P, a, c) == Table([l \in DOMAIN a |-> ScaleRing(a[l], c, P.D[l].p)])
NegateRq(P, a) == Table([l \in DOMAIN a |-> NegateRing(a[l], P.D[l].p)])
ShiftRq(P, a, j) == Table([l \in DOMAIN a |-> MulByX(a[l], j, P.D[l])])
ChangeRq(P, a, rep) == Table([l \in DOMAIN a |-> InRep(a[l], rep, P.D[l])])
SumRq(P, as) ==
    LET upto[i \in DOMAIN as] == IF i = 1 THEN as[1] ELSE AddRq(P, upto[i - 1], as[i]) IN upto[Len(as)]

LowerLevel(a) == 0 :> a[0]
\* The residue modulo p0, as an integer, also modulo p1.
RaiseLevel(P, a) ==
    IF Dimension(a) = Dimension(P.D) THEN a
    ELSE (0 :> a[0]) @@ (1 :> Residues(Coefficients(a[0], P.D[0]), "evaluation", P.D[1]))
MulByP1(P, a) ==
    IF Top(P) = 0 THEN Mismatch
    ELSE (0 :> ScaleRing(a[0], P1(P) % P0(P), P0(P))) @@ (1 :> ScaleRing(a[0], 0, P1(P)))

\* Chinese remainders at level 1; centred only where there is one modulus.
FromResidues(P, v, w, p0i) ==
    LET k(i) == P0(P) * ((Magnitude(w[i] - v[i]) * p0i) % P1(P))
    IN  Table([i \in DOMAIN v |-> IF w[i] >= v[i] THEN (v[i] + k(i)) % (P0(P) * P1(P))
                                  ELSE -((k(i) - v[i]) % (P0(P) * P1(P)))])
FromLow(P, v) == Table([i \in DOMAIN v |-> IF Top(P) = 0 /\ v[i] > P0(P) \div 2 THEN v[i] - P0(P) ELSE v[i]])
ToIntegers(P, a) ==
    IF Dimension(a) = 2
    THEN FromResidues(P, Coefficients(a[0], P.D[0]), Coefficients(a[1], P.D[1]), InvMod(P0(P) % P1(P), P1(P)))
    ELSE FromLow(P, Coefficients(a[0], P.D[0]))

Centred(x, q) == IF x > q \div 2 THEN x - q ELSE x
\* From level 1 to level 0: what is added makes a multiple of p1 of it and
\* does not change it modulo p.
ScaleDelta(P, delta, p) ==
    LET n == P1(P) * p
    IN  Centred(Rem(((delta * InvMod(P1(P) % p, p)) % p) * P1(P) - delta, n), n)
DeltaOf(P, poly) == Table([i \in DOMAIN poly |-> ScaleDelta(P, poly[i], P.p)])
WithDelta(P, x) == AddRq(P, x, FromIntegers(P, DeltaOf(P, Coefficients(x[1], P.D[1])), "evaluation"))
ScaleRq(P, a) ==
    IF Dimension(a) < 2 THEN a
    ELSE 0 :> ScaleRing(WithDelta(P, TimesRq(P, a, Centred(P1(P) % P.p, P.p)))[0],
                        InvMod(P1(P) % P0(P), P0(P)), P0(P))

(***************************************************************************)
(* Plaintexts: b is the polynomial, a the slots, and type says which of    *)
(* them is valid.  Over GF(2) the order is such that there is one slot.    *)
(***************************************************************************)
SlotsOf(P, b) == IF P.p = 2 THEN 0 :> b[0] + 2 * b[1] ELSE Residues(b, "evaluation", P.field).v
PolyOf(P, a) == IF P.p = 2 THEN (0 :> a[0] % 2) @@ (1 :> a[0] \div 2)
                ELSE Coefficients(Element("evaluation", a), P.field)
Polynomial(b) == [type |-> "polynomial", a |-> <<>>, b |-> b]
Evaluation(a) == [type |-> "evaluation", a |-> a, b |-> <<>>]
FromPoly(P, x) ==
    IF x.type = "polynomial" THEN [type |-> "both", a |-> SlotsOf(P, x.b), b |-> x.b] ELSE x
ToPoly(P, x) ==
    IF x.type = "evaluation" THEN [type |-> "both", a |-> x.a, b |-> PolyOf(P, x.a)] ELSE x
SlotValues(P, x) == FromPoly(P, x).a
PolyValues(P, x) == ToPoly(P, x).b

\* Of two types, none for a rep_mismatch.
CommonType(x, y) ==
    CASE x.type = y.type -> x.type [] x.type = "both" -> y.type [] y.type = "both" -> x.type
      [] OTHER -> "none"
Combined(type, a, b) ==
    [type |-> type, a |-> IF type # "polynomial" THEN Table(a) ELSE <<>>,
     b |-> IF type # "evaluation" THEN Table(b) ELSE <<>>]
\* A sum of coefficients that is p stays p.
AddPlain(P, x, y) ==
    Combined(CommonType(x, y),
        [i \in DOMAIN x.a |-> IF P.p = 2 THEN x.a[i] ^^ y.a[i] ELSE (x.a[i] + y.a[i]) % P.p],
        [i \in DOMAIN x.b |-> LET s == x.b[i] + y.b[i]
                              IN  IF P.p = 2 THEN s % 2 ELSE IF s > P.p THEN s - P.p ELSE s])
SubPlain(P, x, y) ==
    Combined(CommonType(x, y),
        [i \in DOMAIN x.a |-> IF P.p = 2 THEN x.a[i] ^^ y.a[i] ELSE (x.a[i] - y.a[i]) % P.p],
        [i \in DOMAIN x.b |-> LET s == x.b[i] - y.b[i]
                              IN  IF P.p = 2 THEN s % 2 ELSE IF s < 0 THEN s + P.p ELSE s])
NegatePlain(P, x) ==
    IF P.p = 2 THEN x
    ELSE Combined(x.type, [i \in DOMAIN x.a |-> (-x.a[i]) % P.p],
                  [i \in DOMAIN x.b |-> IF x.b[i] # 0 THEN P.p - x.b[i] ELSE 0])
SlotProduct(P, u, v) == IF P.p = 2 THEN MulModGF2(u, v, BinaryPoly(P.D[0].R)) ELSE (u * v) % P.p
MulSlots(P, u, v) == Table([i \in DOMAIN u |-> SlotProduct(P, u[i], v[i])])
MulPlain(P, x, y) == Evaluation(MulSlots(P, SlotValues(P, x), SlotValues(P, y)))
AddToPlain(P, x, y) == AddPlain(P, ToPoly(P, x), ToPoly(P, y))

\* From a polynomial modulo mod that is centred first.
SetPolyMod(P, v, mod) == Polynomial(Table([i \in DOMAIN v |-> Centred(v[i], mod) % P.p]))

SlotCount(P) == IF P.p = 2 THEN 1 ELSE PhiM(P)
SlotSize(P) == IF P.p = 2 THEN 4 ELSE P.p
RandomPlain(P, seed, cond) ==
    CASE cond = "full" -> Polynomial(Table([i \in Vec(PhiM(P)) |-> Draw(seed, i) % P.p]))
      [] cond = "diagonal" -> Evaluation(Table([i \in Vec(SlotCount(P)) |-> Draw(seed, 0) % SlotSize(P)]))
      [] cond = "bits" -> Evaluation(Table([i \in Vec(SlotCount(P)) |-> Draw(seed, i) % 2]))

(***************************************************************************)
(* Keys and encryption.  The generators of one element give the same       *)
(* integers for both moduli.                                               *)
(***************************************************************************)
CoinsOf(P, u, v, w) ==
    [u |-> FromIntegers(P, u, "evaluation"), v |-> FromIntegers(P, v, "evaluation"),
     w |-> FromIntegers(P, w, "polynomial")]
Coins(P, seed) ==
    CoinsOf(P, SampleHalf(PhiM(P), SubSeed(seed, 1)), SampleGauss(PhiM(P), P.hope, SubSeed(seed, 2)),
            SampleGauss(PhiM(P), P.hope, SubSeed(seed, 3)))

\* a*s + p*e for noise e.
WithNoise(P, a, s, stretch, seed) ==
    AddRq(P, MulRq(P, a, s),
          TimesRq(P, FromIntegers(P, SampleGauss(PhiM(P), P.hope * stretch^2, seed), "evaluation"), P.p))
SecretKey(P, seed) ==
    FromIntegers(P, SampleHwt(PhiM(P), P.h, P.hope, SubSeed(seed, 4)), "evaluation")
PublicKey(P, s, seed, stretch) ==
    LET a == RandomRq(P, SubSeed(seed, 5))
        sa == RandomRq(P, SubSeed(seed, 6))
        low == LowerLevel(s)
        square == MulByP1(P, MulRq(P, low, low))
    IN  [a |-> a, b |-> WithNoise(P, a, s, stretch, SubSeed(seed, 7)),
         sa |-> IF Top(P) = 0 THEN <<>> ELSE sa,
         sb |-> IF Top(P) = 0 THEN <<>>
                ELSE SubRq(P, WithNoise(P, sa, s, stretch, SubSeed(seed, 8)), square)]
KeyGen(P, seed) == [pk |-> PublicKey(P, SecretKey(P, seed), seed, 1), sk |-> LowerLevel(SecretKey(P, seed))]

Cipher(c0, c1, id) == [c0 |-> c0, c1 |-> c1, id |-> id]
KeyId(pk) == pk.a[0].v[0]
QuasiEncrypt(P, pk, mess, rc) ==
    Cipher(AddRq(P, MulRq(P, pk.b, rc.u),
                 ChangeRq(P, AddRq(P, TimesRq(P, rc.w, P.p), mess), "evaluation")),
           AddRq(P, MulRq(P, pk.a, rc.u), TimesRq(P, rc.v, P.p)), KeyId(pk))
EncryptIntegers(P, pk, v, rc) == QuasiEncrypt(P, pk, FromIntegers(P, v, "polynomial"), rc)
Encrypt(P, pk, x, rc) == EncryptIntegers(P, pk, PolyValues(P, x), rc)

ScaleCipher(P, c) == Cipher(ScaleRq(P, c.c0), ScaleRq(P, c.c1), c.id)
\* Ciphertexts under different keys are refused; 0 stands for any key.
WrongKey == Cipher(Mismatch, Mismatch, -1)
SameKey(c, d) == c.id = 0 \/ d.id = 0 \/ c.id = d.id
AddCipher(P, c, d) ==
    IF SameKey(c, d) THEN Cipher(AddRq(P, c.c0, d.c0), AddRq(P, c.c1, d.c1), IF c.id = 0 THEN d.id ELSE c.id)
    ELSE WrongKey
SubCipher(P, c, d) ==
    IF SameKey(c, d) THEN Cipher(SubRq(P, c.c0, d.c0), SubRq(P, c.c1, d.c1), IF c.id = 0 THEN d.id ELSE c.id)
    ELSE WrongKey
SumCipher(P, cs) ==
    LET upto[i \in DOMAIN cs] == IF i = 1 THEN cs[1] ELSE AddCipher(P, upto[i - 1], cs[i]) IN upto[Len(cs)]
MulCipherRq(P, c, a) == Cipher(MulRq(P, a, c.c0), MulRq(P, a, c.c1), c.id)
\* from() lifts the plaintext to all levels whatever the ciphertext's is.
TimesPlain(P, c, x) == MulCipherRq(P, c, FromIntegers(P, PolyValues(P, x), "evaluation"))
ShiftCipher(P, c, j) == Cipher(ShiftRq(P, c.c0, j), ShiftRq(P, c.c1, j), c.id)

SwitchKey(P, pk, d0, d1, d2, id) ==
    ScaleCipher(P, Cipher(AddRq(P, MulByP1(P, d0), MulRq(P, pk.sb, RaiseLevel(P, d2))),
                          AddRq(P, MulByP1(P, d1), MulRq(P, pk.sa, RaiseLevel(P, d2))), id))
MulScaled(P, pk, c, d) ==
    SwitchKey(P, pk, MulRq(P, c.c0, d.c0), AddRq(P, MulRq(P, c.c0, d.c1), MulRq(P, c.c1, d.c0)),
              NegateRq(P, MulRq(P, c.c1, d.c1)), IF c.id = 0 THEN d.id ELSE c.id)
MulCipher(P, pk, c, d) ==
    IF SameKey(c, d) THEN MulScaled(P, pk, ScaleCipher(P, c), ScaleCipher(P, d)) ELSE WrongKey

DecryptLow(P, sk, c) ==
    SetPolyMod(P, Coefficients(SubRq(P, c.c0, MulRq(P, c.c1, sk))[0], P.D[0]), P0(P))
Decrypt(P, sk, c) == DecryptLow(P, sk, ScaleCipher(P, c))

(***************************************************************************)
(* Decryption by parties with shares of the secret key.                    *)
(***************************************************************************)
MaskBound(P, n) == ((DrownBound(P) * 2^P.sec) \div (n * P.p)) \div 2
MaskDraw(bound, seed, i) ==
    CASE Draw(seed, i) % 3 = 0 -> 0 [] Draw(seed, i) % 3 = 1 -> 2 * bound - 1
      [] OTHER -> Draw(seed, i + 7) % (2 * bound)
DecryptionShare(P, sk, low, player) ==
    LET part == MulRq(P, low.c1, sk)
    IN  ToIntegers(P, IF player = 0 THEN SubRq(P, low.c0, part) ELSE NegateRq(P, part))
Drowned(P, v, n, seed) ==
    Table([i \in DOMAIN v |-> (v[i] + P.p * (MaskDraw(MaskBound(P, n), seed, i) - MaskBound(P, n))) % P0(P)])
DistDecrypt1(P, sk, c, player, n, seed) ==
    Drowned(P, DecryptionShare(P, sk, ScaleCipher(P, c), player), n, seed)
DistDecrypt2(P, v, w) == Table([i \in DOMAIN v |-> (v[i] + w[i]) % P0(P)])

(***************************************************************************)
(* A key for which every party has a share: run several times, and all     *)
(* runs but one are opened and computed again by everybody.                *)
(***************************************************************************)
RandomData(P, seed) ==
    [secret |-> SecretKey(P, seed), rc1 |-> Coins(P, SubSeed(seed, 11)), rc2 |-> Coins(P, SubSeed(seed, 12)),
     a |-> RandomRq(P, SubSeed(seed, 13)),
     e |-> FromIntegers(P, SampleGauss(PhiM(P), P.hope, SubSeed(seed, 14)), "evaluation")]
ShareOfB(P, k, a) == AddRq(P, MulRq(P, a, k.secret), TimesRq(P, k.e, P.p))
EncryptRq(P, pk, mess, rc) ==
    Cipher(AddRq(P, MulRq(P, pk.b, rc.u),
                 AddRq(P, ChangeRq(P, TimesRq(P, rc.w, P.p), "evaluation"), mess)),
           AddRq(P, MulRq(P, pk.a, rc.u), TimesRq(P, rc.v, P.p)), KeyId(pk))
MinusP1(P, s) == NegateRq(P, MulByP1(P, s))
ShareOfEncDash(P, k, pk) == EncryptRq(P, pk, MinusP1(P, k.secret), k.rc1)
EncryptedZero(P, pk, rc) == EncryptIntegers(P, pk, Zeros(PhiM(P)), rc)
TimesSecret(P, c, s) == Cipher(MulRq(P, c.c0, s), MulRq(P, c.c1, s), c.id)
ShareOfEnc(P, k, pk, dash) == AddCipher(P, TimesSecret(P, dash, k.secret), EncryptedZero(P, pk, k.rc2))

\* A party's contribution to a run as it is sent; fault is one of the
\* messages of the last party that does not come from its seed, or none.
OneRq(P) == FromIntegers(P, [i \in Vec(PhiM(P)) |-> IF i = 0 THEN 1 ELSE 0], "evaluation")
SentRq(P, x, i, n, what, fault) == IF i = n /\ fault = what THEN AddRq(P, x, OneRq(P)) ELSE x
SentCipher(P, c, i, n, what, fault) == [c EXCEPT !.c0 = SentRq(P, c.c0, i, n, what, fault)]
SumOfA(P, k, fault) == SumRq(P, [i \in DOMAIN k |-> SentRq(P, k[i].a, i, Len(k), "a", fault)])
WithB(P, k, a, fault) ==
    [a |-> a, b |-> SumRq(P, [i \in DOMAIN k |-> SentRq(P, ShareOfB(P, k[i], a), i, Len(k), "b", fault)])]
WithDash(P, k, pk, fault) ==
    [pk |-> pk, dash |-> SumCipher(P, [i \in DOMAIN k |->
                            SentCipher(P, ShareOfEncDash(P, k[i], pk), i, Len(k), "enc_dash", fault)])]
WithEnc(P, k, run, fault) ==
    run @@ [enc |-> SumCipher(P, [i \in DOMAIN k |->
                        SentCipher(P, ShareOfEnc(P, k[i], run.pk, run.dash), i, Len(k), "enc", fault)]),
            secrets |-> [i \in DOMAIN k |-> k[i].secret]]
RunWith(P, k, fault) == WithEnc(P, k, WithDash(P, k, WithB(P, k, SumOfA(P, k, fault), fault), fault), fault)
OneRun(P, seeds, fault) == RunWith(P, [i \in DOMAIN seeds |-> RandomData(P, seeds[i])], fault)

\* Everything from the seeds against what a run gave (check_randomness).
SwitchingAgrees(P, run, dash0, dash1, s, zero) ==
    /\ dash1 = run.dash.c1 /\ dash0 = run.dash.c0
    /\ AddCipher(P, TimesSecret(P, Cipher(dash0, dash1, KeyId(run.pk)), s), zero) = run.enc
RunAgrees(P, run, s, a, e, ed, zero) ==
    /\ run.pk.a = a
    /\ run.pk.b = AddRq(P, MulRq(P, a, s), TimesRq(P, e, P.p))
    /\ SwitchingAgrees(P, run, AddRq(P, ed.c0, MinusP1(P, s)), ed.c1, s, zero)
RandomnessAgrees(P, k, run) ==
    LET sum(f) == SumRq(P, [i \in DOMAIN k |-> k[i][f]])
        none == FromIntegers(P, Zeros(PhiM(P)), "evaluation")
    IN  RunAgrees(P, run, sum("secret"), sum("a"), sum("e"),
                  SumCipher(P, [i \in DOMAIN k |-> EncryptRq(P, run.pk, none, k[i].rc1)]),
                  SumCipher(P, [i \in DOMAIN k |-> EncryptedZero(P, run.pk, k[i].rc2)]))
CheckRandomness(P, seeds, run) == RandomnessAgrees(P, [i \in DOMAIN seeds |-> RandomData(P, seeds[i])], run)

NoKey == <<>>
FinalKey(run) ==
    [pk |-> run.pk @@ [sa |-> run.enc.c1, sb |-> run.enc.c0],
     sks |-> [i \in DOMAIN run.secrets |-> LowerLevel(run.secrets[i])]]
\* Only the run that the sum of the committed numbers names is not opened.
KeyOf(P, seeds, runs, challenge) ==
    IF \A r \in DOMAIN seeds : r = challenge \/ CheckRandomness(P, seeds[r], runs[r])
    THEN FinalKey(runs[challenge]) ELSE NoKey
GenProtocol(P, seeds, numbers, faults) ==
    KeyOf(P, seeds, [r \in DOMAIN seeds |-> OneRun(P, seeds[r], faults[r])],
          (FoldLeft(LAMBDA t, e : t + e, 0, numbers) % Len(seeds)) + 1)
=============================================================================
