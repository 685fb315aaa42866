----------------------------- MODULE NonLinear -----------------------------
(***************************************************************************)
(* The compiler's protocols for operations that are not linear: reduction  *)
(* modulo a power of two, truncation, comparison and bit decomposition     *)
(* (Compiler/comparison.py, floatingpoint.py, non_linear.py), for the      *)
(* three kinds of computation domain: a ring of integers modulo            *)
(* 2^RingSize, a prime field with Kappa bits of statistical masking, and a *)
(* field whose prime KnownPrime is known when compiling.                   *)
(*                                                                         *)
(* A secret is its value in the domain; what is revealed is computed from  *)
(* masked values exactly as in the code.  Random secrets are the numbers   *)
(* of a sequence r that comes with the job: the first is drawn freely, the *)
(* later ones from small sets.  A job is one call with its inputs; one     *)
(* step computes its result.                                               *)
(***************************************************************************)
EXTENDS BitCircuits, FiniteSets, Computation

CONSTANTS RingSize,     \* bits of the ring
          Prime,        \* the field with statistical masking
          Kappa,        \* its security parameter
          KnownPrime,   \* the field known when compiling
          Draws         \* later random draws

InR(x) == x % 2^RingSize
F(x) == x % Prime
G(x) == x % KnownPrime
InvIn(x, p) == CHOOSE y \in 1..(p - 1) : (x * y) % p = 1

\* A signed or unsigned number of k bits.
Numbers(k, signed) == IF signed THEN -(2^(k - 1))..(2^(k - 1) - 1) ELSE 0..(2^k - 1)
Offset(signed, e) == IF signed THEN 2^e ELSE 0

(***************************************************************************)
(* Rings: masking in the low n bits, (x << shift).reveal() >> shift.       *)
(***************************************************************************)
LowBits(x, n) == InR(x * 2^(RingSize - n)) \div 2^(RingSize - n)
MaskingBitsInRing(n, r) == Bits(r % 2^n, n)

Mod2mRing(a, k, m, r) ==
    LET mask == MaskingBitsInRing(m, r)
        c == LowBits(a + BitCompose(mask), m)
    IN  InR(BitLTL(c, mask) * 2^m + c - BitCompose(mask))

\* Mutant: the offset that makes a positive is not taken off again.
TruncLeakyUnsigned(a, k, m, signed, r) ==
    LET n == k - m
        mask == MaskingBitsInRing(n, r)
        masked == InR((a + Offset(signed, k - 1)) * 2^(RingSize - k)
                    + BitCompose(mask) * 2^(RingSize - n)) \div 2^(RingSize - n)
    IN  InR(BitLTL(masked, mask) * 2^n + masked - BitCompose(mask))

TruncLeakyInRing(a, k, m, signed, r) ==
    LET n == k - m
        n_shift == RingSize - n
        mask == MaskingBitsInRing(n, r)
        b == a + Offset(signed, k - 1)
        masked == InR(b * 2^(n_shift - m) + BitCompose(mask) * 2^n_shift) \div 2^n_shift
    IN  InR(BitLTL(masked, mask) * 2^n + masked - BitCompose(mask) - Offset(signed, n - 1))

TruncRing(a, k, m, signed, r) ==
    TruncLeakyInRing(InR(a - Mod2mRing(a, k, m, r[1])), k, m, signed, r[2])

(***************************************************************************)
(* Truncation by local share conversion: every party decomposes its share. *)
(***************************************************************************)
Shares(a, n, r) == IF n = 2 THEN <<InR(r[1]), InR(a - r[1])>>
                   ELSE <<InR(r[1]), InR(r[2]), InR(a - r[1] - r[2])>>
SplitColumns(a, length, n, r) ==
    LET s == Shares(a, n, r)
    IN  [i \in 1..length |-> [j \in 1..n |-> Bits(s[j], RingSize)[i]]]
ShrSI(a, n, m, r) == LET s == Shares(a, n, r)
                     IN  FoldLeft(LAMBDA v, x : v + x \div 2^m, 0, s)

\* The carries out of the m low bits and out of all bits, of the rows x.
SplitTop(x, m, mid) ==
    LET upper == [i \in 1..(RingSize - m) |-> HalfAdder(x[2][m + i], x[1][m + i])]
    IN  CarryOrNone(<<NoBit, mid>>, TreeReduce("carry_or_none", upper), FALSE)[2]
SplitCarriesTwo(x, m) ==
    LET carries == GetCarries(x[1], x[2], FALSE, 0) IN [low |-> carries[m + 1], high |-> carries[RingSize + 1]]
SplitCarriesOne(x) ==
    [low |-> x[2][2], high |-> CarryOutRawLE(Front(x[2]), Front(x[1])) + Last(x[1])]
SplitCarriesMore(x, m, mid) == [low |-> mid + x[1][m + 1], high |-> SplitTop(x, m, mid) + Last(x[1])]
SplitCarries(x, m, n) ==
    IF n = 2 THEN SplitCarriesTwo(x, m)
    ELSE IF m = 1 THEN SplitCarriesOne(x)
    ELSE SplitCarriesMore(x, m, CarryOutRawLE(Take(x[2], m), Take(x[1], m)))
TruncShares(a, k, m, signed, n, r, carries) ==
    InR(ShrSI(a, n, m, r) + carries.low - carries.high * 2^(RingSize - m) - Offset(signed, k - m - 1))
TruncSplit(a0, k, m, signed, n, r) ==
    LET a == InR(a0 + Offset(signed, k - 1))
    IN  TruncShares(a, k, m, signed, n, r,
                    SplitCarries(WallaceTreeWithoutFinish(SplitColumns(a, RingSize, n, r), TRUE), m, n))

(***************************************************************************)
(* Prime fields with statistical masking.  PRandM draws k + Kappa bits, of *)
(* which the lowest m are known bitwise.                                   *)
(***************************************************************************)
PRandM(k, m, r) == LET x == r % 2^(k + Kappa)
                   IN  [r_prime |-> x % 2^m, r_dprime |-> x \div 2^m, b |-> Bits(x, m)]

Mod2Field(a, k, signed, r) ==
    LET mask == PRandM(k, 1, r)
        c == F(2 * mask.r_dprime + a + Offset(signed, k - 1) + mask.r_prime)
    IN  IF k <= 1 THEN a ELSE F(BitXor(mask.b[1], c % 2))

(* Prefix products, with the partial products masked by random inverses.   *)
UnitMasks(k, r) == [i \in 1..k |-> 1 + ((r * i) % (Prime - 1))]

PreMulCEnd(a, m, z) ==
    LET c == [j \in DOMAIN a |-> FoldLeft(LAMBDA v, x : F(v * x), 1, Take(m, j))]
    IN  [j \in DOMAIN a |-> IF j = 1 THEN a[1] ELSE F(z[j] * c[j])]

PreMulCWithInverses(a, r) ==
    LET u == UnitMasks(Len(a), r)
        z == [i \in DOMAIN u |-> InvIn(u[i], Prime)]
        w == [i \in DOMAIN u |-> IF i = 1 THEN u[1] ELSE F(u[i] * z[i - 1])]
    IN  PreMulCEnd(a, [i \in DOMAIN a |-> F(w[i] * a[i])], z)

PreMulCWithoutInverses(a, r) ==
    LET s == UnitMasks(Len(a), r)
        t == UnitMasks(Len(a), r + 1)
        u == [i \in DOMAIN a |-> F(s[i] * t[i])]
        w == [i \in DOMAIN a |-> IF i = 1 THEN t[1]
                                 ELSE F(F(t[i] * s[i - 1]) * InvIn(u[i - 1], Prime))]
        z == [i \in DOMAIN a |-> F(s[i] * InvIn(u[i], Prime))]
    IN  PreMulCEnd(a, [i \in DOMAIN a |-> F(w[i] * a[i])], z)

PreMulC(variant, a, r) == IF variant = "plain" THEN PreMulCWithoutInverses(a, r)
                          ELSE PreMulCWithInverses(a, r)

\* u = a <? b in a constant number of rounds.
BitLTC1(variant, a, b, r) ==
    LET k == Len(b)
        bits == Bits(a, k)
        d == [i \in 1..k |-> b[i] + bits[i] - 2 * bits[i] * b[i]]
        p == Reverse(PreMulC(variant, Reverse([i \in 1..k |-> d[i] + 1]), r[3]))
        s == [i \in 1..k |-> IF i = k THEN p[k] - 1 ELSE p[i] - p[i + 1]]
        t == F(FoldLeftDomain(LAMBDA v, i : v + s[i] * (1 - bits[i]), 0, b))
    IN  Mod2Field(t, k, FALSE, r[2])

Mod2mField(variant, a, k, m, signed, r) ==
    LET mask == PRandM(k, m, r[1])
        c == F(mask.r_dprime * 2^m + a + Offset(signed, k - 1) + mask.r_prime) % 2^m
        u == IF variant = "log" THEN BitLTL(c, mask.b) ELSE BitLTC1(variant, c, mask.b, r)
    IN  F(c - mask.r_prime + u * 2^m)

TruncPrField(a, k, m, r) ==
    LET mask == PRandM(k, m, r)
        c == F(2^(k - 1) + a + 2^m * mask.r_dprime + mask.r_prime)
    IN  IF m = 0 THEN a
        ELSE F((a - ((c % 2^m) - mask.r_prime)) * InvIn(F(2^m), Prime))

(* Prefix OR by prefix products of 1 or 2, in blocks that fit the field.   *)
MaxK == 2^CeilLog(4 + Kappa) - Kappa - 2
RECURSIVE PreORC(_, _, _, _)
PreORC(variant, a, m, r) ==
    LET k == Len(a)
        b == PreMulC(variant, [i \in 1..k |-> a[i] + 1], r[3])
        n == (k + MaxK - 1) \div MaxK
        s == [i \in 1..n |-> LET part == SubSeq(a, (i - 1) * MaxK + 1,
                                                IF i = n THEN k ELSE i * MaxK)
                             IN  PreORC(variant, part, Len(part), r)]
        t == PreORC(variant, [i \in 1..(n - 1) |-> Last(s[i])], n - 1, r)
        parts == [i \in 1..n |-> IF i = 1 THEN s[1]
                                 ELSE [j \in DOMAIN s[i] |-> OrOp(s[i][j], t[i - 1], 0)]]
        joined == FoldLeft(LAMBDA x, y : x \o y, <<>>, parts)
    IN  IF k = 1 THEN <<a[1]>>
        ELSE IF k <= MaxK
             THEN [i \in 1..m |-> F(1 - Mod2Field(b[k - m + i], k, FALSE, r[2]))]
             ELSE Drop(joined, k - m)

(***************************************************************************)
(* A known prime: exact bit decomposition, with a random b below the prime *)
(* (the loop of the code draws again until BITLT accepts).                 *)
(***************************************************************************)
PrimeLength(p) == CHOOSE n \in 1..16 : 2^(n - 1) <= p /\ p < 2^n
Accepted(r) == BITLT(Bits(r, PrimeLength(KnownPrime)), Bits(KnownPrime, PrimeLength(KnownPrime))) = 1

BitDecFull(a, r) ==
    LET n == PrimeLength(KnownPrime)
        b == Bits(r, n)
        c == G(a - BitCompose(b))
        t == Bits(G(KnownPrime - c), n)
        czero == IF c = 0 THEN 1 ELSE 0
        q == 1 - BITLT(b, t)
        fbar == Bits(2^n + c - KnownPrime, n)
        fbard == Bits(c, n)
        g == [i \in 1..n |-> (fbar[i] - fbard[i]) * q + fbard[i]]
        h == BitAdd(b, g)
    IN  [i \in 1..n |-> (1 - czero) * h[i] + czero * b[i]]

BitDecKnown(a, k, m, r) == Take(BitDecFull(G(a), r), m)

(***************************************************************************)
(* The operations of non_linear.py, by domain.                             *)
(***************************************************************************)
DomMod(dom) == CASE dom = "ring" -> 2^RingSize
                 [] dom = "known" -> KnownPrime
                 [] OTHER -> Prime

Mod2m(dom, a, k, m, signed, r) ==
    IF m >= k THEN a
    ELSE CASE dom = "ring" -> Mod2mRing(a, k, m, r[1])
           [] dom = "known" -> BitCompose(Take(BitDecKnown(a + Offset(signed, k - 1), k, k, r[1]), m))
           [] OTHER -> IF m = 1 THEN Mod2Field(a, k, signed, r[1])
                       ELSE Mod2mField(dom, a, k, m, signed, r)

Trunc(dom, a, k, m, signed, r) ==
    IF m = 0 THEN a
    ELSE IF dom = "ring" THEN TruncRing(a, k, m, signed, r)
    ELSE LET p == DomMod(dom)
         IN  ((a - Mod2m(dom, a, k, m, signed, r)) * InvIn(2^m % p, p)) % p

LTZ(dom, a, k, r) ==
    IF dom = "ring"
    THEN LET m == k - 1
             mask == MaskingBitsInRing(k, r[1])
             c == LowBits(a - BitCompose(mask), k)
             u == CarryOutRaw(Reverse(Bits(c, m)), Reverse(Take(mask, m)), 0)
         IN  BitXor(BitXor(mask[k], c \div 2^m), u)
    ELSE (- Trunc(dom, a, k, k - 1, TRUE, r)) % DomMod(dom)

TopOfRows(x) == BitXor(BitXor(CarryOutRawLE(Front(x[2]), Front(x[1])), Last(x[1])), Last(x[2]))
LTZSplit(a, k, n, r) == TopOfRows(WallaceTreeWithoutFinish(SplitColumns(a, k, n, r), FALSE))

TruncRoundNearest(dom, a, k, m, signed, r) ==
    CASE dom = "ring" /\ k = RingSize ->
           LET half == IF m = 1 THEN a ELSE TruncRing(a, k, m - 1, signed, r)
           IN  TruncRing(InR(half + 1), k - m + 1, 1, signed, r)
      [] dom = "known" ->
           LET b == a + 2^(m - 1) + Offset(signed, k - 1)
               kk == IF signed THEN k + 1 ELSE k
           IN  G(BitCompose(Drop(BitDecKnown(b, kk, kk, r[1]), m)) - Offset(signed, kk - m - 2))
      [] OTHER -> Trunc(dom, (a + 2^(m - 1)) % DomMod(dom), k + 1, m, signed, r)

MaskRing(a, k, r) == [c |-> LowBits(a + (r % 2^k), k), r |-> Bits(r, k)]
MaskField(a, k, r) ==
    LET mask == PRandM(k, k, r)
    IN  [c |-> F(a + 2^k + 2^k * mask.r_dprime + mask.r_prime), r |-> mask.b]
Kor(dom, d, r) == IF dom \in {"ring", "log"} THEN KORL(d) ELSE PreORC(dom, d, 1, r)[1]

EQZ(dom, a, k, r) ==
    IF dom = "known" THEN 1 - KORL(BitDecKnown(a + 2^k, k, k, r[1]))
    ELSE LET mask == IF dom = "ring" THEN MaskRing(a, k, r[1]) ELSE MaskField(a, k, r[1])
             c == Bits(mask.c, k)
         IN  (1 - Kor(dom, [i \in 1..k |-> BitXor(mask.r[i], c[i])], r)) % DomMod(dom)

TruncPrRing(a, k, m, signed, r) ==
    IF m = 0 THEN a
    ELSE IF k = RingSize
    THEN TruncLeakyInRing(InR(a + (r[1] % 2^m)), k, m, signed, r[2])
    ELSE LET mask == r[1] % 2^(k + 1)
             upper == (mask % 2^k) \div 2^m
             msb == mask \div 2^k
             n_shift == RingSize - (k + 1)
             masked == InR((a + Offset(signed, k - 1) + mask) * 2^n_shift)
             shifted == InR(masked * 2) \div 2^(n_shift + m + 1)
             overflow == BitXor(msb, masked \div 2^(RingSize - 1))
         IN  InR(shifted - upper + overflow * 2^(k - m) - Offset(signed, k - m - 1))

TruncPr(dom, a, k, m, signed, r) ==
    CASE dom = "ring" -> TruncPrRing(a, k, m, signed, r)
      [] dom = "known" -> TruncRoundNearest(dom, a, k, m, signed, r)
      [] OTHER -> TruncPrField(a, k, m, r[1])

BitDecRing(a, k, m, r) ==
    LET mask == Bits(r, m)
        masked == LowBits(a - BitCompose(mask), m)
    IN  BitAdder(mask, Bits(masked, m))

BitDecField(a, k, m, r) ==
    LET mask == PRandM(k, m, r)
        c == F(2^(k + Kappa) + 2^k + a - 2^m * mask.r_dprime - mask.r_prime)
    IN  BitAdder(mask.b, Bits(c, m))

BitDec(dom, a, k, m, r) == CASE dom = "ring" -> BitDecRing(a, k, m, r)
                             [] dom = "known" -> BitDecKnown(a, k, m, r)
                             [] OTHER -> BitDecField(a, k, m, r)

(***************************************************************************)
(* Operations by a secret amount: 2^a, the unary code of a, and shifts.    *)
(***************************************************************************)
Pow2FromBits(bits) ==
    KOpL("mul", [i \in DOMAIN bits |-> bits[i] * 2^(2^(i - 1)) + 1 - bits[i]])
Pow2(dom, a, l, r) == Pow2FromBits(BitDec(dom, a, CeilLog(l), CeilLog(l), r[1])) % DomMod(dom)

B2UFromPow2(dom, pow2a, l, r) ==
    LET mask == Bits(r[1], l)
        c == IF dom = "ring" THEN LowBits(pow2a + BitCompose(mask), l)
             ELSE F(pow2a + 2^l * (r[2] % 2^Kappa) + BitCompose(mask))
        x == [i \in 1..l |-> BitXor(mask[i], Bits(c, l)[i])]
        y == PreOpL("or", x)
    IN  [i \in 1..l |-> 1 - y[i]]

TruncInRing(to_shift, l, pow2m, r) ==
    LET n_shift == RingSize - l
        bits == BitDecRing(to_shift, l, l, r[1])
        rev == InR(BitCompose(Reverse(bits)) * 2^n_shift * pow2m)
        masked == InR(rev - (r[2] % 2^l) * 2^n_shift) \div 2^n_shift
    IN  BitCompose(Reverse(BitAdder(Bits(r[2], l), Bits(masked, l))))

\* Truncation by a secret m; with modulo the remainder and 2^m instead.
\* c_dprime, the masked number modulo 2^m, and r_prime, the mask modulo 2^m,
\* from the unary code x of m.
CutMask(x, l, r) == FoldLeftDomain(LAMBDA v, i : v + 2^(i - 1) * Bits(r[1], l)[i] * x[i], 0, x)
CutMasked(dom, a, l, x, r) ==
    LET sum == a + (r[1] % 2^l)
        c == IF dom = "ring" THEN LowBits(sum, l) ELSE F(sum + 2^l * (r[2] % 2^Kappa))
    IN  FoldLeftDomain(LAMBDA v, i : IF i = l THEN v ELSE v + (c % 2^i) * (x[i] - x[i + 1]), 0, x)
CutBySecret(dom, a, l, modulo, r, pow2m, cut) ==
    LET d == LTZ(dom, cut % DomMod(dom), l, r)
    IN  IF modulo THEN <<(cut + pow2m * d) % DomMod(dom), pow2m>>
        ELSE <<F(F((a - cut) * InvIn(pow2m, Prime)) - d)>>
DifferenceOf(dom, a, l, x, r) == CutMasked(dom, a, l, x, r) - CutMask(x, l, r)
TruncByPower(dom, a, l, modulo, r, pow2m) ==
    IF ~modulo /\ dom = "ring" THEN <<TruncInRing(a, l, pow2m, r)>>
    ELSE CutBySecret(dom, a, l, modulo, r, pow2m,
                     DifferenceOf(dom, a, l, B2UFromPow2(dom, pow2m, l, r), r))
TruncBySecret(dom, a, l, m, modulo, r) == TruncByPower(dom, a, l, modulo, r, Pow2(dom, m, l, r))

(***************************************************************************)
(* Jobs.  A job carries the operation, its domain or variant, the bit      *)
(* length k, the amount m, whether a is signed, the input a and the        *)
(* random draws.                                                           *)
(***************************************************************************)
RingAlgs == {"mod2m", "trunc", "nearest", "trunc_pr", "ltz", "eqz", "bit_dec",
             "pow2", "b2u", "trunc_secret", "mod_secret",
             "trunc_split2", "trunc_split3", "ltz_split2", "ltz_split3"}
FieldAlgs == {"mod2m", "trunc", "nearest", "trunc_pr", "ltz", "eqz", "bit_dec",
              "pow2", "b2u", "trunc_secret", "mod_secret"}
ConstAlgs == {"mod2m", "eqz", "prefix"}
\* Circuits on the bits of a and of the first draw.
BitAlgs == {"add", "mul", "less", "prefix"}
KnownAlgs == {"mod2m", "nearest", "ltz", "eqz", "bit_dec"}
Algs(dom) == CASE dom = "ring" -> RingAlgs
               [] dom = "known" -> KnownAlgs
               [] dom = "log" -> FieldAlgs
               [] dom = "bits" -> BitAlgs
               [] OTHER -> ConstAlgs
Domains == {"ring", "log", "plain", "inv", "known", "bits"}

\* Operations by a secret amount take unsigned numbers, comparisons signed ones.
AlgUnsigned == {"pow2", "b2u", "trunc_secret", "mod_secret"} \cup BitAlgs
AlgSigned == {"ltz", "ltz_split2", "ltz_split3", "eqz"}
Signs(alg) == IF alg \in AlgUnsigned THEN {FALSE}
              ELSE IF alg \in AlgSigned THEN {TRUE} ELSE BOOLEAN
\* The amount plays no role in comparisons; pow2 and b2u read nothing else.
Amounts(alg, k) == IF alg \in AlgSigned \cup BitAlgs THEN {1} ELSE 1..(k - 1)
Operands(alg, k, signed) == IF alg \in {"pow2", "b2u"} THEN {0} ELSE Numbers(k, signed)

Lengths(dom, alg) == IF dom = "ring" THEN {RingSize - 1, RingSize}
                     ELSE IF alg \in BitAlgs THEN {1, RingSize - 1, RingSize, MaxK + 1} ELSE {3}
\* A known field repeats the first draw until it is accepted.
FirstDraws(dom, alg, k) ==
    CASE dom = "known" -> {v \in 0..(2^PrimeLength(KnownPrime) - 1) : Accepted(v)}
      [] dom = "ring" -> 0..(2^RingSize - 1)
      [] alg = "prefix" -> {1}
      [] dom = "bits" -> 0..(2^k - 1)
      [] OTHER -> 0..(2^(k + Kappa + Truth(alg = "nearest")) - 1)
OneDraw == {"mod2m", "ltz", "eqz", "bit_dec", "ltz_split2", "trunc_split2"} \cup BitAlgs
LaterDraws(dom, alg) == IF dom \in {"plain", "inv"} THEN Draws \X Draws
                        ELSE IF alg \in OneDraw \/ dom = "known" THEN {<<1, 1>>}
                        ELSE Draws \X {1}
Randoms(dom, alg, k) ==
    {<<x>> \o yz : x \in FirstDraws(dom, alg, k), yz \in LaterDraws(dom, alg)}

\* All adders on the same operands, and all prefix operations on the same bits.
Adders(a, b) ==
    LET none == [i \in DOMAIN a |-> FALSE]
    IN  {CarryLookaheadAdder(flavour, a, b, none, fewer, 1, TRUE) :
             flavour \in {"arith", "bin"}, fewer \in BOOLEAN}
        \cup {RippleCarryAdder(a, b, 1), CarrySelectAdder(a, b, 1, TRUE)}
PrefixOrs(dom, a, r) ==
    IF dom = "bits" THEN {PreOpL("or", a), PreOpL2("or", a), PreOpN("or", a)}
    ELSE {PreORC(dom, a, Len(a), r)}

Operand(j) == j.a % DomMod(j.dom)
Rounded(j, a) ==
    CASE j.alg = "mod2m" -> Mod2m(j.dom, a, j.k, j.m, j.signed, j.r)
      [] j.alg = "trunc" -> Trunc(j.dom, a, j.k, j.m, j.signed, j.r)
      [] j.alg = "nearest" -> TruncRoundNearest(j.dom, a, j.k, j.m, j.signed, j.r)
      [] j.alg = "trunc_pr" -> TruncPr(j.dom, a, j.k, j.m, j.signed, j.r)
Tested(j, a) ==
    CASE j.alg = "ltz" -> LTZ(j.dom, a, j.k, j.r)
      [] j.alg = "eqz" -> EQZ(j.dom, a, j.k, j.r)
      [] j.alg = "bit_dec" -> BitDec(j.dom, a, j.k, j.m, j.r[1])
      [] j.alg = "pow2" -> Pow2(j.dom, j.m, j.k, j.r)
      [] j.alg = "b2u" -> B2UFromPow2(j.dom, 2^j.m, j.k, j.r)
OfShares(j, a) ==
    CASE j.alg = "trunc_split2" -> TruncSplit(a, j.k, j.m, j.signed, 2, j.r)
      [] j.alg = "trunc_split3" -> TruncSplit(a, j.k, j.m, j.signed, 3, j.r)
      [] j.alg = "ltz_split2" -> LTZSplit(a, j.k, 2, j.r)
      [] j.alg = "ltz_split3" -> LTZSplit(a, j.k, 3, j.r)
OfBits(j, a, b) ==
    CASE j.alg = "add" -> Adders(a, b)
      [] j.alg = "mul" -> BitMul(a, b)
      [] j.alg = "less" -> <<BitLessThan(a, b), SignedLessThan(a, b), BITLT(a, b)>>
      [] j.alg = "prefix" -> PrefixOrs(j.dom, a, j.r)

NonLinearInit ==
    /\ subject = "nonlinear" /\ out = NotYet
    /\ \E dom \in Domains : \E alg \in Algs(dom), signed \in BOOLEAN : \E k \in Lengths(dom, alg) :
          \E m \in Amounts(alg, k), a \in Operands(alg, k, signed), r \in Randoms(dom, alg, k) :
            /\ signed \in Signs(alg)
            /\ job = [alg |-> alg, dom |-> dom, k |-> k, m |-> m, signed |-> signed,
                      a |-> a, r |-> r]

RoundOff == /\ Computing("nonlinear") /\ job.alg \in {"mod2m", "trunc", "nearest", "trunc_pr"}
            /\ Gives(Rounded(job, Operand(job)))
Test == /\ Computing("nonlinear") /\ job.alg \in {"ltz", "eqz", "bit_dec", "pow2", "b2u"}
        /\ Gives(Tested(job, Operand(job)))
RoundBySecret == /\ Computing("nonlinear") /\ job.alg \in {"mod_secret", "trunc_secret"}
                 /\ Gives(TruncBySecret(job.dom, Operand(job), job.k, job.m, job.alg = "mod_secret", job.r))
SplitShares == /\ Computing("nonlinear")
               /\ job.alg \in {"trunc_split2", "trunc_split3", "ltz_split2", "ltz_split3"}
               /\ Gives(OfShares(job, Operand(job)))
Circuit == /\ Computing("nonlinear") /\ job.alg \in {"add", "mul", "less", "prefix"}
           /\ Gives(OfBits(job, Bits(job.a, job.k), Bits(job.r[1], job.k)))

(***************************************************************************)
(* Properties.                                                             *)
(***************************************************************************)
Is(algs) == Ended("nonlinear") /\ job.alg \in algs
InDomain(x) == x % DomMod(job.dom)
Signed(x) == IF x >= 2^(job.k - 1) THEN x - 2^job.k ELSE x
Floor == job.a \div 2^job.m
\* With as many bits as the ring has there is none left for the rounding
\* carry, so a number within the rounding distance of the top wraps; a known
\* prime adds the bit only for signed numbers.
Room(x) == \/ job.dom = "ring" /\ job.k < RingSize
           \/ job.dom = "log"
           \/ job.dom = "known" /\ job.signed
           \/ job.a + x \in Numbers(job.k, job.signed)

\* Mod2m, in every domain and variant, returns a modulo 2^m for signed and
\* unsigned a whatever the masks are (comparison.py Mod2m, Mod2mRing, Mod2mField).
Modulo == Is({"mod2m"}) => out[1] = job.a % 2^job.m

\* Trunc returns the floor of a / 2^m as a domain element, also by local share
\* conversion among two or three parties, there with m above 1 for three
\* (comparison.py Trunc, TruncRing).
Truncation ==
    Is({"trunc", "trunc_split2", "trunc_split3"})
        => (job.alg = "trunc_split3" /\ job.m = 1) \/ out[1] = InDomain(Floor)

\* trunc_round_nearest rounds halves up, TruncPr returns one of the two
\* neighbouring integers and the exact quotient if there is one
\* (non_linear.py trunc_round_nearest, floatingpoint.py TruncPr).
Rounding ==
    /\ Is({"nearest"}) /\ Room(2^(job.m - 1))
         => out[1] = InDomain((job.a + 2^(job.m - 1)) \div 2^job.m)
    /\ Is({"trunc_pr"}) /\ Room(2^job.m - 1)
         => \/ out[1] = InDomain(Floor)
            \/ out[1] = InDomain(Floor + 1) /\ job.a % 2^job.m # 0

\* LTZ and EQZ return 1 exactly if a is negative, respectively zero.
Comparison == /\ Is({"ltz", "ltz_split2", "ltz_split3"}) => out[1] = Truth(job.a < 0)
              /\ Is({"eqz"}) => out[1] = Truth(job.a = 0)

\* BitDec returns the m low bits of a in two's complement; a known prime
\* decomposes the field element, so it takes numbers that are not negative.
Decomposition == Is({"bit_dec"}) /\ (job.dom = "known" => job.a >= 0) => out[1] = Bits(job.a % 2^job.m, job.m)

\* With a secret amount m: 2^m, its unary code, a modulo 2^m and a shifted by m.
BySecret ==
    /\ Is({"pow2"}) => out[1] = 2^job.m
    /\ Is({"b2u"}) => out[1] = [i \in 1..job.k |-> Truth(i <= job.m)]
    /\ Is({"mod_secret"}) => out[1] = <<job.a % 2^job.m, 2^job.m>>
    /\ Is({"trunc_secret"}) => out[1] = <<Floor>>

\* Every adder returns the sum with the carry in, the Wallace tree the
\* product modulo 2^k, the comparators the order of the numbers
\* (Compiler/types.py _bitint).
Circuits ==
    LET b == job.r[1] IN
    /\ Is({"add"}) => out[1] = {Bits(job.a + b + 1, job.k + 1)}
    /\ Is({"mul"}) => out[1] = Bits((job.a * b) % 2^job.k, job.k)
    /\ Is({"less"}) => out[1] = <<Truth(job.a < b), Truth(Signed(job.a) < Signed(b)),
                                 Truth(job.a < b)>>

\* Every prefix OR, in log rounds or by prefix products in blocks, sets
\* exactly the positions from the first 1 on (floatingpoint.py PreOpL, PreOpL2,
\* PreOpN, PreORC).
PrefixOr == Is({"prefix"}) =>
    out[1] = {[i \in 1..job.k |-> Truth(job.a % 2^i # 0)]}

=============================================================================
