----------------------------- MODULE Cyclotomic -----------------------------
(***************************************************************************)
(* The rings of homomorphic encryption (FHE/): integers modulo a prime and *)
(* a cyclotomic polynomial, their roots of unity and Fourier transforms,   *)
(* and ring elements in the two representations the code changes between.  *)
(* Vectors are functions from 0..n-1 as in the code, and a modp number is  *)
(* its value; Montgomery form is modelled in Arithmetic.  Primes are so    *)
(* small that a product fits an integer of TLC.                            *)
(***************************************************************************)
EXTENDS Integers, Sequences, FiniteSets, SequencesExt, FiniteSetsExt, Bitwise

CONSTANTS SmallPrimes  \* QGroup's small_primes; all 46 are used in the code

\* The same function, computed at once.
Table(f) == f @@ <<>>
Vec(n) == 0..(n - 1)
Zeros(n) == [i \in Vec(n) |-> 0]
Dimension(v) == Cardinality(DOMAIN v)

InOrder(S) == [k \in 1..Cardinality(S) |-> CHOOSE x \in S : Cardinality({y \in S : y <= x}) = k]

SquareAndMultiply(h, x, odd, p) == IF odd THEN (((h * h) % p) * x) % p ELSE (h * h) % p
RECURSIVE PowMod(_, _, _)
PowMod(x, e, p) == IF e = 0 THEN 1 ELSE SquareAndMultiply(PowMod(x, e \div 2, p), x, e % 2 = 1, p)
InvMod(x, p) == PowMod(x, p - 2, p)

RECURSIVE NumBits(_)
NumBits(x) == IF x < 2 THEN 1 ELSE 1 + NumBits(x \div 2)
HammingOne(x) == x = 2^(NumBits(x) - 1)

RECURSIVE GCD(_, _)
GCD(a, b) == IF b = 0 THEN a ELSE GCD(b, a % b)
IsPrime(n) == n > 1 /\ \A d \in 2..n : d * d > n \/ n % d # 0

(***************************************************************************)
(* Rings: the powers prime to m and the cyclotomic polynomial, which is    *)
(* the product of X^(m/d) - 1 to the power mobius(d).                      *)
(***************************************************************************)
PrimeFactors(n) == {q \in 2..n : n % q = 0 /\ IsPrime(q)}
PhiN(n) == Cardinality({i \in 1..n : GCD(i, n) = 1})
Mobius(n) ==
    IF \E q \in PrimeFactors(n) : n % (q * q) = 0 THEN 0
    ELSE IF Cardinality(PrimeFactors(n)) % 2 = 0 THEN 1 ELSE -1

\* Times and divided by X^k - 1, for integer polynomials.
TimesBinomial(a, k) ==
    Table([i \in 0..(Dimension(a) - 1 + k) |->
        (IF i >= k THEN a[i - k] ELSE 0) - (IF i \in DOMAIN a THEN a[i] ELSE 0)])
OverBinomial(a, k) ==
    LET top == Dimension(a) - 1 - k
        RECURSIVE q(_)
        q(i) == IF i > top THEN 0 ELSE a[i + k] + q(i + k)
    IN  Table([i \in 0..top |-> q(i)])

CyclotomicPoly(n) ==
    LET RECURSIVE Build(_, _)
        Build(f, todo) ==
            IF todo = <<>> THEN f
            ELSE Build(IF Mobius(Head(todo)) = 1 THEN TimesBinomial(f, n \div Head(todo))
                       ELSE OverBinomial(f, n \div Head(todo)), Tail(todo))
        divisors(mu) == InOrder({d \in 1..n : n % d = 0 /\ Mobius(d) = mu})
    IN  Build(0 :> 1, divisors(1) \o divisors(-1))

MakeRing(m) ==
    LET units == InOrder({i \in 1..m : GCD(i, m) = 1})
    IN  [m |-> m, phi |-> PhiN(m),
         pi |-> Table([k \in Vec(PhiN(m)) |-> units[k + 1]]),
         poly |-> CyclotomicPoly(m)]

(***************************************************************************)
(* Primitive roots: powers of 2, 3, ... until one is a zero of the         *)
(* cyclotomic polynomial; the same for all parties.                        *)
(***************************************************************************)
RECURSIVE Horner(_, _, _, _, _)
Horner(poly, x, p, v, i) == IF i < 0 THEN v ELSE Horner(poly, x, p, (v * x + poly[i]) % p, i - 1)
Subs(poly, x, p) == Horner(poly, x, p, 0, Dimension(poly) - 1)

FirstRoot(m, p, IsRoot(_)) ==
    LET RECURSIVE Try(_)
        Try(base) == LET r == PowMod(base, (p - 1) \div m, p)
                     IN  IF IsRoot(r) THEN r ELSE Try(base + 1)
    IN  Try(2)

FindPrimitiveRootM(m, poly, p) == FirstRoot(m, p, LAMBDA r : Subs(poly, r, p) = 0)

FindPrimitiveRoot2M(m, poly, p) ==
    LET poly2 == [i \in Vec(2 * Dimension(poly)) |-> IF i % 2 = 0 THEN poly[i \div 2] ELSE 0]
    IN  FindPrimitiveRootM(2 * m, poly2, p)

FindPrimitiveRoot2Power(m, p) == FirstRoot(m, p, LAMBDA r : (PowMod(r, m \div 2, p) + 1) % p = 0)

(***************************************************************************)
(* Fourier transforms.                                                     *)
(***************************************************************************)
NaiveFFT(a, n, theta, p) == Table([i \in Vec(n) |-> Subs(a, PowMod(theta, i, p), p)])

\* One pass over pairs at distance s, with the factor w(j) for column j.
Butterflies(a, n, s, p, w) ==
    Table([k \in Vec(n) |->
        LET j == k % (2 * s)
        IN  IF j < s THEN (a[k] + w[j] * a[k + s]) % p
            ELSE (a[k - s] - w[j - s] * a[k]) % p])
Powers(alpha, s, p) == Table([j \in Vec(s) |-> PowMod(alpha, j, p)])
OddPowers(alpha, s, p) == Table([j \in Vec(s) |-> PowMod(alpha, 2 * j + 1, p)])

Twiddles(alpha, s, p, odd) == IF odd THEN OddPowers(alpha, s, p) ELSE Powers(alpha, s, p)

\* The bit-reversal permutation, by counting with the carry to the right.
RECURSIVE Carry(_, _), Rev(_, _)
Carry(j, h) == IF h >= 1 /\ j >= h THEN Carry(j - h, h \div 2) ELSE j + h
Rev(i, n) == IF i = 0 THEN 0 ELSE Carry(Rev(i - 1, n), n \div 2)
BitReversed(a, n) == Table([i \in Vec(n) |-> a[Rev(i, n)]])

\* Passes at the distances s, 2s and so on.
RECURSIVE PassesFrom(_, _, _, _, _, _)
PassesFrom(s, x, n, root, p, odd) ==
    IF s >= n THEN x
    ELSE PassesFrom(2 * s, Butterflies(x, n, s, p, Twiddles(PowMod(root, n \div (2 * s), p), s, p, odd)),
                    n, root, p, odd)

\* Modulo X^n - 1: the values at the powers of root, an n-th root of unity.
FFTIter(a, n, root, p) == PassesFrom(1, BitReversed(a, n), n, root, p, FALSE)

\* Modulo X^n + 1: the values at the odd powers of root, a 2n-th root.
FFTIter2(a, n, root, p) == PassesFrom(1, BitReversed(a, n), n, root, p, TRUE)

\* The recursive forms that the iterative ones replaced.
Halves(a, n) == [b \in 0..1 |-> Table([i \in Vec(n \div 2) |-> a[2 * i + b]])]
RECURSIVE FFTRec(_, _, _, _), FFT2(_, _, _, _)
FFTRec(a, n, theta, p) ==
    IF n = 1 THEN a
    ELSE IF n < 5 THEN NaiveFFT(a, n, theta, p)
    ELSE LET h == Table([b \in 0..1 |-> FFTRec(Halves(a, n)[b], n \div 2, (theta * theta) % p, p)])
         IN  Butterflies(Table([k \in Vec(n) |-> h[k \div (n \div 2)][k % (n \div 2)]]),
                         n, n \div 2, p, Powers(theta, n \div 2, p))
FFT2(a, n, alpha, p) ==
    IF n = 1 THEN a
    ELSE LET h == Table([b \in 0..1 |-> FFT2(Halves(a, n)[b], n \div 2, (alpha * alpha) % p, p)])
         IN  Butterflies(Table([k \in Vec(n) |-> h[k \div (n \div 2)][k % (n \div 2)]]),
                         n, n \div 2, p, OddPowers(alpha, n \div 2, p))

(***************************************************************************)
(* FFT_Data: what a prime p needs for the ring R.  A twop of 0 stands for  *)
(* m a power of two; a negative one for a prime without the roots of two   *)
(* power order, for which transforms crash.                                *)
(***************************************************************************)
WithInverse(x, p) == (0 :> x) @@ (1 :> InvMod(x, p))
TwoPowerData(R, p, root) == [R |-> R, p |-> p, twop |-> 0, root |-> root, iphi |-> InvMod(R.phi, p)]

\* Bluestein's chirps: powers of the root to the squares of the indices.
Chirp(root, i, m, p) == PowMod(root, (i * i) % (2 * m), p)
Scaled(powers, factor, p) == Table([i \in DOMAIN powers |-> (powers[i] * factor) % p])
ChirpTransformed(root, R, p, size, two0) ==
    FFTIter(Table([k \in Vec(size) |->
                IF k - (R.m - 1) \in -(R.m - 1)..(R.m - 1) THEN Chirp(root, k - (R.m - 1), R.m, p) ELSE 0]),
            size, two0, p)
BluesteinWith(R, p, size, twop, root, two, powers) ==
    [R |-> R, p |-> p, twop |-> twop, root |-> root, two_root |-> two, powers |-> powers,
     powers_i |-> Table([r \in 0..1 |->
        Scaled(powers[r], InvMod((IF r = 0 THEN size ELSE size * R.m) % p, p), p)]),
     b |-> Table([r \in 0..1 |-> ChirpTransformed(root[1 - r], R, p, size, two[0])])]
BluesteinData(R, p, size, twop, root) ==
    BluesteinWith(R, p, size, twop, root,
        WithInverse(IF twop > 0 THEN FindPrimitiveRoot2Power(size, p) ELSE 1, p),
        Table([r \in 0..1 |-> Table([i \in Vec(R.m) |-> Chirp(root[r], i, R.m, p)])]))

OtherData(R, p, size, twop) ==
    IF (p - 1) % (2 * R.m) # 0 THEN [R |-> R, p |-> p, twop |-> twop, root |-> <<>>]
    ELSE BluesteinData(R, p, size, twop, WithInverse(FindPrimitiveRoot2M(R.m, R.poly, p), p))
FFTDataFor(R, p, size) ==
    IF HammingOne(R.m) THEN TwoPowerData(R, p, WithInverse(FindPrimitiveRoot2Power(R.m, p), p))
    ELSE OtherData(R, p, size, IF (p - 1) % size # 0 THEN -size ELSE size)
FFTData(R, p) == FFTDataFor(R, p, 2^(NumBits(R.m) + 1))

\* Bluestein's transform over m points, forward (r = 0) or back (r = 1).
PointWise(x, y, p) == Table([i \in DOMAIN x |-> (x[i] * y[i]) % p])
Padded(a, D, r) ==
    Table([i \in Vec(D.twop) |-> IF i \in DOMAIN a THEN (D.powers[r][i] * a[i]) % D.p ELSE 0])
Unchirped(z, D, r) == Table([i \in Vec(D.R.m) |-> (z[i + D.R.m - 1] * D.powers_i[r][i]) % D.p])
BFFT(a, D, r) ==
    Unchirped(FFTIter(PointWise(FFTIter(Padded(a, D, r), D.twop, D.two_root[0], D.p), D.b[r], D.p),
                      D.twop, D.two_root[1], D.p),
              D, r)

(***************************************************************************)
(* Ring elements: rep is "polynomial" or "evaluation".                     *)
(***************************************************************************)
Element(rep, v) == [rep |-> rep, v |-> Table(v)]

\* Term rewriting modulo the cyclotomic polynomial (reduce, reduce_step).
WithoutTop(x, i, D) ==
    Table([k \in DOMAIN x |->
        IF k - (i - D.R.phi) \in Vec(D.R.phi) THEN (x[k] - D.R.poly[k - (i - D.R.phi)] * x[i]) % D.p ELSE x[k]])
RECURSIVE ReduceFrom(_, _, _)
ReduceFrom(x, i, D) == IF i < D.R.phi THEN x ELSE ReduceFrom(WithoutTop(x, i, D), i - 1, D)
Reduce(aa, top, D) == ReduceFrom(aa, top - 1, D)

AtUnits(x, D) == [i \in Vec(D.R.phi) |-> x[D.R.pi[i]]]
Spread(v, D) ==
    Table([k \in Vec(D.R.m) |-> IF \E i \in Vec(D.R.phi) : D.R.pi[i] = k
                                THEN v[CHOOSE i \in Vec(D.R.phi) : D.R.pi[i] = k] ELSE 0])
Unscaled(x, D) ==
    [i \in Vec(D.R.phi) |-> (((x[i] * D.iphi) % D.p) * PowMod(D.root[1], i, D.p)) % D.p]
Low(v, phi) == [i \in Vec(phi) |-> v[i]]
ToEvaluation(v, D) ==
    IF D.twop = 0 THEN FFTIter2(v, D.R.phi, D.root[0], D.p) ELSE AtUnits(BFFT(v, D, 0), D)
ToPolynomial(v, D) ==
    IF D.twop = 0 THEN Unscaled(FFTIter(v, D.R.phi, (D.root[1] * D.root[1]) % D.p, D.p), D)
    ELSE Low(Reduce(BFFT(Spread(v, D), D, 1), D.R.m, D), D.R.phi)
ChangeRep(e, rep, D) ==
    IF e.rep = rep THEN e
    ELSE Element(rep, IF rep = "evaluation" THEN ToEvaluation(e.v, D) ELSE ToPolynomial(e.v, D))

AddRing(a, b, p) == Element(a.rep, [i \in DOMAIN a.v |-> (a.v[i] + b.v[i]) % p])
SubRing(a, b, p) == Element(a.rep, [i \in DOMAIN a.v |-> (a.v[i] - b.v[i]) % p])
NegateRing(a, p) == Element(a.rep, [i \in DOMAIN a.v |-> (-a.v[i]) % p])
ScaleRing(a, c, p) == Element(a.rep, [i \in DOMAIN a.v |-> (a.v[i] * (c % p)) % p])
AssignOne(D, rep) == Element(rep, [i \in Vec(D.R.phi) |-> IF i = 0 \/ rep = "evaluation" THEN 1 ELSE 0])

\* Both of one representation (or rep_mismatch); school-book for polynomials.
SchoolBook(v, w, phi, p) ==
    LET upto[k \in Vec(2 * phi), i \in 0..phi] ==
            IF i = 0 THEN 0
            ELSE upto[k, i - 1] + IF k - i + 1 \in Vec(phi) THEN (v[i - 1] * w[k - i + 1]) % p ELSE 0
    IN  Table([k \in Vec(2 * phi) |-> upto[k, phi] % p])
Folded(aa, D) ==
    IF D.twop # 0 THEN Low(Reduce(aa, 2 * D.R.phi, D), D.R.phi)
    ELSE [k \in Vec(D.R.phi) |-> (aa[k] - aa[k + D.R.phi]) % D.p]
MulRing(a, b, D) ==
    Element(a.rep, IF a.rep = "evaluation" THEN [i \in Vec(D.R.phi) |-> (a.v[i] * b.v[i]) % D.p]
                   ELSE Folded(SchoolBook(a.v, b.v, D.R.phi, D.p), D))

\* Times X^j, by rotation with a change of sign or by the powers of the root.
MulByX(a, j, D) ==
    LET phi == D.R.phi
        xj == PowMod(D.root[0], j, D.p)
    IN  Element(a.rep,
          IF a.rep = "evaluation"
          THEN [i \in Vec(phi) |-> (a.v[i] * PowMod(xj, 2 * i + 1, D.p)) % D.p]
          ELSE [k \in Vec(phi) |->
                 LET i == (k - j) % phi
                 IN  IF ((i + j) \div phi) % 2 = 0 THEN a.v[i] ELSE (-a.v[i]) % D.p])

\* From integers in polynomial representation to the current one, and back.
FromVec(v, rep, D) ==
    ChangeRep(Element("polynomial", [i \in Vec(D.R.phi) |-> v[i] % D.p]), rep, D)
ToVec(e, D) == ChangeRep(e, "polynomial", D).v

(***************************************************************************)
(* Moduli: the greatest primes of a bit length that are 1 modulo the       *)
(* plaintext modulus, the ring's order and a two power for transforms.     *)
(***************************************************************************)
\* 0 for a search that fails its assertion.
RECURSIVE SearchDown(_, _, _, _)
SearchDown(pr, step, bits, other) ==
    IF pr # other /\ IsPrime(pr) THEN (IF NumBits(pr) = bits THEN pr ELSE 0)
    ELSE IF pr > step /\ NumBits(pr - step) = bits THEN SearchDown(pr - step, step, bits, other) ELSE 0
ModulusByStep(step, bits, other) == SearchDown(((2^bits) \div step) * step + 1, step, bits, other)
GenerateModulus(m, p, bits, other) ==
    ModulusByStep(m * (2^(NumBits(m) + 1) \div GCD(m, 2^(NumBits(m) + 1))) * p, bits, other)

(***************************************************************************)
(* Slots: how plaintexts over GF(2^d) are packed into one ring element     *)
(* (FHE/P2Data.cpp, init(P2Data) in NTL-Subs.cpp).  The cyclotomic         *)
(* polynomial F splits modulo 2 into one factor for each slot, the slots   *)
(* are numbered by the quotient of the units modulo m by the powers of 2   *)
(* (FHE/QGroup.cpp), and two matrices map slots to polynomials and back    *)
(* (FHE/Matrix.cpp).  A polynomial over GF(2), a row of an imatrix and a   *)
(* BitVector are the number of their bits.  An integer matrix is the       *)
(* sequence of its columns.                                                *)
(***************************************************************************)
Seq0(n, Op(_)) == FoldLeft(LAMBDA s, i : Append(s, Op(i)), <<>>, [i \in 1..n |-> i - 1])
CoeffBit(a, i) == (a \div 2^i) % 2
Degree(a) == NumBits(a) - 1
XorOver(S, Op(_)) == FoldSet(LAMBDA i, t : t ^^ Op(i), 0, S)

(***************************************************************************)
(* Polynomials over GF(2), done by NTL in the code.                        *)
(***************************************************************************)
RECURSIVE ModGF2(_, _), MulModGF2(_, _, _)
ModGF2(a, c) == IF a = 0 \/ Degree(a) < Degree(c) THEN a
                ELSE ModGF2(a ^^ (c * 2^(Degree(a) - Degree(c))), c)
\* a reduced modulo c already.
MulModGF2(a, b, c) ==
    IF b = 0 THEN 0
    ELSE (IF b % 2 = 1 THEN a ELSE 0) ^^ MulModGF2(ModGF2(2 * a, c), b \div 2, c)
Divides(c, a) == ModGF2(a, c) = 0
QuotientGF2(a, c) ==
    LET RECURSIVE Q(_, _)
        Q(r, q) == IF r = 0 \/ Degree(r) < Degree(c) THEN q
                   ELSE LET s == 2^(Degree(r) - Degree(c)) IN Q(r ^^ (c * s), q + s)
    IN  Q(a, 0)
Irreducible(f) == \A g \in 2..(2^(Degree(f) \div 2 + 1) - 1) : ~Divides(g, f)
InvModGF2(a, c) == CHOOSE b \in 1..(2^Degree(c) - 1) : MulModGF2(ModGF2(a, c), b, c) = 1

\* a(b) modulo c, and a(X^k) modulo c where X^m = 1.
SubsMod(a, b, c) ==
    LET RECURSIVE Sum(_, _, _)
        Sum(i, pb, ans) ==
            IF i > NumBits(a) THEN ans
            ELSE Sum(i + 1, MulModGF2(pb, ModGF2(b, c), c), IF CoeffBit(a, i) = 1 THEN ans ^^ pb ELSE ans)
    IN  Sum(0, 1, 0)
SubsPowXMod(a, k, m, c) ==
    ModGF2(FoldSet(LAMBDA i, t : t + 2^((i * k) % m), 0, {i \in 0..Degree(a) : CoeffBit(a, i) = 1}), c)

(***************************************************************************)
(* Integer matrices: Hermite and Smith normal forms by column operations.  *)
(* A column of the pair H, U is h \o u; Stuck stands for a loop without    *)
(* end.                                                                    *)
(***************************************************************************)
Stuck == <<>>
Magnitude(x) == IF x < 0 THEN -x ELSE x
\* Division as in C, towards zero.
Quot(a, b) == LET q == Magnitude(a) \div Magnitude(b) IN IF (a < 0) = (b < 0) THEN q ELSE -q
Rem(a, b) == a - b * Quot(a, b)
LessTimes(a, t, b) == Seq0(Len(a), LAMBDA k : a[k + 1] - t * b[k + 1])
Identity(n) == Seq0(n, LAMBDA j : Seq0(n, LAMBDA i : IF i = j THEN 1 ELSE 0))
Transpose(A) == Seq0(Len(A[1]), LAMBDA i : Seq0(Len(A), LAMBDA j : A[j + 1][i + 1]))
MulMatrix(A, B) ==
    Seq0(Len(B), LAMBDA j : Seq0(Len(A[1]), LAMBDA i :
        FoldLeft(LAMBDA t, k : t + A[k][i + 1] * B[j + 1][k], 0, [k \in DOMAIN A |-> k])))

\* HNF of the matrix of columns A, as <<H, U>>.  Steps 2 to 4: the least entry
\* of row i becomes the pivot.
Pivot(W, i, open) ==
    IF open = {} THEN 0
    ELSE CHOOSE k \in open : \A j \in open :
            \/ Magnitude(W[k][i]) < Magnitude(W[j][i])
            \/ Magnitude(W[k][i]) = Magnitude(W[j][i]) /\ k <= j
Swapped(W, i, k) == [W EXCEPT ![i] = W[k], ![k] = W[i]]
Nearest(a, b) == Quot(a, b) + (IF Magnitude(Rem(a, b)) > Magnitude(b) \div 2 THEN 1 ELSE 0)
Reduced(W, i) == [j \in DOMAIN W |-> IF j > i THEN LessTimes(W[j], Nearest(W[j][i], W[i][i]), W[i]) ELSE W[j]]
Positive(W, i) == IF W[i][i] < 0 THEN [W EXCEPT ![i] = [k \in DOMAIN @ |-> -@[k]]] ELSE W
\* Step 5: the columns before i.
BeforeRow(W, i) == [j \in DOMAIN W |-> IF j < i THEN LessTimes(W[j], Quot(W[j][i], W[i][i]), W[i]) ELSE W[j]]
Settled(W, i) == BeforeRow(Positive(W, i), i)
RECURSIVE FromRow(_, _, _)
Turned(W, V, i, r) ==
    IF \E j \in (i + 1)..Len(V) : V[j][i] # 0 THEN IF V = W THEN Stuck ELSE FromRow(V, i, r)
    ELSE IF i = r THEN Settled(V, i) ELSE FromRow(Settled(V, i), i + 1, r)
Pivoted(W, i, k, r) == IF k = 0 THEN Stuck ELSE Turned(W, Reduced(Swapped(W, i, k), i), i, r)
FromRow(W, i, r) == Pivoted(W, i, Pivot(W, i, {j \in i..Len(W) : W[j][i] # 0}), r)
SplitAt(W, rows) ==
    IF W = Stuck THEN Stuck
    ELSE <<[j \in DOMAIN W |-> SubSeq(W[j], 1, rows)], [j \in DOMAIN W |-> SubSeq(W[j], rows + 1, Len(W[j]))]>>
WithIdentity(A, I) == [j \in DOMAIN A |-> A[j] \o I[j]]
HNF(A) == SplitAt(FromRow(WithIdentity(A, Identity(Len(A))), 1, Min({Len(A[1]), Len(A)})), Len(A[1]))

IsDiag(A) == \A j \in DOMAIN A, i \in DOMAIN A[1] : i = j \/ A[j][i] = 0

\* Diagonal S and V with S = U * A * V for some U.
RECURSIVE SNFStep(_, _)
ByRows(g, v) == IF g = Stuck THEN Stuck ELSE SNFStep(Transpose(g[1]), v)
ByColumns(h, v) == IF h = Stuck THEN Stuck ELSE ByRows(HNF(Transpose(h[1])), MulMatrix(v, h[2]))
SNFStep(S, V) == IF IsDiag(S) THEN <<S, V>> ELSE ByColumns(HNF(S), V)
RECURSIVE DivisibleFrom(_, _)
MadeDivisible(S, V, i) ==
    IF i >= Min({Len(S), Len(S[1])}) THEN <<S, V>>
    ELSE IF Rem(S[i + 1][i + 1], S[i][i]) # 0
         THEN DivisibleFrom(SNFStep([S EXCEPT ![i + 1][i] = S[i + 1][i + 1]], V), i + 1)
         ELSE DivisibleFrom(<<S, V>>, i + 1)
DivisibleFrom(s, i) == IF s = Stuck THEN Stuck ELSE MadeDivisible(s[1], s[2], i)
SNF(A) == DivisibleFrom(SNFStep(A, Identity(Len(A))), 1)

\* The inverse of a unimodular matrix.
Second(h) == IF h = Stuck THEN Stuck ELSE h[2]
InvMatrix(A) == Second(HNF(A))

(***************************************************************************)
(* QGroup: generators of the units modulo m over <2>, from the relations   *)
(* between small primes.  rand[i, j] stands for the numbers of rand().     *)
(***************************************************************************)
PowerMod(x, e, m) ==
    LET inv == CHOOSE y \in 0..(m - 1) : (x * y) % m = 1 % m
        RECURSIVE P(_, _)
        P(b, k) == IF k = 0 THEN 1 % m ELSE (b * P(b, k - 1)) % m
    IN  IF e >= 0 THEN P(x, e) ELSE P(inv, -e)

OrderMod(x, m) == CHOOSE o \in 1..m : PowerMod(x, o, m) = 1 /\ \A k \in 1..(o - 1) : PowerMod(x, k, m) # 1

Valuation(t, q) == Max({v \in 0..NumBits(t) : t % q^v = 0})
Valuations(t, pr) == [j \in DOMAIN pr |-> Valuation(t, pr[j])]
\* The product of powers of the primes, modulo m unless m is 0.
ProductOf(pr, e, m) ==
    FoldLeftDomain(LAMBDA t, j : IF m = 0 THEN t * pr[j]^e[j] ELSE (t * PowerMod(pr[j], e[j], m)) % m, 1, pr)

\* The columns of the matrix of relations: orders of the primes, with 2 = 1,
\* and products of random powers that split over the primes.
Orders(pr, m) ==
    [i \in DOMAIN pr |-> [j \in DOMAIN pr |-> IF i # j THEN 0 ELSE IF i = 1 THEN 1 ELSE OrderMod(pr[i], m)]]
Related(e, t, v, pr, found) ==
    IF t = ProductOf(pr, v, 0) THEN Append(found, [j \in DOMAIN pr |-> e[j] - v[j]]) ELSE found
RECURSIVE RandomRelations(_, _, _, _, _)
Drawn(pr, m, rand, k, found, e, t) ==
    RandomRelations(pr, m, rand, k + 1, Related(e, t, Valuations(t, pr), pr, found))
DrawnFrom(pr, m, rand, k, found, e) == Drawn(pr, m, rand, k, found, e, ProductOf(pr, e, m))
RandomRelations(pr, m, rand, k, found) ==
    IF Len(found) = Len(pr) THEN found
    ELSE DrawnFrom(pr, m, rand, k, found, [j \in DOMAIN pr |-> rand[k, j - 1] % m])
Relations(pr, m, rand) == Transpose(Orders(pr, m) \o RandomRelations(pr, m, rand, 1, <<>>))

\* The generators of the diagonal form s, with the inverse vi of its second
\* transformation.
Generators(m, pr, s, vi, used) ==
    IF vi = Stuck THEN Stuck
    ELSE <<[m |-> m, g |-> [k \in DOMAIN used |-> ProductOf(pr, [j \in DOMAIN pr |-> vi[j][used[k]]], m)],
            d |-> [k \in DOMAIN used |-> s[used[k]][used[k]]]]>>
FromDiagonal(m, pr, s) ==
    IF s = Stuck THEN Stuck
    ELSE Generators(m, pr, s[1], InvMatrix(s[2]), SelectSeq([i \in DOMAIN pr |-> i], LAMBDA i : s[1][i][i] # 1))
AssignBy(m, pr, rand) == FromDiagonal(m, pr, SNF(Relations(pr, m, rand)))
Assign(m, numsmallprimes, rand) ==
    AssignBy(m, SelectSeq(SubSeq(SmallPrimes, 1, numsmallprimes), LAMBDA p : GCD(p, m) = 1 /\ p < m), rand)
Order(Q) == FoldLeft(LAMBDA t, k : t * Q.d[k], 1, [k \in DOMAIN Q.d |-> k])

\* The last generator is counted through first.
NthElement(Q, n) ==
    LET RECURSIVE Digits(_, _, _)
        Digits(i, nn, elem) ==
            IF i = 0 THEN elem
            ELSE LET ei == nn % Q.d[i]
                 IN  Digits(i - 1, (nn - ei) \div Q.d[i], (elem * PowerMod(Q.g[i], ei, Q.m)) % Q.m)
    IN  Digits(Len(Q.g), n, 1)

(***************************************************************************)
(* init(P2Data): the factors Fi of F and the images of a root of G, in the *)
(* order of the quotient group, and the two matrices.                      *)
(***************************************************************************)
BinaryPoly(R) == FoldSet(LAMBDA i, t : t + 2^i, 0, {i \in 0..R.phi : R.poly[i] % 2 # 0})

\* A[c] is the column of bit c, the polynomial that this bit stands for.
ForwardColumns(R, G, F, Q, first, root) ==
    LET d == Degree(G)
        slots == R.phi \div d
        image(i) == SubsPowXMod(root, NthElement(Q, i), R.m, F)
        factors == {f \in (2^d)..(2^(d + 1) - 1) : Divides(f, F) /\ Irreducible(f)}
        Fi(i) == IF i = 0 THEN first
                 ELSE CHOOSE f \in factors \ {first} :
                        SubsPowXMod(first, NthElement(Q, i), R.m, f) = 0
        u(f) == MulModGF2(ModGF2(QuotientGF2(F, f), F), InvModGF2(QuotientGF2(F, f), f), F)
        column(f, rt, co) == MulModGF2(u(f), SubsMod(2^co, rt, f), F)
        slotcols(i) == LET f == Fi(i)
                           rt == ModGF2(image(i), f)
                       IN  Seq0(d, LAMBDA co : column(f, rt, co))
    IN  FlattenSeq(Seq0(slots, slotcols))

\* Mutant: rows above the pivot are not cleared.
PinvBelow(columns, n) ==
    LET rows == Seq0(n, LAMBDA k : FoldSet(LAMBDA i, t : t + CoeffBit(columns[i], k) * 2^(i - 1), 0, 1..n))
        RECURSIVE Clear(_, _, _)
        Clear(A, Ai, c) ==
            IF c = n THEN Ai
            ELSE LET k == Min({x \in (c + 1)..n : CoeffBit(A[x], c) = 1})
                     swap(M) == [M EXCEPT ![c + 1] = M[k], ![k] = M[c + 1]]
                     clear(M, piv) == Seq0(n, LAMBDA x :
                        IF x + 1 > c + 1 /\ CoeffBit(swap(A)[x + 1], c) = 1 THEN M[x + 1] ^^ piv ELSE M[x + 1])
                 IN  Clear(clear(swap(A), swap(A)[c + 1]), clear(swap(Ai), swap(Ai)[c + 1]), c + 1)
    IN  Clear(rows, Seq0(n, LAMBDA k : 2^k), 0)

\* The rows of the inverse, by row operations on the matrix and on the identity.
Pinv(columns, n) ==
    LET rows == Seq0(n, LAMBDA k : FoldSet(LAMBDA i, t : t + CoeffBit(columns[i], k) * 2^(i - 1), 0, 1..n))
        RECURSIVE Clear(_, _, _)
        Clear(A, Ai, c) ==
            IF c = n THEN Ai
            ELSE LET k == Min({x \in (c + 1)..n : CoeffBit(A[x], c) = 1})
                     swap(M) == [M EXCEPT ![c + 1] = M[k], ![k] = M[c + 1]]
                     clear(M, piv) == Seq0(n, LAMBDA x :
                        IF x # c /\ CoeffBit(swap(A)[x + 1], c) = 1 THEN M[x + 1] ^^ piv ELSE M[x + 1])
                 IN  Clear(clear(swap(A), swap(A)[c + 1]), clear(swap(Ai), swap(Ai)[c + 1]), c + 1)
    IN  Clear(rows, Seq0(n, LAMBDA k : 2^k), 0)

\* The plaintext polynomial of the slots a[1], a[2], ..., and back.
Forward(columns, d, a) ==
    XorOver({c \in DOMAIN columns : CoeffBit(a[(c - 1) \div d + 1], (c - 1) % d) = 1}, LAMBDA c : columns[c])
Parity(x) == XorOver(0..NumBits(x), LAMBDA i : CoeffBit(x, i))
Backward(Ai, d, v) ==
    Seq0(Len(Ai) \div d, LAMBDA i :
        FoldSet(LAMBDA j, t : t + Parity(Ai[i * d + j + 1] & v) * 2^j, 0, Vec(d)))
=============================================================================
