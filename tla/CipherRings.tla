---------------------------- MODULE CipherRings ----------------------------
(***************************************************************************)
(* Calls of the ring and encoding code of homomorphic encryption: a job is *)
(* one use of the definitions of Cyclotomic with small rings and primes,   *)
(* out what it returns.                                                    *)
(***************************************************************************)
EXTENDS Cyclotomic, Computation

(***************************************************************************)
(* Rings: two powers and other orders, with the least primes that the code *)
(* accepts.  Sample vectors have entries at both ends of the field.        *)
(***************************************************************************)
Rings == {<<4, 17>>, <<8, 17>>, <<8, 97>>, <<3, 73>>, <<5, 241>>, <<6, 97>>, <<9, 577>>, <<15, 3361>>}
Data == Table([c \in Rings |-> FFTData(MakeRing(c[1]), c[2])])
SamplesIn(D) ==
    {Table([i \in Vec(D.R.phi) |-> IF i = k THEN 1 ELSE 0]) : k \in Vec(D.R.phi)} \cup
    {Table([i \in Vec(D.R.phi) |-> (s * (i * i + 3 * i + 1) + i) % D.p]) : s \in {2, 31}} \cup
    {Table([i \in Vec(D.R.phi) |-> D.p - 1])}
Samples(c) == SamplesIn(Data[c])
Primes2 == {2, 3, 5, 11}
FirstPrimes == <<2, 3, 5, 7, 11, 13>>

\* The relations drawn with a seed of rand(), here an arithmetic sequence.
Rand(seed) == [i \in 1..60, j \in 0..8 |->
    ((seed * 7919 + i * 104729 + j * 1299709 + seed * i * 31 + (i * i + seed) * (j * j + 3) * 57) \div 8)]
Groups == {[m |-> 7, d |-> 3, n |-> 3], [m |-> 9, d |-> 6, n |-> 3], [m |-> 15, d |-> 4, n |-> 4],
           [m |-> 17, d |-> 8, n |-> 4], [m |-> 21, d |-> 6, n |-> 4], [m |-> 31, d |-> 5, n |-> 3],
           [m |-> 63, d |-> 6, n |-> 4], [m |-> 105, d |-> 12, n |-> 6]}
Packed == {[m |-> 7, d |-> 3, n |-> 3], [m |-> 15, d |-> 4, n |-> 4], [m |-> 21, d |-> 6, n |-> 4]}

QuotientGroup(g, seed) == Assign(g.m, g.n, Rand(seed))
\* Seeds are tried until the order is right.
RECURSIVE RightGroup(_, _)
RightGroup(g, seed) ==
    LET Accepted(Q) == IF Q # Stuck /\ Order(Q[1]) = PhiN(g.m) \div g.d THEN Q ELSE RightGroup(g, seed + 1)
    IN  IF seed > 6 THEN Stuck ELSE Accepted(QuotientGroup(g, seed))

FactorsOf(g) == LET F == BinaryPoly(MakeRing(g.m))
                IN  {f \in (2^g.d)..(2^(g.d + 1) - 1) : Divides(f, F) /\ Irreducible(f)}
\* What is computed once for a ring, a field polynomial G, and the factor
\* and the root that NTL finds first.
Roots(G, f) == {r \in 1..(2^Degree(f) - 1) : SubsMod(G, r, f) = 0}
Encodings == UNION {UNION {UNION {{
        [m |-> g.m, d |-> g.d, G |-> G, first |-> f, root |-> r]
            : r \in {Min(Roots(G, f)), Max(Roots(G, f))}}
            : f \in FactorsOf(g)}
            : G \in {Min(FactorsOf(g)), Max(FactorsOf(g))}} : g \in Packed}
Matrices(F, A, n) == [F |-> F, A |-> A, Ai |-> Pinv(A, n)]
SetupFor(e, g, R, F) ==
    Matrices(F, ForwardColumns(R, e.G, F, RightGroup(g, 1)[1], e.first, e.root), R.phi)
SetupIn(e, R) == SetupFor(e, CHOOSE h \in Packed : h.m = e.m, R, BinaryPoly(R))
Setup == Table([e \in Encodings |-> SetupIn(e, MakeRing(e.m))])
SlotSamples(e) == LET n == PhiN(e.m) \div e.d
                  IN  {Seq0(n, LAMBDA i : (s * (2 * i + 3) + i) % 2^e.d) : s \in {0, 1, 2, 5}} \cup
                      {Seq0(n, LAMBDA i : IF i = 0 THEN 1 ELSE 0)}

(***************************************************************************)
(* Jobs.                                                                   *)
(***************************************************************************)
RingCalls ==
    UNION {{[op |-> "rep", c |-> c, a |-> a] : a \in Samples(c)} : c \in Rings} \cup
    UNION {{[op |-> "mul", c |-> c, a |-> a, b |-> b] : a, b \in Samples(c)} : c \in Rings} \cup
    UNION {{[op |-> "shift", c |-> c, a |-> a, j |-> j] : a \in Samples(c), j \in 0..9}
            : c \in {x \in Rings : Data[x].twop = 0}} \cup
    [op : {"moduli"}, m : {4, 8, 3, 5, 6}, p : Primes2, bits : 8..13] \cup
    [op : {"group"}, g : Groups, seed : 1..4] \cup
    UNION {{[op |-> "slots", e |-> e, a |-> a, b |-> b] : a, b \in SlotSamples(e)} : e \in Encodings}

RootSquared(D) == (D.root[0] * D.root[0]) % D.p
\* The m-th root: root[0] has order m or, with Bluestein's transform, 2m.
Zeta(D) == IF D.twop = 0 THEN D.root[0] ELSE RootSquared(D)
Recursively(a, n, D, res) ==
    IF D.twop # 0 THEN [odd |-> res.values, naive |-> <<>>, rec |-> <<>>, iter |-> <<>>] @@ res
    ELSE [odd |-> FFT2(a, n, D.root[0], D.p), naive |-> NaiveFFT(a, n, RootSquared(D), D.p),
          rec |-> FFTRec(a, n, RootSquared(D), D.p), iter |-> FFTIter(a, n, RootSquared(D), D.p)] @@ res

\* Everything is done in both representations.
Reps == {"polynomial", "evaluation"}
InReps(v, D) == [rep \in Reps |-> FromVec(v, rep, D)]
OutOf(xs, D) == [rep \in Reps |-> ToVec(xs[rep], D)]
Worked(j, D, x, y) ==
    CASE j.op = "rep" -> x
      [] j.op = "mul" -> [rep \in Reps |-> MulRing(x[rep], y[rep], D)]
      [] j.op = "shift" -> [rep \in Reps |-> MulByX(x[rep], j.j, D)]
WorkedOut(j, D, vs) ==
    OutOf(Worked(j, D, InReps(vs[1], D), IF j.op = "mul" THEN InReps(vs[2], D) ELSE <<>>), D)
RingResultIn(j, D) ==
    IF j.op = "rep"
    THEN Recursively(j.a, D.R.phi, D,
                     [values |-> FromVec(j.a, "evaluation", D).v, back |-> WorkedOut(j, D, <<j.a>>).evaluation])
    ELSE WorkedOut(j, D, <<j.a, IF j.op = "mul" THEN j.b ELSE <<>>>>)

BothModuli(j, pr0) == [pr0 |-> pr0, pr1 |-> IF pr0 = 0 THEN 0 ELSE GenerateModulus(j.m, j.p, j.bits, pr0)]
GroupResult(Q) ==
    IF Q = Stuck THEN [order |-> 0, elements |-> <<>>]
    ELSE [order |-> Order(Q[1]), elements |-> Seq0(Order(Q[1]), LAMBDA n : NthElement(Q[1], n))]
Unpacked(s, d, fa, fb) ==
    [back |-> Backward(s.Ai, d, fa), sum |-> Backward(s.Ai, d, fa ^^ fb),
     product |-> Backward(s.Ai, d, MulModGF2(fa, fb, s.F))]
SlotsResult(j, s) == Unpacked(s, j.e.d, Forward(s.A, j.e.d, j.a), Forward(s.A, j.e.d, j.b))

RingsInit == Called("rings", RingCalls)
InRingOfCiphers ==
    Computing("rings") /\ job.op \in {"rep", "mul", "shift"} /\ Gives(RingResultIn(job, Data[job.c]))
FindModuli ==
    Computing("rings") /\ job.op = "moduli" /\ Gives(BothModuli(job, GenerateModulus(job.m, job.p, job.bits, 0)))
FindGroup == Computing("rings") /\ job.op = "group" /\ Gives(GroupResult(QuotientGroup(job.g, job.seed)))
PackSlots == Computing("rings") /\ job.op = "slots" /\ Gives(SlotsResult(job, Setup[job.e]))
RingTransformed(op) == Ended("rings") /\ job.op = op

(***************************************************************************)
(* Properties.                                                             *)
(***************************************************************************)
\* Changing to evaluation representation gives the values at the primitive
\* roots in the order of p(i), changing back gives the polynomial, and the
\* iterative transforms agree with the recursive ones they replaced
\* (change_rep, FFT_Iter, FFT_Iter2, BFFT).
RepsAgree(D) ==
    /\ \A i \in Vec(D.R.phi) : out[1].values[i] = Subs(job.a, PowMod(Zeta(D), D.R.pi[i], D.p), D.p)
    /\ out[1].back = job.a
    /\ out[1].odd = out[1].values
    /\ out[1].naive = out[1].iter /\ out[1].rec = out[1].iter
RepsInverse == RingTransformed("rep") => RepsAgree(Data[job.c])

\* A product is the same in both representations, for every kind of ring;
\* mul_by_X_i multiplies by a power of X in both, also beyond the ring's
\* degree (mul, reduce, mul_by_X_i).
RECURSIVE TimesX(_, _, _, _)
TimesX(e, k, x, D) == IF k = 0 THEN e ELSE TimesX(MulRing(e, x, D), k - 1, x, D)
ShiftAgrees(D) ==
    /\ out[1].polynomial =
         TimesX(Element("polynomial", job.a), job.j,
                Element("polynomial", [i \in Vec(D.R.phi) |-> IF i = 1 THEN 1 ELSE 0]), D).v
    /\ out[1].evaluation = out[1].polynomial
ProductsAgree ==
    /\ RingTransformed("mul") => out[1].polynomial = out[1].evaluation
    /\ RingTransformed("shift") => ShiftAgrees(Data[job.c])

\* Two moduli that pass the search are different primes of the length asked
\* for, FFT_Data accepts them with transforms enabled, and a value modulo
\* the plaintext modulus survives the reduction of a multiple of a modulus
\* (generate_modulus against FFT_Data::init and Rq_Element::Scale).
ModulusFits(pr, D) ==
    /\ IsPrime(pr) /\ NumBits(pr) = job.bits /\ pr % job.p = 1
    /\ D.twop >= 0 /\ D.root # <<>>
    /\ \A i \in Vec(D.R.phi) : Subs(D.R.poly, PowMod(Zeta(D), D.R.pi[i], pr), pr) = 0
ModuliFit ==
    RingTransformed("moduli") =>
        \A pr \in {out[1].pr0, out[1].pr1} \ {0} :
            ModulusFits(pr, FFTData(MakeRing(job.m), pr)) /\ out[1].pr0 # out[1].pr1

\* When the order of the quotient group is the number of slots, its
\* elements reach every coset of the powers of 2 once (QGroup::assign,
\* nth_element); init(P2Data) checks the order alone.
SlotsNumbered ==
    RingTransformed("group") =>
        LET m == job.g.m
            twos == {PowerMod(2, k, m) : k \in 1..m}
            coset(x) == {(x * t) % m : t \in twos}
            elements == out[1].elements
        IN  out[1].order = PhiN(m) \div job.g.d =>
                {coset(elements[i]) : i \in DOMAIN elements}
                    = {coset(x) : x \in {y \in 1..(m - 1) : GCD(y, m) = 1}}

\* Packing is invertible and carries sums and products of polynomials to
\* sums and products in every slot, whichever factor and root NTL finds
\* first (forward, backward, init(P2Data), pinv).
SlotsMultiply ==
    RingTransformed("slots") =>
        /\ out[1].back = job.a
        /\ out[1].sum = [i \in DOMAIN job.a |-> job.a[i] ^^ job.b[i]]
        /\ out[1].product = [i \in DOMAIN job.a |-> MulModGF2(job.a[i], job.b[i], job.e.G)]
=============================================================================
