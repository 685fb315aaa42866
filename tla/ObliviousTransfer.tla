------------------------- MODULE ObliviousTransfer -------------------------
(***************************************************************************)
(* Oblivious transfer and what is made from it (OT/): base OTs             *)
(* (BaseOT.cpp, OTTripleSetup.cpp), their extension                        *)
(* (OTExtensionWithMatrix.cpp, OTExtension.cpp), correlation and products  *)
(* (OTCorrelator.hpp, OTMultiplier.hpp), vector oblivious linear           *)
(* evaluation (OTVole.hpp), triples, inputs and bits with MACs             *)
(* (NPartyTripleGenerator.hpp, Triple.hpp) and the transposition of bit    *)
(* matrices (square128.cpp).                                               *)
(*                                                                         *)
(* A PRNG seed is a sequence of numbers; the n-th output under a seed is a *)
(* function of the seed and n, and as a new seed it is the seed with n     *)
(* appended.  Words are a few bits long.  A job is one protocol run of all *)
(* parties, one of which may deviate by altering one value.                *)
(***************************************************************************)
EXTENDS Integers, Sequences, SequencesExt, FiniteSets, FiniteSetsExt, Bitwise

CONSTANTS Prime,       \* the prime field; values take PrimeBits bits
          PrimeBits,
          K, S,        \* the ring modulo 2^K and its security parameter
          BaseCount,   \* nbase: base OTs, and rows of a square (128)
          Amplify,     \* N_AMPLIFY
          Seeds        \* seeds of the randomness that is tried

VARIABLES job, out

Word(label) == FoldLeft(LAMBDA v, x : (v * 7 + x * 5 + 3) % 97, 1, label)
RandomBit(label) == (Word(label) \div 4) % 2
BitOf(x, k) == (x \div 2^k) % 2
XorAll(f, D) == FoldSet(LAMBDA d, v : v ^^ f[d], 0, D)

(***************************************************************************)
(* Values: a prime field, GF(4), or a ring modulo a power of two.          *)
(***************************************************************************)
PrimeField == [kind |-> "p", mod |-> Prime, bits |-> PrimeBits]
Binary == [kind |-> "b", mod |-> 4, bits |-> 2]
Ring(n) == [kind |-> "z", mod |-> 2^n, bits |-> n]

Plus(T, a, b) == IF T.kind = "b" THEN a ^^ b ELSE (a + b) % T.mod
Minus(T, a, b) == IF T.kind = "b" THEN a ^^ b ELSE (a - b) % T.mod
TimesX(T, a) == IF T.kind # "b" THEN (2 * a) % T.mod
                ELSE IF a >= 2 THEN (2 * a) ^^ 7 ELSE 2 * a
Shifted(T, a, k) == FoldLeftDomain(LAMBDA v, i : TimesX(T, v), a, [i \in 1..k |-> i])
Total(T, f, D) == FoldSet(LAMBDA d, v : Plus(T, v, f[d]), 0, D)
Times(T, a, b) == IF T.kind # "b" THEN (a * b) % T.mod
                  ELSE Total(T, [k \in 0..1 |-> IF BitOf(b, k) = 1 THEN Shifted(T, a, k) ELSE 0], 0..1)
Random(T, label) == Word(label) % T.mod

(***************************************************************************)
(* Base OTs.  The two keys of a transfer are hashed with its number; both  *)
(* sides then take their outputs from PRNGs with these seeds.              *)
(***************************************************************************)
SimpleOT(i, j) == <<i, j>>
HashWithId(key, id) == key \o <<id>>

\* get_fresh: one output is kept for the next call, the next one given out.
GetFresh(seed) == [kept |-> seed \o <<1>>, fresh |-> seed \o <<2>>]

\* exec_base and then calls of get_fresh: all outputs so far.
ExecBase(choice, calls) ==
    LET keys == [i \in DOMAIN choice |-> [j \in 0..1 |-> HashWithId(SimpleOT(i, j), i) \o <<1>>]]
        received == [i \in DOMAIN choice |-> HashWithId(SimpleOT(i, choice[i]), i) \o <<1>>]
        step(s, c) ==
            [kept |-> [sender |-> [i \in DOMAIN keys |-> [j \in 0..1 |-> GetFresh(s.kept.sender[i][j]).kept]],
                       receiver |-> [i \in DOMAIN keys |-> GetFresh(s.kept.receiver[i]).kept]],
             given |-> Append(s.given,
                      [sender |-> [i \in DOMAIN keys |-> [j \in 0..1 |-> GetFresh(s.kept.sender[i][j]).fresh]],
                       receiver |-> [i \in DOMAIN keys |-> GetFresh(s.kept.receiver[i]).fresh]])]
        end == FoldLeftDomain(step, [kept |-> [sender |-> keys, receiver |-> received], given |-> <<>>],
                              [c \in 1..calls |-> c])
    IN  Append(end.given, end.kept)

(***************************************************************************)
(* Extension.  The receiver expands both seeds of every row, the sender    *)
(* the one its base choice gave it; the receiver sends t0 + t1 + x for     *)
(* every row, and transposed the columns are the new transfers.            *)
(***************************************************************************)
\* Rows of bits as columns: bit k of column j is bit j of row k.
Column(rows, j) == FoldSet(LAMBDA k, v : v + 2^(k - 1) * rows[k][j], 0, DOMAIN rows)

\* flip is <<row, column>> of a bit the receiver alters, or <<0, 0>>.
ExtendCorrelated(delta, x, seed, flip) ==
    LET row(k, j) == [n \in DOMAIN x |-> RandomBit(seed \o <<k, j, n>>)]
        t0 == [k \in 1..BaseCount |-> row(k, 0)]
        t1 == [k \in 1..BaseCount |-> row(k, 1)]
        u == [k \in 1..BaseCount |-> [n \in DOMAIN x |->
                 (t0[k][n] + t1[k][n] + x[n] + IF flip = <<k, n>> THEN 1 ELSE 0) % 2]]
        q == [k \in 1..BaseCount |->
                 IF BitOf(delta, k - 1) = 0 THEN t0[k] ELSE [n \in DOMAIN x |-> (t1[k][n] + u[k][n]) % 2]]
    IN  [t |-> [n \in DOMAIN x |-> Column(t0, n)], q |-> [n \in DOMAIN x |-> Column(q, n)]]

\* extend_correlated asks for a multiple of the block and adds two blocks of
\* random choices that are discarded after the check.
WithExtra(x, seed) ==
    LET rounded == ((Len(x) + BaseCount - 1) \div BaseCount) * BaseCount
    IN  [n \in 1..(rounded + 2 * BaseCount) |->
            IF n <= Len(x) THEN x[n] ELSE IF n <= rounded THEN 0 ELSE RandomBit(seed \o <<9, n>>)]

\* mul128: the product of polynomials over GF(2), not reduced.
Mul128(a, b) == XorAll([k \in 0..(BaseCount - 1) |-> IF BitOf(b, k) = 1 THEN a * 2^k ELSE 0],
                       0..(BaseCount - 1))

\* Mutant: the choice bits are left out of the combination.
CheckCorrelationNoChoice(delta, x, chi, ext) ==
    LET t == XorAll([n \in DOMAIN x |-> Mul128(ext.t[n], chi[n])], DOMAIN x)
        q == XorAll([n \in DOMAIN x |-> Mul128(ext.q[n], chi[n])], DOMAIN x)
    IN  t = q

\* The receiver sends the combinations of its choices and its columns.
CheckCorrelation(delta, x, chi, ext) ==
    LET xx == XorAll([n \in DOMAIN x |-> IF x[n] = 1 THEN chi[n] ELSE 0], DOMAIN x)
        t == XorAll([n \in DOMAIN x |-> Mul128(ext.t[n], chi[n])], DOMAIN x)
        q == XorAll([n \in DOMAIN x |-> Mul128(ext.q[n], chi[n])], DOMAIN x)
    IN  Mul128(xx, delta) ^^ q = t

\* hash_outputs: the sender hashes q and q + delta, the receiver t.
HashOutputs(delta, count, ext) ==
    [sender |-> [n \in 1..count |-> [j \in 0..1 |-> <<"MMO", IF j = 0 THEN ext.q[n] ELSE ext.q[n] ^^ delta>>]],
     receiver |-> [n \in 1..count |-> <<"MMO", ext.t[n]>>]]

(***************************************************************************)
(* Products.  Party p chooses with the bits of alpha[p]; b[r] are the      *)
(* values of the others.  With every other party, p ends with the          *)
(* difference of what it holds as receiver and as sender of the            *)
(* correlation.  Party 1 uses b[1] + dev towards party 2.                  *)
(***************************************************************************)
Strings(T, seed, p, r, k, j) == Random(T, seed \o <<p, r, k, j>>)
BitsOf(x, n) == [k \in 1..n |-> BitOf(x, k - 1)]

\* What holder p sends to chooser r for row k (OTCorrelator::correlate).
Correction(T, seed, p, r, k, value) ==
    Minus(T, Minus(T, Strings(T, seed, p, r, k, 0), Strings(T, seed, p, r, k, 1)), value)

ConditionalAdd(T, choice, base, u) == IF choice = 1 THEN Plus(T, base, u) ELSE base

Rows(T, alpha, b, seed, dev) ==
    LET P == DOMAIN b
        value(p, r) == IF p = 1 /\ r = 2 THEN Plus(T, b[p], dev) ELSE b[p]
        q(p, r, k) == ConditionalAdd(T, alpha[p][k], Strings(T, seed, r, p, k, alpha[p][k]),
                                     Correction(T, seed, r, p, k, value(r, p)))
        own(p, k) == IF alpha[p][k] = 1 THEN b[p] ELSE 0
    IN  [p \in P |-> [k \in DOMAIN alpha[p] |->
            Plus(T, own(p, k), Total(T, [r \in P |-> Minus(T, Strings(T, seed, p, r, k, 0), q(p, r, k))],
                                     P \ {p}))]]

\* Square::to: the rows weighted with the powers of two, or of X.
ReduceSquare(T, row) == Total(T, [k \in DOMAIN row |-> Shifted(T, row[k], k - 1)], DOMAIN row)
Products(T, alpha, b, seed, dev) ==
    LET rows == Rows(T, alpha, b, seed, dev) IN [p \in DOMAIN b |-> ReduceSquare(T, rows[p])]

\* common_seed for two parties: what each packs.
CommonSeed(sent, received, my_num) == IF my_num = 1 THEN <<received, sent>> ELSE <<sent, received>>

(***************************************************************************)
(* Triples.                                                                *)
(***************************************************************************)
\* The field (or ring) of the shares, and that of their MACs.
OpenType(ty) == CASE ty = "p" -> PrimeField [] ty = "b" -> Binary [] ty = "z" -> Ring(K + S)
MacType(ty) == IF ty = "z" THEN Ring(K + 2 * S) ELSE OpenType(ty)
KeyBits(ty) == IF ty = "z" THEN S ELSE OpenType(ty).bits
RandomKey(ty, label) == IF ty = "z" THEN Word(label) % 2^S ELSE Random(OpenType(ty), label)

\* VOLE of sender p and receiver r: the receiver subtracts its own string
\* from x + t0 + t1 where its choice is 1; outputs are the weighted sums.
VoleSend(Z, seed, p, r, n) ==
    Minus(Z, 0, Total(Z, [k \in 1..n |-> Shifted(Z, Strings(Z, seed, p, r, k, 0), k - 1)], 1..n))
VoleChosen(Z, chosen, x, t) == IF chosen = 1 THEN Minus(Z, Plus(Z, x, Plus(Z, t[0], t[1])), t[1]) ELSE t[0]
VoleReceive(Z, seed, p, r, choice, x) ==
    Total(Z, [k \in DOMAIN choice |->
                Shifted(Z, VoleChosen(Z, choice[k], x, [c \in 0..1 |-> Strings(Z, seed, p, r, k, c)]), k - 1)],
          DOMAIN choice)

\* The MACs of one shared value under the shared key: by correlated OTs in
\* a field and by VOLE in the ring.
FieldMacs(T, bits, values, seed) == Products(T, bits, values, seed, 0)
RingMacs(Z, bits, keys, values, seed) ==
    LET P == DOMAIN values
    IN  [p \in P |-> Plus(Z, Times(Z, values[p], keys[p]),
            Total(Z, [r \in P |-> Plus(Z, VoleSend(Z, seed, p, r, Len(bits[r])),
                                      VoleReceive(Z, seed, r, p, bits[p], values[r]))], P \ {p}))]
MacsOf(ty, bits, keys, values, seed) ==
    IF ty = "z" THEN RingMacs(MacType(ty), bits, keys, values, seed)
    ELSE FieldMacs(MacType(ty), bits, values, seed)
WithMacs(values, macs) == [p \in DOMAIN values |-> [share |-> values[p], mac |-> macs[p]]]
Authenticate(ty, keys, values, seed) ==
    WithMacs(values, MacsOf(ty, [p \in DOMAIN keys |-> BitsOf(keys[p], KeyBits(ty))], keys, values, seed))

\* The parts of an input's MAC: what the owner holds for party r, and what
\* party r holds.
FieldInputMacs(T, seed, owner, r, bits, x) ==
    LET n == Len(bits)
        chosen(k) == ConditionalAdd(T, bits[k], Strings(T, seed, owner, r, k, bits[k]),
                                    Correction(T, seed, owner, r, k, x))
    IN  [mine |-> ReduceSquare(T, [k \in 1..n |-> Strings(T, seed, owner, r, k, 0)]),
         other |-> Minus(T, 0, ReduceSquare(T, [k \in 1..n |-> chosen(k)]))]
RingInputMacs(Z, seed, owner, r, bits, x) ==
    [mine |-> VoleSend(Z, seed, owner, r, Len(bits)), other |-> VoleReceive(Z, seed, owner, r, bits, x)]

Scale(T, x, c) == [share |-> Times(T, x.share, c), mac |-> Times(T, x.mac, c)]
Less(T, x, y) == [share |-> Minus(T, x.share, y.share), mac |-> Minus(T, x.mac, y.mac)]
Opened(T, xs) == Total(T, [p \in DOMAIN xs |-> xs[p].share], DOMAIN xs)
MacSum(T, xs) == Total(T, [p \in DOMAIN xs |-> xs[p].mac], DOMAIN xs)
Key(T, keys) == Total(T, keys, DOMAIN keys)
MacOk(T, keys, xs) == MacSum(T, xs) = Times(T, Opened(T, xs), Key(T, keys))

\* One unchecked product per factor: Amplify of them share b.  In the ring
\* the rows of one product are combined instead.
PlainTripleRound(ty, n, seed) ==
    LET T == OpenType(ty)
        b == [p \in 1..n |-> Random(T, <<seed, 2, p>>)]
        a(j) == [p \in 1..n |-> Random(T, <<seed, 1, p, j>>)]
        bits(j) == [p \in 1..n |-> BitsOf(a(j)[p], T.bits)]
    IN  [b |-> b, a |-> [j \in 1..Amplify |-> a(j)],
         c |-> [j \in 1..Amplify |-> Products(T, bits(j), b, <<seed, 3, j>>, 0)],
         rows |-> IF ty = "z" THEN Rows(T, bits(1), b, <<seed, 3, 1>>, 0) ELSE <<>>]

\* amplify: two random combinations with the same b.
AmplifyTriple(ty, plain, seed) ==
    LET T == OpenType(ty)
        r(i, j) == Random(T, <<seed, 4, i, j>>)
        P == DOMAIN plain.b
    IN  IF ty = "z" THEN
          LET D == 1..T.bits IN
          [b |-> plain.b,
           a |-> [i \in 1..2 |-> [p \in P |-> Total(T, [l \in D |-> Times(T, r(i, l), BitOf(plain.a[1][p], l - 1))], D)]],
           c |-> [i \in 1..2 |-> [p \in P |-> Total(T, [l \in D |-> Times(T, r(i, l), plain.rows[p][l])], D)]]]
        ELSE
          LET D == 1..Amplify IN
          [b |-> plain.b,
           a |-> [i \in 1..2 |-> [p \in P |-> Total(T, [j \in D |-> Times(T, r(i, j), plain.a[j][p])], D)]],
           c |-> [i \in 1..2 |-> [p \in P |-> Total(T, [j \in D |-> Times(T, r(i, j), plain.c[j][p])], D)]]]

\* prepare_sacrifice, computeCheckShare, and the checks: in the ring the
\* difference is opened, in a field its MAC is checked against zero.
Sigma(T, tr, t, opened) ==
    [p \in DOMAIN tr.b |-> Less(T, Less(T, Scale(T, tr.c[1][p], t), tr.c[2][p]), Scale(T, tr.b[p], opened))]
ZeroSum(ty, T, keys, sigma) ==
    IF ty = "z" THEN MacOk(T, keys, sigma) /\ Opened(T, sigma) % OpenType(ty).mod = 0 ELSE MacSum(T, sigma) = 0
SacrificeMasked(ty, T, keys, tr, t, masked) ==
    /\ MacOk(T, keys, masked)
    /\ ZeroSum(ty, T, keys, Sigma(T, tr, t, Opened(T, masked) % OpenType(ty).mod))
Sacrifice(ty, keys, tr, t) ==
    SacrificeMasked(ty, MacType(ty), keys, tr, t,
        [p \in DOMAIN keys |-> Less(MacType(ty), Scale(MacType(ty), tr.a[1][p], t), tr.a[2][p])])

\* generateTriples; party 1 adds err to its share of the product.
Arranged(x) == [a |-> <<x[1], x[2]>>, b |-> x[3], c |-> <<x[4], x[5]>>]
AuthenticateTriple(q, keys, amp) ==
    LET values == <<amp.a[1], amp.a[2], amp.b,
                    [amp.c[1] EXCEPT ![1] = Plus(OpenType(q.ty), @, q.err)], amp.c[2]>>
    IN  Arranged([l \in 1..5 |-> Authenticate(q.ty, keys, values[l], <<q.seed, 6, l>>)])
CommonSeeds(u) == [p \in 1..2 |-> CommonSeed(u[p], u[3 - p], p)]
CheckTriple(q, plain, keys, tr) ==
    [plain |-> plain, keys |-> keys, tr |-> tr, passed |-> Sacrifice(q.ty, keys, tr, q.t),
     common |-> CommonSeeds([p \in 1..2 |->
                    Correction(OpenType(q.ty), <<q.seed, 3, 1>>, p, 3 - p, 1, plain.b[p])])]
FromPlain(q, plain, keys) ==
    CheckTriple(q, plain, keys, AuthenticateTriple(q, keys, AmplifyTriple(q.ty, plain, q.seed)))
GenerateTriple(q) ==
    FromPlain(q, PlainTripleRound(q.ty, q.n, q.seed), [p \in 1..q.n |-> RandomKey(q.ty, <<q.seed, 5, p>>)])

\* generateInputs: the owner and every key holder, and one random
\* combination of all inputs, the extra one included, is checked.
InputSharesOf(T, q, secret, j) ==
    [p \in 1..q.n |->
        IF p # q.player THEN Random(T, <<q.seed, 8, j, p>>)
        ELSE Minus(T, secret, Total(T, [r \in 1..q.n |-> Random(T, <<q.seed, 8, j, r>>)], 1..q.n \ {p}))]
InputPair(T, q, bits, j, r, x) ==
    IF q.ty = "z" THEN RingInputMacs(T, <<q.seed, 6, j>>, q.player, r, bits, x)
    ELSE FieldInputMacs(T, <<q.seed, 6, j>>, q.player, r, bits, x)
InputPairs(T, q, keys, j, x) ==
    [r \in 1..q.n \ {q.player} |->
        InputPair(T, q, BitsOf(keys[r], KeyBits(q.ty)), j, r,
                  IF j = 1 /\ r = q.victim THEN Plus(T, x, q.err) ELSE x)]
InputMacsOf(T, q, keys, x, pairs) ==
    [p \in 1..q.n |->
        IF p = q.player THEN Plus(T, Times(T, x, keys[p]), Total(T, [r \in DOMAIN pairs |-> pairs[r].mine], DOMAIN pairs))
        ELSE pairs[p].other]
Combination(T, r, xs) == [p \in DOMAIN xs[1] |->
    [share |-> Total(T, [j \in DOMAIN xs |-> Times(T, r[j], xs[j][p].share)], DOMAIN xs),
     mac |-> Total(T, [j \in DOMAIN xs |-> Times(T, r[j], xs[j][p].mac)], DOMAIN xs)]]
InputResult(T, keys, secret, inputs, r) ==
    [keys |-> keys, secret |-> secret, inputs |-> inputs, r |-> r,
     passed |-> MacOk(T, keys, Combination(T, r, inputs))]
InputsWith(T, q, keys, secret) ==
    InputResult(T, keys, secret,
        [j \in 1..3 |-> WithMacs(InputSharesOf(T, q, secret[j], j),
                                 InputMacsOf(T, q, keys, secret[j], InputPairs(T, q, keys, j, secret[j])))],
        [j \in 1..3 |-> Random(T, <<q.seed, 10, j>>)])
GenerateInputs(q) ==
    InputsWith(OpenType(q.ty), q, [p \in 1..q.n |-> RandomKey(q.ty, <<q.seed, 5, p>>)],
               [j \in 1..3 |-> Random(OpenType(q.ty), <<q.seed, 7, j>>)])

\* Bits with MACs from the columns of an extension (generateBitsGf2n, and
\* the Tinier multiplier with a key of BaseCount bits).
ColumnMac(p, j, delta, x, pair) ==
    XorAll([r \in DOMAIN delta |-> IF r = p THEN IF x[p][j] = 1 THEN delta[p] ELSE 0
                                   ELSE pair[p][r].t[j] ^^ pair[r][p].q[j]], DOMAIN delta)
GenerateBits(q) ==
    LET P == 1..q.n
        J == 1..3
        delta == [p \in P |-> Word(<<q.seed, 5, p>>) % 2^BaseCount]
        x == [p \in P |-> [j \in J |-> RandomBit(<<q.seed, 7, p, j>>)]]
        sent(p, r) == IF p = 1 /\ r = 2 THEN [x[p] EXCEPT ![1] = (@ + q.err) % 2] ELSE x[p]
        pair == [p \in P |-> [r \in P |-> IF p = r THEN <<>> ELSE
                    ExtendCorrelated(delta[r], sent(p, r), <<q.seed, p, r>>, <<0, 0>>)]]
    IN  [delta |-> delta, x |-> x, mac |-> [p \in P |-> [j \in J |-> ColumnMac(p, j, delta, x, pair)]]]

\* generateBitsFromTriples: a (a + b) - ab is opened, and a over its root is
\* 1 or -1.
RootBits(q) ==
    LET T == PrimeField
        open(x) == Total(T, x, 1..2)
        product == Times(T, open(q.a), open(q.b))
        c == <<q.c, Minus(T, product, q.c)>>
        sum == open([p \in 1..2 |-> Plus(T, q.a[p], q.b[p])])
        square == open([p \in 1..2 |-> Minus(T, Times(T, q.a[p], sum), c[p])])
        root == CHOOSE x \in 0..(Prime - 1) : Times(T, x, x) = square
        inv(y) == CHOOSE z \in 1..(Prime - 1) : Times(T, y, z) = 1
    IN  IF root = 0 THEN <<>>
        ELSE [p \in 1..2 |-> Times(T, Plus(T, Times(T, q.a[p], inv(root)), IF p = 1 THEN 1 ELSE 0), inv(2))]

(***************************************************************************)
(* VOLE.  The sender sends x + t0 + t1 for every row and proves with       *)
(* hashes of differences that x is the same in all rows; a random value    *)
(* follows x.  In row q.row it uses x + 1 in the first place.              *)
(***************************************************************************)
VoleCheck(t, u, t0, t1, choice, alpha, beta) ==
    LET Z == Ring(K + S)
        side(i) == IF choice[i] = 1 THEN t1[i] ELSE t0[i]
        other(i) == IF choice[i] = 1 THEN t0[i] ELSE t1[i]
        D == DOMAIN t[1]
        diff(x, y) == [n \in D |-> Minus(Z, x[n], y[n])]
    IN  /\ diff(side(alpha), side(beta)) = diff(t[alpha], t[beta])
        /\ diff(other(alpha), other(beta)) =
             [n \in D |-> Plus(Z, Minus(Z, diff(u[alpha], u[beta])[n], t[alpha][n]), t[beta][n])]
        /\ alpha = beta \/ u[alpha] # u[beta]

Vole(q) ==
    LET Z == Ring(K + S)
        x == q.x \o <<Random(Z, <<q.seed, 1>>)>>
        rows == 1..q.rows
        D == DOMAIN x
        t0 == [i \in rows |-> [n \in D |-> Random(Z, <<q.seed, 2, i, 0, n>>)]]
        t1 == [i \in rows |-> [n \in D |-> Random(Z, <<q.seed, 2, i, 1, n>>)]]
        used(i, n) == IF i = q.row /\ n = 1 THEN Plus(Z, x[n], 1) ELSE x[n]
        u == [i \in rows |-> [n \in D |-> Plus(Z, used(i, n), Plus(Z, t1[i][n], t0[i][n]))]]
        choice == [i \in rows |-> BitOf(q.delta, i - 1)]
        t == [i \in rows |-> IF choice[i] = 1 THEN t1[i] ELSE t0[i]]
        a == [i \in rows |-> IF choice[i] = 1 THEN [n \in D |-> Minus(Z, u[i][n], t[i][n])] ELSE t[i]]
    IN  [receiver |-> [n \in 1..Len(q.x) |-> Total(Z, [i \in rows |-> Shifted(Z, a[i][n], i - 1)], rows)],
         sender |-> [n \in 1..Len(q.x) |-> Minus(Z, 0, Total(Z, [i \in rows |-> Shifted(Z, t0[i][n], i - 1)], rows))],
         distinct |-> \A i, k \in rows : i # k => u[i] # u[k],
         passed |-> \A i \in rows : \A k \in q.challenges[i] : VoleCheck(t, u, t0, t1, choice, i, k)]

(***************************************************************************)
(* Transposition of 16 rows of 16 bytes by interleaving, and of 16 rows of *)
(* 8 bits by taking the most significant bits of all bytes; positions      *)
(* count from 0.                                                           *)
(***************************************************************************)
Perm == <<0, 8, 4, 12, 2, 10, 6, 14, 1, 9, 5, 13, 3, 11, 7, 15>>

\* _mm_unpacklo_epiI and _mm_unpackhi_epiI on words of w bytes.
Unpack(a, b, w, high) ==
    [n \in 0..15 |-> LET word == (n \div w) \div 2
                         from == (word + IF high THEN 8 \div w ELSE 0) * w + (n % w)
                     IN  IF (n \div w) % 2 = 0 THEN a[from] ELSE b[from]]

\* X(I) with J = I / 4.
UnpackRows(rows, w) ==
    LET J == 2 * w
    IN  [r \in 0..15 |-> IF r % J < J \div 2 THEN Unpack(rows[r], rows[r + J \div 2], w, FALSE)
                         ELSE Unpack(rows[r - J \div 2], rows[r], w, TRUE)]

TransposeBytes(rows) ==
    LET done == FoldLeft(UnpackRows, rows, <<1, 2, 4, 8>>)
    IN  [i \in 0..15 |-> done[Perm[i + 1]]]

\* matrix16x8::transpose: 16 bytes; the shift runs across the bytes of each
\* half but only the top bits are read.
ShiftLeft(bytes) ==
    [l \in 0..15 |-> ((2 * bytes[l]) % 256) + IF l % 8 = 0 THEN 0 ELSE bytes[l - 1] \div 128]
Movemask(bytes) == FoldSet(LAMBDA l, v : v + 2^l * (bytes[l] \div 128), 0, 0..15)
TransposeBits(bytes) ==
    LET shifted(j) == FoldLeftDomain(LAMBDA v, i : ShiftLeft(v), bytes, [i \in 1..j |-> i])
    IN  [row \in 0..7 |-> Movemask(shifted(7 - row))]

(***************************************************************************)
(* Jobs.                                                                   *)
(***************************************************************************)
Jobs == [alg : {"base"}, choice : [1..3 -> {0, 1}], calls : 0..3]
   \cup [alg : {"extend"}, delta : 0..(2^BaseCount - 1), x : [1..2 -> {0, 1}], seed : Seeds,
         flip : {<<0, 0>>} \cup ((1..BaseCount) \X {1, 2, 3 * BaseCount})]
   \cup [alg : {"triple"}, ty : {"p", "b", "z"}, n : {2, 3}, seed : Seeds, err : {0, 1}, t : {0, 1, 2, 3}]
   \cup UNION {[alg : {"input"}, ty : {"p", "b", "z"}, n : {n}, seed : Seeds, player : 1..n,
                victim : 1..n, err : {0, 1}] : n \in {2, 3}}
   \cup [alg : {"bits"}, n : {2, 3}, seed : Seeds, err : {0, 1}]
   \cup [alg : {"root"}, a : [1..2 -> 0..(Prime - 1)], b : [1..2 -> {0, 1, 3}], c : {0, 2}]
   \cup UNION {[alg : {"vole"}, x : {<<0, 1>>, <<3, 2>>}, seed : Seeds, rows : {rows}, delta : 0..(2^rows - 1),
                row : 0..rows, challenges : {[i \in 1..rows |-> 1..rows]} \cup [1..rows -> {{i} : i \in 1..rows}]] :
                rows \in {2, 3}}
   \cup [alg : {"bytes"}]
   \cup [alg : {"transpose"}, a : {1, 3, 90, 129}, b : {1, 7, 31, 200}]

ByteAt(q, l) == (q.a * l + q.b * (l + 1)) % 256

ExtensionResult(q, x, chi, ext) ==
    [passed |-> CheckCorrelation(q.delta, x, chi, ext), chi |-> chi,
     outputs |-> HashOutputs(q.delta, Len(q.x), ext)]
ExtensionOf(q, x) ==
    ExtensionResult(q, x, [n \in DOMAIN x |-> Word(<<q.seed, 11, n>>) % 2^BaseCount],
                    ExtendCorrelated(q.delta, x, <<q.seed>>, q.flip))

Init == job \in Jobs /\ out = <<>>
Gets(alg, result) == job.alg = alg /\ out = <<>> /\ out' = <<result>> /\ UNCHANGED job
Base == Gets("base", ExecBase(job.choice, job.calls))
Extend == Gets("extend", ExtensionOf(job, WithExtra(job.x, <<job.seed>>)))
Triples == Gets("triple", GenerateTriple(job))
Inputs == Gets("input", GenerateInputs(job))
Bits == Gets("bits", GenerateBits(job))
RootOfBits == Gets("root", RootBits(job))
RunVole == Gets("vole", Vole(job))
TransposeInBytes == Gets("bytes", TransposeBytes([r \in 0..15 |-> [n \in 0..15 |-> <<r, n>>]]))
TransposeInBits == Gets("transpose", TransposeBits([l \in 0..15 |-> ByteAt(job, l)]))
Next == \/ Base \/ Extend \/ Triples \/ Inputs \/ Bits \/ RootOfBits \/ RunVole
        \/ TransposeInBytes \/ TransposeInBits
Spec == Init /\ [][Next]_<<job, out>>

(***************************************************************************)
(* Properties.                                                             *)
(***************************************************************************)
Done(alg) == out # <<>> /\ job.alg = alg

\* The receiver of every base OT holds the output of its choice, also after
\* any number of fresh setups, and no seed is ever handed out twice or kept
\* once given (OTTripleSetup::get_fresh).
FreshTransfers ==
    Done("base") =>
        LET outputs(s) == {s.sender[i][j] : i \in 1..3, j \in 0..1}
        IN  /\ \A c \in DOMAIN out[1] : \A i \in 1..3 :
                  out[1][c].receiver[i] = out[1][c].sender[i][job.choice[i]]
            /\ \A c \in DOMAIN out[1] : Cardinality(outputs(out[1][c])) = 6
            /\ \A c, d \in DOMAIN out[1] : c # d => outputs(out[1][c]) \cap outputs(out[1][d]) = {}

\* The check of the correlation lets an honest receiver through, and one
\* that altered a bit only if the alteration has no effect or the random
\* coefficient of its column is zero; then every transfer delivers the
\* string of its choice (check_correlation, hash_outputs).
TransfersDeliver ==
    Done("extend") =>
        LET harmless == job.flip = <<0, 0>> \/ BitOf(job.delta, job.flip[1] - 1) = 0
            o == out[1].outputs
        IN  /\ harmless => out[1].passed
            /\ out[1].passed /\ ~harmless => out[1].chi[job.flip[2]] = 0
            /\ out[1].passed /\ (harmless \/ out[1].chi[job.flip[2]] # 0) =>
                  \A n \in 1..2 : o.receiver[n] = o.sender[n][job.x[n]]

\* Without errors all parties end with shares of a triple under correct
\* MACs, the plain products are products as well, and two parties derive
\* one common seed from what they exchanged.
OTTriplesCorrect ==
    Done("triple") /\ job.err = 0 =>
        LET T == OpenType(job.ty)
            W == MacType(job.ty)
            tr == out[1].tr
            plain == out[1].plain
            sum(f) == Total(T, f, 1..job.n)
            value(x) == Opened(W, x) % T.mod
        IN  /\ out[1].passed
            /\ \A i \in 1..2 : value(tr.c[i]) = Times(T, value(tr.a[i]), value(tr.b))
            /\ \A x \in {tr.a[1], tr.a[2], tr.b, tr.c[1], tr.c[2]} : MacOk(W, out[1].keys, x)
            /\ \A j \in 1..Amplify : sum(plain.c[j]) = Times(T, sum(plain.a[j]), sum(plain.b))
            /\ out[1].common[1] = out[1].common[2]

\* A wrong product is found by the sacrifice, up to the factor and the key
\* that hide it.
WrongProductFound ==
    Done("triple") /\ job.err = 1 =>
        LET T == OpenType(job.ty)
            W == MacType(job.ty)
            effect == Times(T, job.t % T.mod, 1)
        IN  out[1].passed => effect = 0 \/ (job.ty # "z" /\ Key(W, out[1].keys) = 0)

\* Inputs have the owner's values and correct MACs; an owner that uses
\* another value with one party is caught unless the coefficient or the key
\* of that party makes no difference (generateInputs).
InputsAuthenticated ==
    Done("input") =>
        LET T == OpenType(job.ty)
            honest == job.err = 0 \/ job.victim = job.player
            effect == Times(T, out[1].r[1], out[1].keys[job.victim] % T.mod)
        IN  /\ honest => out[1].passed /\ \A j \in 1..3 : MacOk(T, out[1].keys, out[1].inputs[j])
            /\ \A j \in 1..3 : Opened(T, out[1].inputs[j]) = out[1].secret[j]
            /\ ~honest /\ out[1].passed => effect = 0

\* Bits made from the extension have correct MACs, and those made from
\* triples are bits.
BitsAuthenticated ==
    /\ Done("bits") /\ job.err = 0 =>
          \A j \in 1..3 :
             LET bit == XorAll([p \in 1..job.n |-> out[1].x[p][j]], 1..job.n)
                 key == XorAll(out[1].delta, 1..job.n)
             IN  XorAll([p \in 1..job.n |-> out[1].mac[p][j]], 1..job.n) = IF bit = 1 THEN key ELSE 0
    /\ Done("root") => out[1] = <<>> \/ Total(PrimeField, out[1], 1..2) \in {0, 1}

\* The two sides of a VOLE add up to the product; a sender that is not
\* consistent fails, unless its row is compared with no other
\* (consistency_check, OTVole::get_challenge).
VoleConsistent ==
    Done("vole") =>
        LET Z == Ring(K + S)
            compared == \E i, k \in 1..job.rows :
                           i # k /\ k \in job.challenges[i] /\ job.row \in {i, k}
        IN  /\ job.row = 0 =>
                  /\ out[1].distinct => out[1].passed
                  /\ \A n \in DOMAIN job.x :
                        Plus(Z, out[1].receiver[n], out[1].sender[n]) = Times(Z, job.x[n], job.delta)
            /\ job.row # 0 /\ out[1].passed => ~compared

\* Interleaving the bytes transposes them, and so does taking top bits.
Transposed ==
    /\ Done("bytes") => \A r, n \in 0..15 : out[1][r][n] = <<n, r>>
    /\ Done("transpose") => \A row \in 0..7 : \A l \in 0..15 : BitOf(out[1][row], l) = BitOf(ByteAt(job, l), row)
=============================================================================
