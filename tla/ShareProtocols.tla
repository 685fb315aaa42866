--------------------------- MODULE ShareProtocols ---------------------------
(***************************************************************************)
(* Input, multiplication, truncation, opening and private output in the    *)
(* protocols on secret shares: replicated among three and four parties,    *)
(* Shamir, additive with MACs (Beaver), and SPDZ-wise.                     *)
(*                                                                         *)
(* A job is one round of a protocol by all parties.  The message of one    *)
(* party to another may be altered (job.bad): the parties compute with     *)
(* what they receive, and the protocols that check must then stop at some  *)
(* party (aborted) or be right all the same.  A hash is the sequence of    *)
(* what went into it.                                                      *)
(***************************************************************************)
EXTENDS Sharing, FiniteSetsExt

CONSTANTS Field, Field4, RingBits, Values, Seeds

VARIABLES job, out

\* A value that party i sends to party k as message number m.
Sent(j, m, i, k, v) ==
    IF j.bad = <<m, i, k>> /\ i # k THEN (v + j.d) % j.q ELSE v

(***************************************************************************)
(* Three parties: party i holds the parts i and i - 1, and shares one      *)
(* generator with each neighbour.                                          *)
(***************************************************************************)
shared_prng(j, i, c, n) == Prng(j.q, j.s, IF c = 0 THEN i ELSE (i - 1) % 3, n)

local_mul(x, y, q) == (x[0] * Total(y, q) + x[1] * y[0]) % q

prepare_reshare(j, i, v, n) == (v + shared_prng(j, i, 0, n) - shared_prng(j, i, 1, n)) % j.q

\* pass_around by one: the own sum and that of the party before.
Rep3Reshare(j, add, n) ==
    LET mine(i) == prepare_reshare(j, i, add[i], n)
    IN  [i \in Parties(3) |->
            [c \in 0..1 |-> IF c = 0 THEN mine(i)
                            ELSE Sent(j, n, (i - 1) % 3, i, mine((i - 1) % 3))]]

Rep3Mul(j, x, y, n) == Rep3Reshare(j, [i \in Parties(3) |-> local_mul(x[i], y[i], j.q)], n)

Rep3DotProd(j, xs, ys, n) ==
    Rep3Reshare(j, [i \in Parties(3) |->
        SumOver(Len(xs), j.q, LAMBDA k : local_mul(xs[k + 1][i], ys[k + 1][i], j.q))], n)

Rep3Random(j, n) == [i \in Parties(3) |-> [c \in 0..1 |-> shared_prng(j, i, c, n)]]

\* The input party draws one part with its successor and sends the rest back.
Rep3Input(j, player, v, n) ==
    LET drawn == shared_prng(j, player, 0, n)
        rest == (v - drawn) % j.q
    IN  [i \in Parties(3) |-> [c \in 0..1 |->
            CASE i = player -> IF c = 0 THEN drawn ELSE rest
              [] (player - i) % 3 = 1 -> IF c = 0 THEN Sent(j, n, player, i, rest) ELSE 0
              [] OTHER -> IF c = 0 THEN 0 ELSE shared_prng(j, i, 1, n)]]

Rep3Open(j, x, n) ==
    [i \in Parties(3) |->
        (Total(x[i], j.q) + Sent(j, n, (i + 1) % 3, i, x[(i + 1) % 3][0])) % j.q]

\* HashMaliciousRepMC::Check: the hashes of all that was opened must agree.
HashCheckFails(values) == \E i, k \in DOMAIN values : values[i] # values[k]

\* CheckFor: every party hashes the three parts that a sharing of v has.
CheckForHash(i, share, v, q) ==
    [p \in 0..2 |-> LET c == (p + i) % 3
                    IN  IF c < 2 THEN share[c] ELSE (v - Total(share, q)) % q]

\* CommMaliciousRepMC: the missing part comes from both neighbours.
CommOpen(j, x, n) ==
    LET fromPrev(i) == Sent(j, n, (i - 1) % 3, i, x[(i - 1) % 3][1])
        fromNext(i) == Sent(j, n + 1, (i + 1) % 3, i, x[(i + 1) % 3][0])
    IN  [values |-> [i \in Parties(3) |-> (fromPrev(i) + Total(x[i], j.q)) % j.q],
         aborted |-> \E i \in Parties(3) : fromPrev(i) # fromNext(i)]

\* MaliciousRepPO: one party sends the missing part, the other its hash.
Rep3PrivateOutput(j, x, player, n) ==
    LET sender(k) == (player + k) % 3
        part(k) == x[sender(k)][2 - ((player - sender(k)) % 3)]
        got == Sent(j, n, sender(1), player, part(1))
        hash == Sent(j, n, sender(2), player, part(2))
    IN  [values |-> [i \in {player} |-> (Total(x[player], j.q) + got) % j.q],
         aborted |-> got # hash]

(***************************************************************************)
(* Probabilistic truncation.  Numbers are machine words of RingBits bits.  *)
(***************************************************************************)
\* TruncPrTuple::upper and msb: bits m to k - 1, and bit k.
upper(v, k, m) == (v % 2^k) \div 2^m
msb(v, k) == (v \div 2^k) % 2

\* Exclusive or of a shared bit and an opened one, which party 0 adds.
overflow(i, bit_mask, c) == bit_mask + (IF i = 0 THEN c ELSE 0) - 2 * bit_mask * c

\* The dealer's own share res2 is random; the others open what remains.
Rep3Quotient(j, k, m, c, unmasks, msbs, res2) ==
    LET rest == [i \in 0..1 |->
                    ((IF i = 0 THEN upper(c[i], k, m) ELSE 0) - unmasks[i]
                        + overflow(i, msbs[i], msb(c[i], k)) * 2^(k - m) - res2[i]) % j.q]
    IN  [i \in Parties(3) |-> [p \in 0..1 |->
            IF i = 2 THEN res2[p] ELSE IF p = i THEN (rest[0] + rest[1]) % j.q ELSE res2[i]]]

\* Party 2 deals mask, truncated mask and top bit to the others, who open.
Rep3TruncOpened(j, k, m, to_open, mask) ==
    LET deal(t, v, id) == [i \in 0..1 |-> Sent(j, t, 2, i, RandomizeToSum(v, 2, j.q, j.s, id)[i])]
    IN  Rep3Quotient(j, k, m, [i \in 0..1 |-> (to_open[i] + Sent(j, 4, 1 - i, i, to_open[1 - i])) % j.q],
                     deal(2, upper(mask, k, m), 32), deal(3, msb(mask, k), 33),
                     [c \in 0..1 |-> Prng(j.q, j.s, 34, c)])
Rep3TruncMasked(j, x, k, m, mask) ==
    Rep3TruncOpened(j, k, m,
        [i \in 0..1 |-> ((IF i = 0 THEN Total(x[0], j.q) ELSE x[1][0])
                            + Sent(j, 1, 2, i, RandomizeToSum(mask, 2, j.q, j.s, 31)[i])) % j.q],
        mask)
Rep3TruncPr(j, x, k, m) == Rep3TruncMasked(j, x, k, m, Prng(j.q, j.s, 30, 0))

(***************************************************************************)
(* Four parties: party i holds the parts i, i + 1 and i + 2, and has a     *)
(* generator for each.  A joint input is known to a sender and a backup;   *)
(* the sender sends it masked, the backup later confirms it by hash.       *)
(***************************************************************************)
rep_prng(j, i, index, n) == Prng(j.q, j.s, (i + index) % 4, n)
Offset4(i, p) == (p - i) % 4

\* The part that all but the outsider hold.
JointPart(sender, backup, receiver, outsider) == (outsider - 1) % 4

\* What the parts of party i gain by joint input number n of v[sender], v[backup].
joint_input(j, n, sender, backup, receiver, outsider, v) ==
    LET r(i) == rep_prng(j, i, Offset4(i, receiver) - 1, n)
        masked(i) == (v[i] - r(i)) % j.q
        got == Sent(j, n, sender, receiver, masked(sender))
        target == JointPart(sender, backup, receiver, outsider)
        gain(i, c) ==
            LET part == (i + c) % 4
            IN  (IF i # receiver /\ part = (receiver - 1) % 4 THEN r(i) ELSE 0)
                + (IF part # target THEN 0
                   ELSE IF i \in {sender, backup} THEN masked(i)
                   ELSE IF i = receiver THEN got
                   ELSE 0)
    IN  [parts |-> [i \in Parties(4) |-> [c \in 0..2 |-> gain(i, c)]],
         send_hash |-> masked(backup), receive_hash |-> got]

get_addshares(x, y, q) ==
    [c \in {-1, 0, 4} |->
        IF c = 4 THEN (x[0] * y[2] + x[2] * y[0]) % q
        ELSE LET i == c + 1 IN ((x[i] + x[i + 1]) * y[i] + x[i] * y[i + 1]) % q]

JointInputs == << <<0, 1, 3, 2>>, <<1, 2, 0, 3>>, <<2, 3, 1, 0>>, <<3, 0, 2, 1>>,
                  <<0, 2, 3, 1>>, <<1, 3, 2, 0>> >>

AddParts(js, q) ==
    [i \in Parties(4) |-> [c \in 0..2 |->
        SumOver(Len(js), q, LAMBDA n : js[n + 1].parts[i][c])]]
\* check(): every receiver compares what it got with what the backup had.
Rep4CheckFails(js) == \E n \in DOMAIN js : js[n].send_hash # js[n].receive_hash

Rep4Joint(j, xs, ys) ==
    LET add(i, index) ==
            SumOver(Len(xs), j.q, LAMBDA k :
                LET a == get_addshares(xs[k + 1][i], ys[k + 1][i], j.q)
                IN  IF index = 4 THEN a[4] ELSE IF index = i THEN a[0]
                    ELSE IF index = (i - 1) % 4 THEN a[-1] ELSE 0)
    IN  [n \in 1..6 |->
            LET t == JointInputs[n]
                index == IF n > 4 THEN 4 ELSE n - 1
            IN  joint_input(j, n, t[1], t[2], t[3], t[4], [i \in Parties(4) |-> add(i, index)])]

\* Rep4::exchange: four inputs of adjacent parts and two of opposite ones.
Rep4DotProd(j, xs, ys) ==
    LET js == Rep4Joint(j, xs, ys)
    IN  [share |-> AddParts(js, j.q), aborted |-> Rep4CheckFails(js)]

\* Two parts drawn with others, the third sent to both neighbours.
Rep4Input(j, player, v) ==
    LET x0 == rep_prng(j, player, 0, 0)
        x2 == rep_prng(j, player, 2, 0)
        x1 == (v - x0 - x2) % j.q
        got(i) == Sent(j, 1, player, i, x1)
        part(i, c) ==
            CASE (i + c) % 4 = player -> x0
              [] (i + c) % 4 = (player + 2) % 4 -> x2
              [] (i + c) % 4 = (player + 1) % 4 -> got(i)
              [] OTHER -> 0
    IN  [share |-> [i \in Parties(4) |-> [c \in 0..2 |-> part(i, c)]],
         \* the neighbours of the input party compare hashes
         aborted |-> got((player + 1) % 4) # got((player - 1) % 4)]

\* The first part goes to the next party, the hash of the third part back.
Rep4Open(j, x) ==
    LET right(i) == Sent(j, 1, (i - 1) % 4, i, x[(i - 1) % 4][0])
        left(i) == Sent(j, 2, (i + 1) % 4, i, x[(i + 1) % 4][2])
    IN  [values |-> [i \in Parties(4) |-> (Total(x[i], j.q) + right(i)) % j.q],
         aborted |-> \E i \in Parties(4) : right(i) # left(i)]

BigGap(k) == k <= 1     \* stands for k <= N_BITS - 40

\* The quotient of a masked number: the upper part of the opened sum less
\* that of the mask, corrected by the exclusive or of their top bits.
Rep4Quotient(j, k, m, tops, uppers, product) ==
    [i \in Parties(4) |-> [p \in 0..2 |->
        (uppers[2][i][p] - uppers[1][i][p]
            + IF BigGap(k) THEN 0
              ELSE (tops[1][i][p] + tops[2][i][p] - 2 * product[i][p]) * 2^(k - m)) % j.q]]

SingleParts(ts, q) == [t \in 1..2 |-> AddParts(<<ts[t]>>, q)]
Rep4TruncEnd(j, k, m, tops, uppers, joint) ==
    [share |-> Rep4Quotient(j, k, m, SingleParts(tops, j.q), SingleParts(uppers, j.q), AddParts(joint, j.q)),
     unchecked |-> Rep4CheckFails(uppers \o IF BigGap(k) THEN <<>> ELSE tops \o joint)]
Rep4TruncJoint(j, k, m, tops, uppers) ==
    Rep4TruncEnd(j, k, m, tops, uppers,
                 Rep4Joint(j, <<AddParts(<<tops[1]>>, j.q)>>, <<AddParts(<<tops[2]>>, j.q)>>))

\* Parties 0 and 1 know the mask r, parties 2 and 3 the masked number c.
MaskInput(j, n, v) == joint_input(j, n, 0, 1, 3, 2, [i \in Parties(4) |-> v])
SumInput(j, n, v) == joint_input(j, n, 2, 3, 1, 0, [i \in Parties(4) |-> IF i >= 2 THEN v[i] ELSE 0])
UpperPart(v, k, m) == IF BigGap(k) THEN v \div 2^m ELSE upper(v, k, m)
Rep4TruncMasked(j, k, m, r, c) ==
    Rep4TruncJoint(j, k, m,
        <<MaskInput(j, 8, msb(r, k)), SumInput(j, 10, [i \in 2..3 |-> msb(c[i], k)])>>,
        <<MaskInput(j, 9, UpperPart(r, k, m)), SumInput(j, 11, [i \in 2..3 |-> UpperPart(c[i], k, m)])>>)

\* Parties 2 and 3 lack one part of x + r: one of 0 and 1 sends it, the other a hash.
LackingPart(j, x, i, r) ==
    (x[i][IF i = 0 THEN 1 ELSE 0] + x[i][IF i = 0 THEN 2 ELSE 1] + r) % j.q
Rep4TruncResult(end, r, differ) ==
    [share |-> end.share, aborted |-> differ \/ end.unchecked, mask |-> r]
Rep4TruncWith(j, x, k, m, r, got, hashes) ==
    Rep4TruncResult(
        Rep4TruncMasked(j, k, m, r,
            [i \in 2..3 |-> (got[i] + IF i = 2 THEN x[2][1] + x[2][2] ELSE x[3][1] + x[3][0]) % j.q]),
        r, got # hashes)
Rep4TruncFrom(j, x, k, m, r) ==
    Rep4TruncWith(j, x, k, m, r,
                  [i \in 2..3 |-> Sent(j, 7, i - 2, i, LackingPart(j, x, i - 2, r))],
                  [i \in 2..3 |-> Sent(j, 7, 3 - i, i, LackingPart(j, x, 3 - i, r))])
\* Parties 0 and 1 know the mask r, parties 2 and 3 learn x + r.
Rep4TruncPr(j, x, k, m) ==
    Rep4TruncFrom(j, x, k, m, (Prng(j.q, j.s, 1, 7) + Prng(j.q, j.s, 2, 7)) % j.q)

\* Rep4::split: two binary sharings, of the sums that two pairs of parties know.
Rep4Split(j, x, n_bits) ==
    LET i0(i) == IF i \in {0, 2} THEN 1 ELSE 0
        value(i) == (x[i][i0(i)] + x[i][i0(i) + 1]) % j.q
        bits == [j EXCEPT !.q = 2]
        joint(b, g) ==
            LET v == [i \in Parties(4) |-> (value(i) \div 2^b) % 2]
            IN  IF g = 0 THEN joint_input(bits, b, 0, 1, 3, 2, v)
                ELSE joint_input(bits, n_bits + b, 2, 3, 1, 0, v)
    IN  [b \in 0..(n_bits - 1) |-> [g \in 0..1 |-> AddParts(<<joint(b, g)>>, 2)]]

(***************************************************************************)
(* Shamir sharing among n parties with threshold t.                        *)
(***************************************************************************)
T(j) == Threshold(j.n)

MulPlayers(j) == 2 * T(j) + 1

\* ShamirInput::add_mine: fresh randomness, one share sent to every party.
ShamirDeal(j, from, v, id) ==
    LET x == ShamirShare(v, j.n, T(j), j.q, j.s, id)
    IN  [i \in Parties(j.n) |-> Sent(j, id, from, i, x[i][0])]

\* The products of the first 2t + 1 shares are dealt again and added.
ShamirDotProd(j, xs, ys) ==
    LET product(i) == SumOver(Len(xs), j.q, LAMBDA k : xs[k + 1][i][0] * ys[k + 1][i][0])
        mine(i) == (product(i) * ShamirRecFactor(i, MulPlayers(j), 0, MulPlayers(j), j.q)) % j.q
        dealt == [i \in Parties(2 * T(j) + 1) |-> ShamirDeal(j, i, mine(i), 1 + i)]
    IN  [i \in Parties(j.n) |-> [c \in {0} |->
            SumOver(2 * T(j) + 1, j.q, LAMBDA k : dealt[k][i])]]

\* ShamirMC: t + 1 shares, from the party itself on.
ShamirOpen(j, x) ==
    [i \in Parties(j.n) |-> SumOver(T(j) + 1, j.q, LAMBDA k :
        LET p == (i + k) % j.n
        IN  Sent(j, 1, p, i, x[p][0]) * ShamirRecFactor(p, j.n, i, T(j) + 1, j.q))]

\* MaliciousShamirMC::reconstruct from 2t + 1 shares, with every longer set.
Interpolated(j, i, shares, len) ==
    SumOver(len, j.q, LAMBDA k :
        shares[k] * ShamirRecFactor((i + k) % j.n, j.n, i, len, j.q))

ReconstructFails(j, i, shares) ==
    \E len \in (T(j) + 2)..(2 * T(j) + 1) :
        Interpolated(j, i, shares, len) # Interpolated(j, i, shares, T(j) + 1)

MaliciousShamirOpen(j, x) ==
    LET shares(i) == [k \in 0..(2 * T(j)) |-> Sent(j, 1, (i + k) % j.n, i, x[(i + k) % j.n][0])]
    IN  [values |-> [i \in Parties(j.n) |-> Interpolated(j, i, shares(i), T(j) + 1)],
         aborted |-> \E i \in Parties(j.n) : ReconstructFails(j, i, shares(i))]

\* Mutant: the same numerator in every factor.
hyper_shifted(j, i, k) ==
    ProductOver(j.n, j.q, LAMBDA l :
        IF l = k THEN 1 ELSE (j.n + i) * InverseMod((k - l) % j.q, j.q))

\* buffer_random: n - t combinations of one random sharing by every party.
hyper(j, i, k) ==
    ProductOver(j.n, j.q, LAMBDA l :
        IF l = k THEN 1 ELSE (j.n + i - l) * InverseMod((k - l) % j.q, j.q))
ShamirRandoms(j) ==
    LET inputs == [p \in Parties(j.n) |-> ShamirDeal(j, p, Prng(j.q, j.s, 40, p), 41 + p)]
    IN  [i \in 0..(j.n - T(j) - 1) |-> [p \in Parties(j.n) |-> [c \in {0} |->
            SumOver(j.n, j.q, LAMBDA k : hyper(j, i, k) * inputs[k][p])]]]

(***************************************************************************)
(* Additive sharing with MACs: party i knows the part alpha[i] of the key. *)
(***************************************************************************)
Alpha(j) == AdditiveShare(j.key, j.n, j.q, j.s, 50)
\* T::constant: party 0 has the value, every party its part of the MAC.
Constant(j, i, v) == [share |-> [c \in {0} |-> IF i = 0 THEN v ELSE 0],
                      mac |-> [c \in {0} |-> (Alpha(j)[i][0] * v) % j.q]]
Combine(j, f, x, g, y) ==
    [share |-> [c \in {0} |-> (f * x.share[0] + g * y.share[0]) % j.q],
     mac |-> [c \in {0} |-> (f * x.mac[0] + g * y.mac[0]) % j.q]]
SpdzOpen(x, n, q) == SumOver(n, q, LAMBDA i : x[i].share[0])

BeaverTerms(j, i, triple, e, d) == Combine(j, e, triple[2][i], d, triple[1][i])

BeaverMul(j, x, y, triple) ==
    LET e == SpdzOpen([i \in Parties(j.n) |-> Combine(j, 1, x[i], -1, triple[1][i])], j.n, j.q)
        d == SpdzOpen([i \in Parties(j.n) |-> Combine(j, 1, y[i], -1, triple[2][i])], j.n, j.q)
    IN  [i \in Parties(j.n) |->
            Combine(j, 1, Combine(j, 1, triple[3][i], 1, BeaverTerms(j, i, triple, e, d)),
                    1, Constant(j, i, (e * d) % j.q))]

\* Input<T>: the party broadcasts its input less a mask only it knows.
SpdzInput(j, v, mask, maskShare) ==
    [i \in Parties(j.n) |-> Combine(j, 1, maskShare[i], 1, Constant(j, i, (v - mask) % j.q))]

\* PrivateOutput: the value plus a mask is opened, the party takes it off.
SpdzPrivateOutput(j, x, mask, maskShare) ==
    (SpdzOpen([i \in Parties(j.n) |-> Combine(j, 1, x[i], 1, maskShare[i])], j.n, j.q) - mask) % j.q

(***************************************************************************)
(* SPDZ-wise over three replicated parties: value and MAC are multiplied.  *)
(***************************************************************************)
PartsOf(x, field) == [i \in DOMAIN x |-> IF field = "share" THEN x[i].share ELSE x[i].mac]
WiseMul(j, x, y) ==
    WithMac(Rep3Mul(j, PartsOf(x, "share"), PartsOf(y, "share"), 1),
            Rep3Mul(j, PartsOf(x, "mac"), PartsOf(y, "share"), 2))

\* SpdzWiseInput: the MAC of an input is its product with the key.
WiseInput(j, player, v, mac_key) ==
    LET x == Rep3Input(j, player, v, 1) IN WithMac(x, Rep3Mul(j, x, mac_key, 2))

WiseVerdict(zero, q, lucky) ==
    [aborted |-> HashCheckFails([i \in Parties(3) |-> CheckForHash(i, zero[i], 0, q)]), lucky |-> lucky]
\* lucky: a random number that the detection rests on is zero.
WiseZero(j, t, r, coefficients) ==
    WiseVerdict(Rep3Mul(j, t, r, 74), j.q,
                \/ Reconstruct("rep3", r, j.q) = 0
                \/ \E k \in DOMAIN coefficients : \E i \in Parties(3) : coefficients[k][i][0] = 0)
WiseDifference(j, u, wkey) ==
    [i \in Parties(3) |-> [c \in 0..1 |-> (u[i][c] - wkey[i][c]) % j.q]]
WiseCombined(j, field, results, coefficients, id) ==
    Rep3DotProd(j, [k \in DOMAIN results |-> PartsOf(results[k], field)], coefficients, id)
WiseCheckWith(j, mac_key, results, coefficients) ==
    WiseZero(j,
        WiseDifference(j, WiseCombined(j, "mac", results, coefficients, 71),
                       Rep3Mul(j, mac_key, WiseCombined(j, "share", results, coefficients, 70), 72)),
        Rep3Random(j, 73), coefficients)
WiseCheckHonest(j, mac_key, results) ==
    WiseCheckWith(j, mac_key, results, [k \in DOMAIN results |-> Rep3Random(j, 60 + k)])
\* SpdzWise::check of the results: a random combination of their MACs less
\* the key times that of their values, times a random number, must be zero.
WiseCheck(j, mac_key, results) == WiseCheckHonest([j EXCEPT !.bad = <<>>], mac_key, results)

-----------------------------------------------------------------------------
NotYet == <<>>
Ring == 2^RingBits
Job(alg, scheme, n, q, x, y, s, bad) ==
    [alg |-> alg, scheme |-> scheme, n |-> n, q |-> q, x |-> x, y |-> y, s |-> s, bad |-> bad,
     d |-> 1, key |-> 3, k |-> RingBits - 2, m |-> 1]
Jobs(alg, scheme, n, q, bads) ==
    {Job(alg, scheme, n, q, x, y, s, bad) : x \in Values, y \in Values, s \in Seeds, bad \in bads}
Bads(messages, n) == {<<>>} \cup {b \in messages \X Parties(n) \X Parties(n) : b[2] # b[3]}
Moduli == {Field, Ring}

Rep3Jobs ==
    UNION {Jobs(alg, "rep3", 3, q, {<<>>}) : alg \in {"mul", "dotprod"}, q \in Moduli}
    \cup UNION {Jobs(alg, "rep3", 3, Field, Bads(1..2, 3)) : alg \in {"open", "comm_open", "output"}}
    \cup Jobs("input", "rep3", 3, Ring, {<<>>})
Rep4Jobs ==
    UNION {Jobs("dotprod", "rep4", 4, q, Bads(1..6, 4)) : q \in {Ring}}
    \cup UNION {Jobs(alg, "rep4", 4, Field, Bads(1..2, 4)) : alg \in {"input", "open"}}
    \cup Jobs("split", "rep4", 4, Ring, {<<>>})
ShamirJobs ==
    UNION {Jobs("dotprod", "shamir", n, Field4, {<<>>}) : n \in 3..5}
    \cup {Job("randoms", "shamir", n, Field4, 0, 0, s, <<>>) : n \in 3..5, s \in Seeds}
    \cup UNION {Jobs("open", "shamir", n, Field4, {<<>>}) : n \in 3..5}
    \cup UNION {Jobs("malicious_open", "shamir", n, Field4, Bads({1}, n)) : n \in 3..5}
SpdzJobs ==
    UNION {Jobs(alg, "spdz", n, q, {<<>>}) : alg \in {"mul", "input", "output"}, n \in 2..3, q \in Moduli}
WiseJobs ==
    UNION {Jobs(alg, "wise_rep3", 3, Field, Bads(1..2, 3)) : alg \in {"mul", "input"}}
\* Numbers to be truncated are below 2^k.
TruncJobs ==
    {[Job("trunc_pr", scheme, IF scheme = "rep3" THEN 3 ELSE 4, Ring, x, 0, s, bad)
        EXCEPT !.k = k, !.m = m] :
        scheme \in {"rep3", "rep4"}, s \in {5 * z : z \in 0..6}, k \in 1..(RingBits - 1), m \in 0..1,
        x \in 0..(2^(RingBits - 1) - 1),
        bad \in {<<>>}}
TruncBadJobs ==
    {[Job("trunc_pr", "rep4", 4, Ring, x, 0, s, bad) EXCEPT !.k = 2] :
        x \in 2..3, s \in Seeds, bad \in Bads(1..11, 4)}
AllJobs == Rep3Jobs \cup Rep4Jobs \cup ShamirJobs \cup SpdzJobs \cup WiseJobs
           \cup {j \in TruncJobs : j.m < j.k /\ j.x < 2^j.k} \cup TruncBadJobs

Input1(j, v, id) == MakeShare(j.scheme, v, j.n, j.q, j.key, j.s, id)
TripleOf(j, v) == [i \in 1..3 |-> Input1(j, v[i], 80 + 2 * i)]
WithProduct(a, b, q) == <<a, b, (a * b) % q>>
Triple(j) == TripleOf(j, WithProduct(Prng(j.q, j.s, 80, 0), Prng(j.q, j.s, 81, 0), j.q))
Mask(j) == Prng(j.q, j.s, 90, 0)
WiseKey(j) == WiseRep3Parts(RandomizeToSum(j.key, 3, j.q, j.s, 92))
Player(j) == j.y % j.n

\* Two products at once for the dot product, with the second factor fixed.
TwoInputs(j, v, id) == [i \in 1..2 |-> Input1(j, v[i], id + 2 * i)]
Xs(j) == TwoInputs(j, <<j.x, 2>>, 98)
Ys(j) == TwoInputs(j, <<j.y, 3>>, 102)

Plain(res) == <<res, FALSE>>
Checked(o) == <<o.values, o.aborted>>
CheckedShare(o) == <<o.share, o.aborted>>
HashesCompared(v) == <<v, HashCheckFails(v)>>
Rep3Result(j, x, y) ==
    CASE j.alg = "mul" -> Plain(Rep3Mul(j, x, y, 1))
      [] j.alg = "dotprod" -> Plain(Rep3DotProd(j, Xs(j), Ys(j), 1))
      [] j.alg = "input" -> Plain(Rep3Input(j, Player(j), j.x, 1))
      [] j.alg = "open" -> HashesCompared(Rep3Open(j, x, 1))
      [] j.alg = "comm_open" -> Checked(CommOpen(j, x, 1))
      [] j.alg = "output" -> Checked(Rep3PrivateOutput(j, x, Player(j), 1))
      [] j.alg = "trunc_pr" -> Plain(Rep3TruncPr(j, x, j.k, j.m))
Masked(o) == <<o.share, o.aborted, o.mask>>
Rep4Result(j, x) ==
    CASE j.alg = "dotprod" -> CheckedShare(Rep4DotProd(j, Xs(j), Ys(j)))
      [] j.alg = "input" -> CheckedShare(Rep4Input(j, Player(j), j.x))
      [] j.alg = "open" -> Checked(Rep4Open(j, x))
      [] j.alg = "split" -> Plain(Rep4Split(j, x, RingBits))
      [] j.alg = "trunc_pr" -> Masked(Rep4TruncPr(j, x, j.k, j.m))
ShamirResult(j, x) ==
    CASE j.alg = "dotprod" -> Plain(ShamirDotProd(j, Xs(j), Ys(j)))
      [] j.alg = "randoms" -> Plain(ShamirRandoms(j))
      [] j.alg = "open" -> Plain(ShamirOpen(j, x))
      [] j.alg = "malicious_open" -> Checked(MaliciousShamirOpen(j, x))
SpdzResult(j, x, y, mask) ==
    CASE j.alg = "mul" -> Plain(BeaverMul(j, x, y, Triple(j)))
      [] j.alg = "input" -> Plain(SpdzInput(j, j.x, mask, Input1(j, mask, 110)))
      [] j.alg = "output" -> Plain([i \in {0} |-> SpdzPrivateOutput(j, x, mask, Input1(j, mask, 110))])
WiseProduct(j, x, y, key) == IF j.alg = "mul" THEN WiseMul(j, x, y) ELSE WiseInput(j, Player(j), j.x, key)
WiseChecked(z, o) == <<z, o.aborted, o.lucky>>
WiseResult(j, z, key) == WiseChecked(z, WiseCheck(j, key, <<z>>))

X == Input1(job, job.x, 100)
Y == Input1(job, job.y, 104)
Init == job \in AllJobs /\ out = NotYet
With(scheme) == job.scheme = scheme /\ out = NotYet /\ UNCHANGED job
Three == With("rep3") /\ out' = Rep3Result(job, X, Y)
Four == With("rep4") /\ out' = Rep4Result(job, X)
Polynomial == With("shamir") /\ out' = ShamirResult(job, X)
WithTriples == With("spdz") /\ out' = SpdzResult(job, X, Y, Mask(job))
WithMacs == /\ With("wise_rep3")
            /\ out' = WiseResult(job, WiseProduct(job, X, Y, WiseKey(job)), WiseKey(job))
Next == Three \/ Four \/ Polynomial \/ WithTriples \/ WithMacs
Spec == Init /\ [][Next]_<<job, out>>

-----------------------------------------------------------------------------
Done == out # NotYet
Honest == job.bad = <<>>
SharesOf(v) == Shares(job.scheme, out[1], v, job.q, job.key)
AllOpen(v) == \A i \in DOMAIN out[1] : out[1][i] = v % job.q

\* A multiplication or dot product gives every party its share of the product,
\* with the copies and the MAC that the sharing has, and no check fails.
ProductsCorrect ==
    Done /\ Honest /\ job.alg \in {"mul", "dotprod"} =>
        /\ SharesOf(job.x * job.y + IF job.alg = "dotprod" THEN 6 ELSE 0)
        /\ ~out[2]

\* What a party puts in is shared among all, what is opened, to all or to one
\* party, is the secret, and the checks of the protocol accept.
InAndOut ==
    Done /\ Honest =>
        /\ job.alg = "input" => SharesOf(job.x)
        /\ job.alg \in {"open", "comm_open", "malicious_open", "output"} => AllOpen(job.x)
        /\ ~out[2]

\* If one message is altered on its way, some party stops, or all parties have
\* the right result: by the hashes of the opened values among three parties, by
\* the hash of the backup among four, by interpolating through more shares than
\* needed with Shamir, by the MACs with SPDZ-wise (unless a random number or a
\* part of one that the check rests on is zero).
AlteredDetected ==
    Done /\ ~Honest /\ ~out[2] =>
        CASE job.alg \in {"open", "comm_open", "malicious_open", "output"} -> AllOpen(job.x)
          [] job.scheme = "rep4" /\ job.alg = "input" -> SharesOf(job.x)
          [] job.scheme = "rep4" /\ job.alg = "dotprod" -> SharesOf(job.x * job.y + 6)
          [] job.scheme = "wise_rep3" /\ job.alg = "mul" -> SharesOf(job.x * job.y) \/ out[3]
          [] OTHER -> TRUE

\* Probabilistic truncation of a number of k bits gives the quotient or the next
\* number, whatever the mask.  With a gap between k and the size of the ring
\* the code saves the overflow: that needs x and the mask not to wrap around.
Truncated ==
    Done /\ job.alg = "trunc_pr" /\ ~out[2] =>
        LET v == job.x \div 2^job.m
            saved == job.scheme = "rep4" /\ BigGap(job.k)
        IN  \/ Shares(job.scheme, out[1], v, job.q, 0)
            \/ Shares(job.scheme, out[1], v + 1, job.q, 0)
            \/ saved /\ job.x + out[3] >= Ring

\* The binary sharings of split are of two numbers whose sum is the secret.
SplitAddsUp ==
    Done /\ job.alg = "split" =>
        LET bit(b, g) == ValueOf("rep4", out[1][b][g], 2)
            number(g) == SumOver(RingBits, Ring, LAMBDA b : bit(b, g) * 2^b)
        IN  /\ (number(0) + number(1)) % Ring = job.x % Ring
            /\ \A b \in 0..(RingBits - 1) : \A g \in 0..1 : Replicated("rep4", out[1][b][g])

\* All random numbers of Shamir sharing are sharings of degree t, and they are
\* random whichever t parties choose their contributions badly: those of the
\* others are determined by the results.
RandomsSound ==
    Done /\ job.alg = "randoms" =>
        /\ \A r \in DOMAIN out[1] :
                LET o == ShamirOpen(job, out[1][r]) IN \A i, k \in DOMAIN o : o[i] = o[k]
        /\ LET results == 0..(job.n - T(job) - 1)
               matrix == [r \in results |-> [k \in Parties(job.n) |-> hyper(job, r, k)]]
           IN  \A others \in kSubset(job.n - T(job), Parties(job.n)) :
                    \A v \in [others -> 0..(job.q - 1)] :
                        (\A r \in results :
                            SumOver(job.n, job.q, LAMBDA k :
                                IF k \in others THEN matrix[r][k] * v[k] ELSE 0) = 0)
                        => \A k \in others : v[k] = 0
=============================================================================
