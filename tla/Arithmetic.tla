----------------------------- MODULE Arithmetic -----------------------------
(***************************************************************************)
(* The numbers all protocols compute with (Math/): integers modulo 2^K and *)
(* residues modulo a prime in Montgomery form, both held in machine words, *)
(* and the two binary fields, held as words of bits.                       *)
(*                                                                         *)
(* A word has WordBits bits here instead of 64; a number of several words  *)
(* is a sequence, lowest word first, and every word operation keeps the    *)
(* width and the carries of the code.  The binary fields keep their real   *)
(* size: an element is the set of positions of its one bits.  A job is one *)
(* operation on given operands; one step computes what the code returns.   *)
(***************************************************************************)
EXTENDS Integers, Sequences, FiniteSets, SequencesExt, Computation

CONSTANTS WordBits,   \* bits of a machine word (64)
          RingSizes,  \* the K of Z2<K>
          Primes      \* moduli in Montgomery form

Word == 2^WordBits

Value(x) == FoldRight(LAMBDA w, acc : w + Word * acc, x, 0)
Words(v, n) == [i \in 1..n |-> (v \div Word^(i - 1)) % Word]
ZeroWords(n) == [i \in 1..n |-> 0]
\* A word array seen from word i on; writing n words of it back.
WordsFrom(x, i) == SubSeq(x, i, Len(x))
PutWords(x, i, part) == [j \in 1..Len(x) |-> IF j >= i /\ j < i + Len(part) THEN part[j - i + 1] ELSE x[j]]
PadWords(x, n) == [i \in 1..n |-> IF i <= Len(x) THEN x[i] ELSE 0]

(***************************************************************************)
(* Words with carries (Math/mpn_fixed.h).                                  *)
(***************************************************************************)
mpn_add_n(x, y) ==
    FoldLeftDomain(LAMBDA acc, i : LET s == x[i] + y[i] + acc.carry
                                   IN [res |-> Append(acc.res, s % Word), carry |-> s \div Word],
                   [res |-> <<>>, carry |-> 0], x)
mpn_sub_n(x, y) ==
    FoldLeftDomain(LAMBDA acc, i : LET s == (x[i] - y[i]) - acc.carry
                                   IN [res |-> Append(acc.res, s % Word), carry |-> IF s < 0 THEN 1 ELSE 0],
                   [res |-> <<>>, carry |-> 0], x)

\* res + y * x in Len(res) words: low halves first, high halves one word up.
mpn_addmul_1_fixed(res, y, x) ==
    LET n == Len(res)
        lower == [j \in 1..n |-> IF j <= Len(y) THEN (x * y[j]) % Word ELSE 0]
        higher == [j \in 1..(n - 1) |-> IF j <= Len(y) THEN (x * y[j]) \div Word ELSE 0]
        low == mpn_add_n(res, lower).res
    IN  <<low[1]>> \o mpn_add_n(WordsFrom(low, 2), higher).res

mpn_mul_fixed(l, x, y) ==
    LET m == Len(y)
        Row(acc, i) == PutWords(acc, i, mpn_addmul_1_fixed(SubSeq(acc, i, i + m), y, x[i]))
    IN  SubSeq(FoldLeftDomain(Row, ZeroWords(Len(x) + m + 2), x), 1, l)

mpn_lshift(x, n) == Words(Value(x) * 2^n, Len(x))
mpn_rshift(x, n) == Words(Value(x) \div 2^n, Len(x))
mpn_less(x, y) == Value(x) < Value(y)

(***************************************************************************)
(* Z2<K> (Math/Z2k.h, Z2k.hpp).                                            *)
(***************************************************************************)
N_WORDS(k) == (k + WordBits - 1) \div WordBits
UPPER_MASK(k) == 2^(((k - 1) % WordBits) + 1)
normalize(k, a) == [a EXCEPT ![N_WORDS(k)] = @ % UPPER_MASK(k)]
Ring(k, v) == Words(v % 2^k, N_WORDS(k))

RingAdd(k, a, b) == normalize(k, mpn_add_n(a, b).res)
RingSub(k, a, b) == normalize(k, mpn_sub_n(a, b).res)
RingMul(k, a, b) == normalize(k, mpn_mul_fixed(N_WORDS(k), a, b))

\* Z2<max(k, l)>: the operands keep their own widths.
RingMulMixed(k, a, l, b) == LET n == IF k > l THEN k ELSE l
                            IN normalize(n, mpn_mul_fixed(N_WORDS(n), a, b))

ShiftLeft(k, a, i) ==
    LET n == N_WORDS(k)
        words == i \div WordBits
        moved == [j \in 1..n |-> IF j > words THEN a[j - words] ELSE 0]
    IN  normalize(k, mpn_lshift(moved, i % WordBits))
ShiftRight(k, a, i) ==
    LET n == N_WORDS(k)
        words == i \div WordBits
        moved == [j \in 1..n |-> IF j + words <= n THEN a[j + words] ELSE 0]
    IN  mpn_rshift(moved, i % WordBits)
get_bit(a, i) == (a[i \div WordBits + 1] \div 2^(i % WordBits)) % 2

\* Bit by bit: a wrong bit i of the product is mended by adding 2^i.
RingInvert(k, a) ==
    FoldLeft(LAMBDA res, i :
               LET wrong == get_bit(RingSub(k, Ring(k, 1), RingMul(k, a, res)), i)
               IN  RingAdd(k, res, ShiftLeft(k, Ring(k, wrong), i)),
             Ring(k, 1), [i \in 1..k |-> i - 1])
RingSqrRoot(k, a) ==
    FoldLeft(LAMBDA res, i :
               LET wrong == get_bit(RingSub(k, a, RingMul(k, res, res)), i + 1)
               IN  RingAdd(k, res, ShiftLeft(k, Ring(k, wrong), i)),
             Ring(k, 1), [i \in 1..(k - 1) |-> i - 1])
\* From a bigint: its magnitude, truncated to the words, then negated.
RingOf(k, v) ==
    LET magnitude == Words(IF v < 0 THEN -v ELSE v, N_WORDS(k))
    IN  normalize(k, IF v < 0 THEN RingSub(k, Ring(k, 0), magnitude) ELSE magnitude)

(***************************************************************************)
(* SignedZ2<K>: the same words read as two's complement.                   *)
(***************************************************************************)
negative(k, a) == (a[N_WORDS(k)] \div 2^((k - 1) % WordBits)) % 2 = 1
SignedValue(k, a) == Value(a) - (IF negative(k, a) THEN 2^k ELSE 0)

\* Widening from l to k bits fills the rest of the top word and the words
\* above with ones.
extend(k, l, b) ==
    LET copied == PadWords(b, N_WORDS(k))
        top == N_WORDS(l)
        filled == [j \in 1..N_WORDS(k) |->
                     IF j > top THEN Word - 1
                     ELSE IF j = top THEN (copied[j] % UPPER_MASK(l)) + (Word - UPPER_MASK(l))
                     ELSE copied[j]]
    IN  normalize(k, IF l < k /\ negative(l, b) THEN filled ELSE copied)
SignedLess(k, a, b) == negative(k, RingSub(k, a, b))

(***************************************************************************)
(* Montgomery form (Math/Zp_Data.h, modp.hpp): x is held as x * R mod p    *)
(* with R one word power above p.                                          *)
(***************************************************************************)
ModInverse(x, n) == CHOOSE y \in 0..(n - 1) : (x * y) % n = 1
Zp_Data(p) ==
    LET t == CHOOSE t \in 1..4 : p < Word^t /\ (t = 1 \/ p >= Word^(t - 1))
        r == Word^t
    IN  [pr |-> p, t |-> t, prA |-> Words(p, t + 1),
         pi |-> (r - ModInverse(p, r)) % Word,
         R |-> Words(r % p, t),
         R2 |-> Words(((r % p) * (r % p)) % p, t),
         R3 |-> Words(((((r % p) * (r % p)) % p) * (r % p)) % p, t)]

\* One row per word of x: u makes the lowest word zero.
Mont_Row(D, ans, added, i, u) ==
    PutWords(added, i, mpn_addmul_1_fixed(SubSeq(added, i, i + D.t + 1), D.prA, u))
Mont_Rows(D, x, y) ==
    FoldLeftDomain(LAMBDA ans, i :
            Mont_Row(D, ans, PutWords(ans, i, mpn_addmul_1_fixed(SubSeq(ans, i, i + D.t), y, x[i])), i,
                     ((ans[i] + x[i] * y[1]) * D.pi) % Word),
        ZeroWords(2 * D.t + 1), x)
\* Mutant: the last subtraction is left out.
Mont_Below_no_subtract(D, upper) == SubSeq(upper, 1, D.t)
\* The upper half, less p once if it is not below p.
Mont_Below(D, upper) ==
    IF mpn_less(upper, D.prA) THEN SubSeq(upper, 1, D.t)
    ELSE mpn_sub_n(SubSeq(upper, 1, D.t), SubSeq(D.prA, 1, D.t)).res
Mont_Mult(D, x, y) == Mont_Below(D, SubSeq(Mont_Rows(D, x, y), D.t + 1, 2 * D.t + 1))

prT(D) == SubSeq(D.prA, 1, D.t)
FieldAdd(D, x, y) ==
    LET sum == mpn_add_n(x, y)
    IN  IF sum.carry # 0 \/ ~mpn_less(sum.res, prT(D)) THEN mpn_sub_n(sum.res, prT(D)).res ELSE sum.res
FieldSub(D, x, y) ==
    LET diff == mpn_sub_n(x, y)
    IN  IF diff.carry # 0 THEN mpn_add_n(diff.res, prT(D)).res ELSE diff.res
Negate(D, x) == IF x = ZeroWords(D.t) THEN x ELSE mpn_sub_n(prT(D), x).res
assignOne(D) == D.R
\* The greatest common divisor algorithm gives the inverse of x * R; R3
\* brings it back to Montgomery form.
Inv(D, x) == Mont_Mult(D, Words(ModInverse(Value(x), D.pr), D.t), D.R3)

\* Bits of the exponent from the lowest; exponents 0 and 1 apart.
Power(D, x, exp) ==
    LET Bit(e, i) == (e \div 2^i) % 2
        Step(acc, i) == [ans |-> IF Bit(exp, i) = 1 THEN Mont_Mult(D, acc.ans, acc.t) ELSE acc.ans,
                         t |-> Mont_Mult(D, acc.t, acc.t)]
    IN  CASE exp = 1 -> x
          [] exp = 0 -> assignOne(D)
          [] OTHER -> FoldLeft(Step, [ans |-> assignOne(D), t |-> x], <<0, 1, 2, 3, 4>>).ans

to_bigint(D, x) == Value(Mont_Mult(D, x, Words(1, D.t)))
\* A bigint of any size and sign: % keeps the sign of the dividend.
to_modp(D, v) ==
    LET size == (IF v < 0 THEN -v ELSE v) % D.pr
        x == IF v < 0 THEN mpn_sub_n(prT(D), Words(size, D.t)).res ELSE Words(size, D.t)
    IN  CASE v = 0 -> ZeroWords(D.t)
          [] v = 1 -> assignOne(D)
          [] OTHER -> Mont_Mult(D, x, D.R2)
\* An int: one word is reduced by the machine's unsigned remainder.
to_modp_int(D, v) ==
    IF D.t = 1 THEN Mont_Mult(D, <<(IF v >= 0 THEN v ELSE (D.pr + v) % Word) % D.pr>>, D.R2)
    ELSE to_modp(D, IF v >= 0 THEN v ELSE D.pr + v)
\* What is written for people: centred around zero.
output(D, x) == LET te == to_bigint(D, x) IN IF te < D.pr \div 2 THEN te ELSE te - D.pr

power_of_two(D, exp) == to_modp(D, 2^exp)
FieldShiftLeft(D, x, n) == IF n = 0 \/ x = ZeroWords(D.t) THEN x ELSE Mont_Mult(D, x, power_of_two(D, n))
FieldShiftRight(D, x, n) == IF n = 0 \/ x = ZeroWords(D.t) THEN x ELSE to_modp(D, to_bigint(D, x) \div 2^n)

PowerMod(x, e, p) == FoldLeft(LAMBDA acc, i : (acc * x) % p, 1, [i \in 1..e |-> i])
\* Shanks' algorithm; the non-residue n is drawn at random in the code.
sqrRootMod(a, p, n) ==
    LET e == CHOOSE e \in 1..10 : (p - 1) % 2^e = 0 /\ ((p - 1) \div 2^e) % 2 = 1
        q == (p - 1) \div 2^e
        x0 == PowerMod(a, (q - 1) \div 2, p)
        Order(b) == CHOOSE i \in 1..e : PowerMod(b, 2^i, p) = 1 /\ PowerMod(b, 2^(i - 1), p) # 1
        Step(s, i) == IF s.b = 1 THEN s
                      ELSE LET o == Order(s.b)
                               t == PowerMod(s.y, 2^(s.r - o - 1), p)
                               y == (t * t) % p
                           IN  [y |-> y, r |-> o, x |-> (s.x * t) % p, b |-> (s.b * y) % p]
        start == [y |-> PowerMod(n, q, p), r |-> e, x |-> (a * x0) % p, b |-> (((a * x0) % p) * x0) % p]
    IN  CASE a = 0 -> 0
          [] a # 0 /\ (p \div 2) % 2 = 1 -> PowerMod(a, (p + 1) \div 4, p)
          [] OTHER -> FoldLeft(Step, start, [i \in 1..e |-> i]).x
\* The odd one of the two roots.
FieldSqrRoot(D, x, n) ==
    LET root == sqrRootMod(to_bigint(D, x), D.pr, n)
    IN  to_modp(D, IF root % 2 = 1 THEN root ELSE D.pr - root)
\* From a signed ring number: short ones are converted directly.
FieldOfSigned(D, k, a) ==
    LET v == SignedValue(k, a)
        size == Words(IF v < 0 THEN -v ELSE v, D.t)
        x == IF v < 0 THEN mpn_sub_n(prT(D), size).res ELSE size
    IN  IF 2^k >= D.pr THEN to_modp(D, v) ELSE Mont_Mult(D, x, D.R2)

\* The value of n shared bits of field elements, row i times 2^i: the sum in
\* twice the words, reduced once (Math/Square.hpp).
SquareTo(D, rows) ==
    LET Row(sum, i) ==
          LET words == (i - 1) \div WordBits
              tmp == [j \in 1..(2 * D.t) |-> IF j > words /\ j <= words + D.t THEN rows[i][j - words] ELSE 0]
          IN  mpn_add_n(mpn_lshift(tmp, (i - 1) % WordBits), sum).res
    IN  Words(Value(FoldLeftDomain(Row, ZeroWords(2 * D.t), rows)) % D.pr, D.t)

(***************************************************************************)
(* Words of bits (Math/gf2n.cpp): shifts drop what leaves the word.        *)
(***************************************************************************)
Xor(a, b) == (a \ b) \union (b \ a)
Shl(a, i, width) == {n + i : n \in {m \in a : m + i < width}}
Shr(a, i) == {n - i : n \in {m \in a : m >= i}}
Low(a, n) == {m \in a : m < n}
\* Carry-less product of two words.
Clmul(a, b) == FoldSet(LAMBDA n, acc : Xor(acc, {m + n : m \in b}), {}, a)
Geq(a, b) == LET d == Xor(a, b) IN d = {} \/ Max(d) \in a

\* The table of 8-bit products, 16-bit products from it, 32-bit products
\* from those.
gf2n_short_table(a, b) == Clmul(a, b)
mul16(x, y) ==
    LET cross == Xor(gf2n_short_table(Low(x, 8), Shr(y, 8)), gf2n_short_table(Shr(x, 8), Low(y, 8)))
    IN  [c0 |-> Xor(gf2n_short_table(Low(x, 8), Low(y, 8)), Shl(Low(cross, 8), 8, 16)),
         c1 |-> Xor(gf2n_short_table(Shr(x, 8), Shr(y, 8)), Shr(cross, 8))]
Join16(c) == Xor(c.c0, Shl(c.c1, 16, 64))
Join32(low, high, up, down) ==
    Xor(Xor(low, Xor(Shl(up.c0, 16, 64), Shl(down.c0, 16, 64))),
        Shl(Xor(high, Xor(up.c1, down.c1)), 32, 64))
mul32(x, y) ==
    Join32(Join16(mul16(Low(x, 16), Low(y, 16))), Join16(mul16(Shr(x, 16), Shr(y, 16))),
           mul16(Low(x, 16), Shr(y, 16)), mul16(Shr(x, 16), Low(y, 16)))
\* Karatsuba: three products of halves.
Karatsuba(c, d, e) ==
    LET t == Xor(c, Xor(e, d)) IN [lo |-> Xor(c, Shl(t, 32, 64)), hi |-> Xor(d, Shr(t, 32))]
mul64(x, y) ==
    Karatsuba(mul32(Low(x, 32), Low(y, 32)), mul32(Shr(x, 32), Shr(y, 32)),
              mul32(Xor(Low(x, 32), Shr(x, 32)), Xor(Low(y, 32), Shr(y, 32))))

\* Each supported length with the middle exponents of its modulus.
fields_2 == [n \in {4, 8, 28, 40} |->
               CASE n = 4 -> <<1>> [] n = 8 -> <<4, 3, 1>> [] n = 28 -> <<1>> [] n = 40 -> <<20, 15, 10>>]
FieldModulus(n) == {n, 0} \union (IF n = 128 THEN {7, 2, 1} ELSE Range(fields_2[n]))

\* The upper word first, then what is above bit n until nothing is left.
reduce(n, xh, xl) ==
    LET Terms == <<0>> \o fields_2[n]
        first == FoldLeft(LAMBDA acc, t : Xor(acc, Shl(xh, 64 + t - n, 64)), xl, Terms)
        Fold(a, i) == LET hi == Shr(a, n)
                      IN  FoldLeft(LAMBDA acc, t : Xor(acc, Shl(hi, t, 64)), Low(a, n), Terms)
    IN  FoldLeft(Fold, first, [i \in 1..4 |-> i])

reduce_both(n, p) == reduce(n, p.hi, p.lo)
gf2n_short_mul(n, x, y) == reduce_both(n, mul64(x, y))

(***************************************************************************)
(* GF(2^128) (Math/gf2nlong.cpp): four products of 64-bit halves  *)
(* and a reduction in two parts, as the highest seven bits overlap.        *)
(***************************************************************************)
mul128(a, b) ==
    LET ll == Clmul(Low(a, 64), Low(b, 64))
        hh == Clmul(Shr(a, 64), Shr(b, 64))
        cross == Xor(Clmul(Low(a, 64), Shr(b, 64)), Clmul(Shr(a, 64), Low(b, 64)))
    IN  [lo |-> Xor(ll, Shl(cross, 64, 128)), hi |-> Xor(hh, Shr(cross, 64))]
reduce_pentanomial(xh, xl) ==
    LET upper == {m \in xh : m >= 64 + 57}
        lower == Low(xh, 64 + 57)
        tmp == FoldSet(LAMBDA t, acc : Xor(acc, Shr(upper, (128 - 7) - t)), {}, {0, 7, 2, 1})
        low == Xor(lower, Shr(tmp, 7))
        a == Xor(xl, Shl(tmp, 128 - 7, 128))
    IN  FoldSet(LAMBDA t, acc : Xor(acc, Shl(low, t, 128)), a, {0, 7, 2, 1})
gf2n_long_mul(x, y) == LET p == mul128(x, y) IN reduce_pentanomial(p.hi, p.lo)

(***************************************************************************)
(* Inverses in both fields: the binary greatest common divisor.  Dividing  *)
(* by x takes the modulus in when the number is odd.  (Not tried for       *)
(* GF(2^128), whose loop is the same on 129-bit words.)                    *)
(***************************************************************************)
BinaryInverse(n, a) ==
    LET mod == FieldModulus(n)
        Halve(b) == Shr(IF 0 \in b THEN Xor(b, mod) ELSE b, 1)
        RECURSIVE Strip(_, _)
        Strip(u, b) == IF u = {} \/ 0 \in u THEN [u |-> u, b |-> b] ELSE Strip(Shr(u, 1), Halve(b))
        RECURSIVE Loop(_, _, _, _)
        Loop(u, v, B, D) ==
          IF u = {} THEN D
          ELSE LET su == Strip(u, B)
                   sv == Strip(v, D)
               IN  IF Geq(su.u, sv.u) THEN Loop(Xor(su.u, sv.u), sv.u, Xor(su.b, sv.b), sv.b)
                   ELSE Loop(su.u, Xor(sv.u, su.u), su.b, Xor(sv.b, su.b))
    IN  IF a = {0} THEN a ELSE Loop(mod, a, {}, {0})

(***************************************************************************)
(* Bytes in GF(2^40): x of GF(2^8) becomes y^5 + 1.                        *)
(***************************************************************************)
expand_byte(b) ==
    LET Step(acc, i) == [a |-> IF i \in b THEN Xor(acc.a, acc.xp) ELSE acc.a,
                         xp |-> gf2n_short_mul(40, acc.xp, {5, 0})]
    IN  FoldLeft(Step, [a |-> {}, xp |-> {0}], [i \in 1..8 |-> i - 1]).a

collapse_byte(w) ==
    LET e(n) == {b \in {0} : n \in w}
        Sum(parts) == FoldSeq(Xor, {}, parts)
        a7 == e(35)
        a6 == Sum(<<e(30), a7>>)
        a5 == Sum(<<e(25), a7>>)
        a4 == Sum(<<e(20), a5, a6, a7>>)
        a3 == Sum(<<e(15), a7>>)
        a2 == Sum(<<e(10), a3, a6, a7>>)
        a1 == Sum(<<e(5), a3, a5, a7>>)
        a0 == Sum(<<e(0), a1, a2, a3, a4, a5, a6, a7>>)
        bits == <<a0, a1, a2, a3, a4, a5, a6, a7>>
    IN  {i \in 0..7 : bits[i + 1] # {}}

(***************************************************************************)
(* Jobs.  n is the ring size, the prime or the field degree.               *)
(***************************************************************************)
SampleElements(n) ==
    IF n = 4 THEN SUBSET (0..3)
    ELSE {{}, {0}, {1}, {n - 1}, {0, n - 1}, 0..(n - 1), {m \in 0..(n - 1) : m % 2 = 0},
          {m \in 0..(n - 1) : m % 3 = 1}, (n - 8)..(n - 1), {n - 2, n \div 2, 3}}
Degrees == {4, 8, 28, 40, 128}
Bytes == SUBSET (0..7)

Pairs(kind, n, X, Y) == [kind : {kind}, n : {n}, x : X, y : Y]
Singles(kind, n, X) == [kind : {kind}, n : {n}, x : X]
BitLen(p) == CHOOSE b \in 1..12 : 2^b > p /\ 2^(b - 1) <= p
SignedBits(v) == CHOOSE b \in 1..12 : -(2^(b - 1)) <= v /\ v < 2^(b - 1)
NonResidues(p) == {n \in 1..(p - 1) : \A y \in 1..(p - 1) : (y * y) % p # n}
SquareRows(D, x, y) == [i \in 1..BitLen(D.pr) |-> Words((x * i + y) % D.pr, D.t)]
BinaryMul(n, x, y) == IF n = 128 THEN gf2n_long_mul(x, y) ELSE gf2n_short_mul(n, x, y)

RingResult(n, a, b) ==
    [add |-> RingAdd(n, a, b), sub |-> RingSub(n, a, b), mul |-> RingMul(n, a, b),
     less |-> SignedLess(n, a, b),
     mixed |-> [l \in RingSizes |-> RingMulMixed(n, a, l, Ring(l, Value(b)))]]
RingOneResult(n, a) ==
    [left |-> [i \in 0..(n - 1) |-> ShiftLeft(n, a, i)], right |-> [i \in 0..(n - 1) |-> ShiftRight(n, a, i)],
     inverse |-> IF a[1] % 2 = 1 THEN RingInvert(n, a) ELSE NotYet,
     root |-> IF Value(a) % 8 = 1 THEN RingSqrRoot(n, a) ELSE NotYet,
     extended |-> [l \in RingSizes |-> extend(l, n, a)],
     integers |-> [v \in {Value(a), -Value(a), Value(a) - 2^(n + 1)} |-> RingOf(n, v)]]
PrimeResult(D, x, y) ==
    LET a == to_modp(D, x)
        b == to_modp(D, y)
    IN  [add |-> FieldAdd(D, a, b), sub |-> FieldSub(D, a, b), mul |-> Mont_Mult(D, a, b),
         square |-> SquareTo(D, SquareRows(D, x, y))]
PrimeOneResult(D, x) ==
    LET a == to_modp(D, x)
    IN  [neg |-> Negate(D, a), inverse |-> IF x = 0 THEN NotYet ELSE Inv(D, a),
         power |-> [e \in 0..20 |-> Power(D, a, e)],
         left |-> [i \in 0..4 |-> FieldShiftLeft(D, a, i)], right |-> [i \in 0..4 |-> FieldShiftRight(D, a, i)],
         ints |-> [v \in {x, x - D.pr} |-> to_modp_int(D, v)],
         bigints |-> [v \in {x - 2 * D.pr, x - D.pr, x, x + D.pr} |-> to_modp(D, v)],
         short |-> [v \in {x - (D.pr \div 2)} |-> LET k == SignedBits(v) IN FieldOfSigned(D, k, RingOf(k, v))],
         written |-> output(D, a),
         roots |-> [n \in NonResidues(D.pr) |-> IF \E y \in 1..(D.pr - 1) : (y * y) % D.pr = x
                                               THEN FieldSqrRoot(D, a, n) ELSE NotYet]]

BinaryResult(n, x, y) ==
    [product |-> BinaryMul(n, x, y),
     inverse |-> IF x = {} \/ n = 128 THEN {} ELSE BinaryInverse(n, x)]
ByteResult(a, b) == [a |-> a, b |-> b, back |-> collapse_byte(a)]

ArithmeticInit ==
    \/ \E n \in RingSizes : \/ Called("numbers", Pairs("ring", n, 0..(2^n - 1), 0..(2^n - 1)))
                           \/ Called("numbers", Singles("ring one", n, 0..(2^n - 1)))
    \/ \E n \in Primes : \/ Called("numbers", Pairs("prime", n, 0..(n - 1), 0..(n - 1)))
                        \/ Called("numbers", Singles("prime one", n, 0..(n - 1)))
    \/ \E n \in Degrees : Called("numbers", Pairs("binary", n, SampleElements(n), SampleElements(n)))
    \/ Called("numbers", Pairs("byte", 40, Bytes, {{0}, {1}, {7}, {0, 3, 6}}))
InRing == Computing("numbers") /\ job.kind = "ring" /\ Gives(RingResult(job.n, Ring(job.n, job.x), Ring(job.n, job.y)))
OneInRing == Computing("numbers") /\ job.kind = "ring one" /\ Gives(RingOneResult(job.n, Ring(job.n, job.x)))
ModPrime == Computing("numbers") /\ job.kind = "prime" /\ Gives(PrimeResult(Zp_Data(job.n), job.x, job.y))
OneModPrime == Computing("numbers") /\ job.kind = "prime one" /\ Gives(PrimeOneResult(Zp_Data(job.n), job.x))
InBinaryField == Computing("numbers") /\ job.kind = "binary" /\ Gives(BinaryResult(job.n, job.x, job.y))
OfBytes == Computing("numbers") /\ job.kind = "byte" /\ Gives(ByteResult(expand_byte(job.x), expand_byte(job.y)))

(***************************************************************************)
(* Properties.                                                             *)
(***************************************************************************)
Calculated(kind) == Ended("numbers") /\ job.kind = kind
Res == out[1]
\* x as a signed number of n bits.
TwosComplement(n, x) == IF x >= 2^(n - 1) THEN x - 2^n ELSE x
\* The remainder of a polynomial, by long division.
PolyMod(n, a) == FoldLeft(LAMBDA acc, d : IF d \in acc THEN Xor(acc, {m + (d - n) : m \in FieldModulus(n)}) ELSE acc,
                          a, [i \in 1..n |-> 2 * n - i])

\* Numbers of several words add, subtract, multiply and shift as integers
\* modulo 2^K for every K, whatever the part of the top word in use, also
\* when operands of two widths are multiplied; reading them as signed,
\* widening, negative integers and comparison of numbers less than half the
\* range apart follow two's complement (Math/Z2k.h).
RingArithmetic ==
    /\ Calculated("ring") =>
         LET m == 2^job.n
             apart == TwosComplement(job.n, job.x) - TwosComplement(job.n, job.y)
         IN  /\ Value(Res.add) = (job.x + job.y) % m
             /\ Value(Res.sub) = (job.x - job.y) % m
             /\ Value(Res.mul) = (job.x * job.y) % m
             /\ -(m \div 2) <= apart /\ apart < m \div 2 => (Res.less <=> apart < 0)
             /\ \A l \in RingSizes : Value(Res.mixed[l]) = (job.x * (job.y % 2^l)) % 2^(IF l > job.n THEN l ELSE job.n)
    /\ Calculated("ring one") =>
         /\ \A i \in 0..(job.n - 1) : /\ Value(Res.left[i]) = (job.x * 2^i) % 2^job.n
                                     /\ Value(Res.right[i]) = job.x \div 2^i
         /\ \A l \in RingSizes : Value(Res.extended[l]) = TwosComplement(job.n, job.x) % 2^l
         /\ \A v \in DOMAIN Res.integers : Value(Res.integers[v]) = v % 2^job.n

\* Inverses of odd ring elements, and square roots: of one modulo eight in a
\* ring, with K - 1 bits as the protocol for bits from squares needs, and in
\* a prime field the odd root whatever non-residue Shanks' algorithm drew
\* (Math/Z2k.hpp, bigint.cpp, gfp.hpp).
Roots ==
    /\ Calculated("ring one") =>
         /\ Res.inverse # NotYet => (Value(Res.inverse) * job.x) % 2^job.n = 1 % 2^job.n
         /\ Res.root # NotYet => /\ (Value(Res.root) * Value(Res.root)) % 2^job.n = job.x
                                 /\ job.n > 1 => Value(Res.root) < 2^(job.n - 1)
    /\ Calculated("prime one") =>
         \A n \in DOMAIN Res.roots : Res.roots[n] # NotYet =>
            LET y == to_bigint(Zp_Data(job.n), Res.roots[n])
            IN  (y * y) % job.n = job.x /\ y % 2 = 1

\* Sums, differences, products, inverses, powers, shifts and conversions in
\* Montgomery form are those of the integers modulo p, and every result is
\* reduced, so that comparing words compares values (Math/Zp_Data.h,
\* modp.hpp).  The primes are those whose top word is not all ones.
MontgomeryProduct ==
    /\ Calculated("prime") =>
         LET D == Zp_Data(job.n)
             Is(res, v) == Value(res) < job.n /\ to_bigint(D, res) = v % job.n
         IN  /\ Is(Res.add, job.x + job.y)
             /\ Is(Res.sub, job.x - job.y)
             /\ Is(Res.mul, job.x * job.y)
             /\ Value(Res.square) = FoldLeftDomain(LAMBDA acc, i : (acc + 2^(i - 1) * Value(SquareRows(D, job.x, job.y)[i])) % job.n,
                                                   0, SquareRows(D, job.x, job.y))
    /\ Calculated("prime one") =>
         LET D == Zp_Data(job.n)
             Is(res, v) == Value(res) < job.n /\ to_bigint(D, res) = v % job.n
         IN  /\ Is(Res.neg, -job.x)
             /\ job.x # 0 => Is(Mont_Mult(D, Res.inverse, to_modp(D, job.x)), 1)
             /\ \A e \in DOMAIN Res.power : Is(Res.power[e], PowerMod(job.x, e, job.n))
             /\ \A i \in DOMAIN Res.left : Is(Res.left[i], job.x * 2^i) /\ Is(Res.right[i], job.x \div 2^i)
             /\ \A v \in DOMAIN Res.ints : Is(Res.ints[v], v)
             /\ \A v \in DOMAIN Res.bigints : Is(Res.bigints[v], v)
             /\ \A v \in DOMAIN Res.short : Is(Res.short[v], v)
             /\ (Res.written - job.x) % job.n = 0

\* The word tricks of the binary fields (tables, Karatsuba, reduction from
\* the upper word in one go, binary division) give the product and the
\* inverse of polynomials modulo the field's polynomial
\* (Math/gf2n.cpp, gf2nlong.cpp).
BinaryFields ==
    Calculated("binary") =>
      /\ Res.product = PolyMod(job.n, Clmul(job.x, job.y))
      /\ job.x # {} /\ job.n # 128 => PolyMod(job.n, Clmul(job.x, Res.inverse)) = {0}

\* Bytes survive the way into GF(2^40) and back, and sums and products of
\* bytes are sums and products of their images: AES is computed there
\* (Math/gf2n.cpp: expand_byte, collapse_byte).
ByteEmbedding ==
    Calculated("byte") =>
      /\ Res.back = job.x
      /\ Xor(Res.a, Res.b) = expand_byte(Xor(job.x, job.y))
      /\ gf2n_short_mul(40, Res.a, Res.b) = expand_byte(PolyMod(8, Clmul(job.x, job.y)))
=============================================================================
