---------------------------- MODULE BitCircuits ----------------------------
(***************************************************************************)
(* The circuits on secret bits that the compiler expands integer           *)
(* operations into: prefix operations, carries, adders, Wallace trees and  *)
(* comparators (Compiler/types.py _int and _bitint, floatingpoint.py,      *)
(* comparison.py).  A bit is 0 or 1; a number is the sequence of its bits, *)
(* least significant first.  A register the code leaves unset (None) is    *)
(* NoBit, which is no bit: any use of it shows in the result.              *)
(***************************************************************************)
EXTENDS Integers, Sequences, SequencesExt

NoBit == 7
NoPair == <<>>

Truth(b) == IF b THEN 1 ELSE 0
Bits(x, n) == [i \in 1..n |-> (x \div 2^(i - 1)) % 2]
BitCompose(b) == FoldLeftDomain(LAMBDA v, i : v + 2^(i - 1) * b[i], 0, b)

Take(s, n) == SubSeq(s, 1, n)
Drop(s, n) == SubSeq(s, n + 1, Len(s))
Zeros(n) == [i \in 1..n |-> 0]

\* The exponent of the next power of two, int(ceil(log(n, 2))).
CeilLog(n) == CHOOSE e \in 0..16 : 2^e >= n /\ (e = 0 \/ 2^(e - 1) < n)

(***************************************************************************)
(* Gates of arithmetic circuits.                                           *)
(***************************************************************************)
BitXor(a, b) == a + b - 2 * a * b
BitAnd(a, b) == a * b
BitNot(a) == 1 - a
IfElse(c, a, b) == c * (a - b) + b
HalfAdder(a, b) == <<a + b - 2 * a * b, a * b>>
OrOp(a, b, void) == a + b - a * b
MulOp(a, b, void) == a * b

(***************************************************************************)
(* The operations that the prefix operations combine with.  A pair         *)
(* <<propagate, generate>> stands for a block of bits; a pair              *)
(* <<bit, differs>> for the comparison of a block; a record for a level of *)
(* a tree, which the right one replaces when it goes higher and its bucket *)
(* is not empty.                                                           *)
(***************************************************************************)
Carry(b, a, compute_p) ==
    <<IF compute_p THEN BitAnd(a[1], b[1]) ELSE NoBit, a[2] + BitAnd(a[1], b[2])>>

\* comparison.carry: as above, with None for an absent block.
CarryOrNone(b, a, compute_p) ==
    IF a = NoPair THEN b ELSE IF b = NoPair THEN a ELSE Carry(b, a, compute_p)

HigherBit(y, x) == <<IfElse(x[2], x[1], y[1]), IfElse(x[2], 1, y[2])>>
Replace(left, right) ==
    IF right.goal > left.goal /\ right.full THEN right
    ELSE [left EXCEPT !.i = right.i, !.full = right.full]

Apply(op, a, b, needed) ==
    CASE op = "or" -> OrOp(a, b, needed)
      [] op = "mul" -> MulOp(a, b, needed)
      [] op = "carry" -> Carry(a, b, needed)
      [] op = "carry_or_none" -> CarryOrNone(a, b, needed)
      [] op = "higher_bit" -> HigherBit(a, b)
      [] op = "replace" -> Replace(a, b)

(***************************************************************************)
(* Prefix operations: output[i] combines items[1..i].  PreOpL runs         *)
(* ceil(log k) levels; at level i every second block of 2^i items takes in *)
(* the last item of the block before it.  The third argument of the        *)
(* operation tells whether the result is needed for a further block.       *)
(***************************************************************************)
PreOpL(op, items) ==
    LET RECURSIVE Level(_, _)
        Level(i, out) ==
            IF i = CeilLog(Len(items)) THEN out
            ELSE Level(i + 1,
                   [q \in 1..Len(items) |->
                      LET block == (q - 1) \div 2^i IN
                      IF block % 2 = 1
                      THEN Apply(op, out[block * 2^i], out[q], block > 1)
                      ELSE out[q]])
    IN  Level(0, items)

PreOpL2(op, items) ==
    LET RECURSIVE Pre(_)
        Pre(it) ==
            LET half == Len(it) \div 2
                v == Pre([i \in 1..half |-> Apply(op, it[2 * i - 1], it[2 * i], TRUE)])
            IN  IF Len(it) = 0 THEN <<>>
                ELSE [q \in 1..Len(it) |->
                        IF q = 1 THEN it[1]
                        ELSE IF q % 2 = 0 THEN v[q \div 2]
                        ELSE Apply(op, v[(q - 1) \div 2], it[q], TRUE)]
    IN  Pre(items)

PreOpN(op, items) ==
    LET RECURSIVE Pre(_)
        Pre(n) == IF n = 1 THEN <<items[1]>>
                  ELSE LET before == Pre(n - 1)
                       IN  Append(before, Apply(op, before[n - 1], items[n], TRUE))
    IN  Pre(Len(items))

KOpL(op, items) ==
    LET RECURSIVE K(_)
        K(a) == IF Len(a) = 1 THEN a[1]
                ELSE Apply(op, K(Take(a, Len(a) \div 2)), K(Drop(a, Len(a) \div 2)), TRUE)
    IN  K(items)

TreeReduce(op, items) ==
    LET RECURSIVE T(_)
        T(a) == LET n == Len(a) IN
                IF n = 1 THEN a[1]
                ELSE T([i \in 1..(n \div 2) |-> Apply(op, a[2 * i - 1], a[2 * i], TRUE)]
                       \o Drop(a, 2 * (n \div 2)))
    IN  T(items)

KORL(a) == KOpL("or", a)

(***************************************************************************)
(* Carries out of pairs.                                                   *)
(***************************************************************************)
RECURSIVE CarryOutAux(_)
CarryOutAux(d) ==
    LET even == IF Len(d) > 1 /\ Len(d) % 2 = 1 THEN Append(d, NoPair) ELSE d
        a == Reverse(even)
        half == Len(a) \div 2
        u == [i \in 1..half |-> CarryOrNone(a[2 * i], a[2 * i - 1], i # half)]
    IN  IF Len(a) > 1 THEN CarryOutAux(Reverse(u)) ELSE a[1][2]

\* a and b most significant bit first, as the callers pass them.
CarryOutRaw(a, b, c) ==
    LET k == Len(a)
        d == [i \in 1..k |-> HalfAdder(b[i], a[i])]
        last == <<d[k][1], d[k][2] + BitAnd(d[k][1], c)>>
    IN  CarryOutAux(Reverse([d EXCEPT ![k] = last]))

CarryOutRawLE(a, b) == CarryOutRaw(Reverse(a), Reverse(b), 0)

\* res = a <? b for a clear number a and secret bits b.
BitLTL(a, b) ==
    LET nb == [i \in DOMAIN b |-> BitNot(b[i])]
    IN  1 - CarryOutRaw(Reverse(Bits(a, Len(b))), Reverse(nb), 1)

(***************************************************************************)
(* Adders.  The flavour is the circuit type: "arith" for intbitint (bits   *)
(* in a field or ring), "bin" for the binary types.                        *)
(***************************************************************************)
FullAdder(a, b, carry) ==
    LET s == BitXor(a, b) IN <<BitXor(s, carry), IfElse(s, carry, a)>>

GetCarries(a, b, fewer_inv, carry_in) ==
    LET d == <<<<0, carry_in>>>> \o [i \in DOMAIN a |-> HalfAdder(a[i], b[i])]
        pg == IF fewer_inv THEN PreOpL2("carry", d) ELSE PreOpL("carry", d)
    IN  IF a = <<>> THEN <<>> ELSE [i \in DOMAIN pg |-> pg[i][2]]

SumFromCarries(flavour, a, b, carries) ==
    [i \in DOMAIN a |-> IF flavour = "arith"
                        THEN a[i] + b[i] + carries[i] - 2 * carries[i + 1]
                        ELSE BitXor(BitXor(a[i], b[i]), carries[i])]

\* zero[i]: position i of one operand is the constant 0, known when
\* compiling; the adder starts above the leading run of such positions.
CarryLookaheadAdder(flavour, a, b, zero, fewer_inv, carry_in, get_carry) ==
    LET skip == CHOOSE n \in 0..Len(a) :
                    /\ \A i \in 1..n : zero[i]
                    /\ n < Len(a) => ~ zero[n + 1]
        carries == GetCarries(Drop(a, skip), Drop(b, skip), fewer_inv, carry_in)
    IN  [i \in 1..skip |-> a[i] + b[i]]
        \o SumFromCarries(flavour, Drop(a, skip), Drop(b, skip), carries)
        \o IF get_carry THEN <<Last(carries)>> ELSE <<>>

RippleCarryAdder(a, b, carry_in) ==
    LET step(acc, i) == LET f == FullAdder(a[i], b[i], acc.carry)
                        IN  [sum |-> Append(acc.sum, f[1]), carry |-> f[2]]
        end == FoldLeftDomain(step, [sum |-> <<>>, carry |-> carry_in], a)
    IN  Append(end.sum, end.carry)

\* Block sizes m, m-1, ..., k+1 and a rest, the smallest first.
SumDown(m, k) == (m * (m + 1)) \div 2 - (k * (k - 1)) \div 2
Blocks(n) ==
    LET m == CHOOSE x \in 0..n : (x * (x + 1)) \div 2 + 1 >= n
                                 /\ \A y \in 0..(x - 1) : (y * (y + 1)) \div 2 + 1 < n
        k == CHOOSE x \in 0..m : SumDown(m, x) + 1 >= n
                                 /\ \A y \in (x + 1)..m : SumDown(m, y) + 1 < n
        tail == [i \in 1..(m - k) |-> k + i]
    IN  <<n - (SumDown(m, k) - k)>> \o tail

CarrySelectAdder(a, b, carry_in, get_carry) ==
    LET step(acc, m) ==
            LET aa == Take(acc.a, m)
                bb == Take(acc.b, m)
                c0 == RippleCarryAdder(aa, bb, 0)
                c1 == RippleCarryAdder(aa, bb, 1)
                pick == [i \in 1..(m + 1) |-> IfElse(acc.carry, c1[i], c0[i])]
            IN  [a |-> Drop(acc.a, m), b |-> Drop(acc.b, m),
                 sum |-> acc.sum \o Take(pick, m), carry |-> pick[m + 1]]
        end == FoldLeft(step, [a |-> a, b |-> b, sum |-> <<>>, carry |-> carry_in],
                        Blocks(Len(a)))
    IN  end.sum \o IF get_carry THEN <<end.carry>> ELSE <<>>

\* intbitint.bit_adder below the cut-off of 122 bits, after padding.
BitAdder(a, b) ==
    LET n == IF Len(a) > Len(b) THEN Len(a) ELSE Len(b)
        pa == a \o Zeros(n - Len(a))
        pb == b \o Zeros(n - Len(b))
        zero == [i \in 1..n |-> i > Len(a) \/ i > Len(b)]
    IN  CarryLookaheadAdder("arith", pa, pb, zero, FALSE, 0, FALSE)

\* floatingpoint.BitAdd: k+1 bits; the first position propagates nothing.
BitAdd(a, b) ==
    LET k == Len(a)
        d == [i \in 1..k |-> IF i = 1 THEN <<NoBit, a[1] * b[1]>>
                             ELSE <<a[i] + b[i] - 2 * a[i] * b[i], a[i] * b[i]>>]
        pg == PreOpL("carry", d)
    IN  [i \in 1..(k + 1) |-> IF i = k + 1 THEN pg[k][2]
                              ELSE IF i = 1 THEN a[1] + b[1] - 2 * pg[1][2]
                              ELSE a[i] + b[i] + pg[i - 1][2] - 2 * pg[i][2]]

(***************************************************************************)
(* Wallace trees: columns of bits of equal weight are reduced by full and  *)
(* half adders to two rows.  Bits are popped from the end of a column.     *)
(***************************************************************************)
RECURSIVE ReduceColumn(_)
ReduceColumn(col) ==
    LET n == Len(col)
        step(f, m) == LET rest == ReduceColumn(Take(col, n - m))
                      IN  [sums |-> <<f[1]>> \o rest.sums, carries |-> <<f[2]>> \o rest.carries]
    IN  IF n > 2 THEN step(FullAdder(col[n], col[n - 1], col[n - 2]), 3)
        ELSE IF n = 2 THEN step(HalfAdder(col[2], col[1]), 2)
        ELSE [sums |-> col, carries |-> <<>>]

RECURSIVE WallaceColumns(_, _)
WallaceColumns(columns, get_carry) ==
    LET n == Len(columns)
        red == [i \in 1..n |-> ReduceColumn(columns[i])]
        next == [i \in 1..(n + 1) |->
                    (IF i > 1 THEN red[i - 1].carries ELSE <<>>)
                    \o (IF i <= n THEN red[i].sums ELSE <<>>)]
    IN  IF \A i \in 1..n : Len(columns[i]) <= 2 THEN columns
        ELSE WallaceColumns(IF get_carry THEN next ELSE Take(next, n), get_carry)

TwoRows(c) ==
    LET row(j) == [i \in DOMAIN c |-> IF j <= Len(c[i]) THEN c[i][j] ELSE 0]
    IN  <<row(1), row(2)>>
WallaceTreeWithoutFinish(columns, get_carry) == TwoRows(WallaceColumns(columns, get_carry))

AddRows(rows) == BitAdder(rows[1], rows[2])
WallaceTreeFromMatrix(bit_matrix) ==
    LET n == Len(bit_matrix[1])
        column(i) == [j \in 1..(IF i < Len(bit_matrix) THEN i ELSE Len(bit_matrix)) |->
                         bit_matrix[j][i - j + 1]]
    IN  AddRows(WallaceTreeWithoutFinish([i \in 1..n |-> column(i)], FALSE))

BitMul(a, b) == WallaceTreeFromMatrix([j \in DOMAIN b |-> [i \in DOMAIN a |-> a[i] * b[j]]])

(***************************************************************************)
(* Comparators.                                                            *)
(***************************************************************************)
BitComparator(a, b) ==
    KOpL("higher_bit", [i \in DOMAIN a |-> <<b[i], BitXor(a[i], b[i])>>])

BitLessThan(a, b) == LET c == BitComparator(a, b) IN IfElse(c[2], c[1], 0)

PrepComparison(a, b) == LET n == Len(a)
                        IN  <<[a EXCEPT ![n] = b[n]], [b EXCEPT ![n] = a[n]]>>
SignedLessThan(a, b) == LET s == PrepComparison(a, b) IN BitLessThan(s[1], s[2])

\* Secret bits against secret or clear bits: the highest differing position.
BITLT(a, b) ==
    LET n == Len(a)
        f == PreOpL("or", [i \in 1..n |-> BitXor(a[n - i + 1], b[n - i + 1])])
        g == [i \in 1..n |-> IF i = n THEN f[1] ELSE f[n - i + 1] - f[n - i]]
    IN  FoldLeftDomain(LAMBDA v, i : v + g[i] * b[i], 0, a)

=============================================================================
