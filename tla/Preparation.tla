----------------------------- MODULE Preparation -----------------------------
(***************************************************************************)
(* Making tuples of random shared values in the protocols, with the checks *)
(* that sacrifice some of them: triples, squares, inverses, bits, dabits   *)
(* (a bit in two domains) and edabits (a number and its bits).             *)
(*                                                                         *)
(* A shared value is written as the value modulo q, the domains of shares  *)
(* being the subject of Sharing and ShareProtocols; where a step works on  *)
(* the shares themselves they are written out.  A multiplication that is   *)
(* not checked gives x * y plus an error that a dishonest party chooses.   *)
(* A check is run for every challenge that the parties may draw: the job   *)
(* returns the set of those that it passes.                                *)
(***************************************************************************)
EXTENDS Sharing

\* RingBits and Security: numbers modulo 2^RingBits, checked with Security
\* more bits.  Batch is what a buffer is refilled with, Unit the number of
\* edabits in a vector (64 in the code).
CONSTANTS Field, RingBits, Security, Batch, Unit

VARIABLES job, out

Ring == 2^RingBits
Big == 2^(RingBits + Security)

Mul(q, x, y, error) == (x * y + error) % q
Bit(x, i) == (x \div 2^i) % 2
WeightedSum(bits, n) == FoldLeft(LAMBDA v, i : v + bits[i] * 2^i, 0, Upto(n))
CeilLog2(n) == CHOOSE l \in 0..n : 2^l >= n /\ \A m \in 0..(l - 1) : 2^m < n

(***************************************************************************)
(* Triples and what is made of them.                                       *)
(***************************************************************************)
Triple(q, a, b, error) == <<a, b, Mul(q, a, b, error)>>
Square(q, a, error) == <<a, Mul(q, a, a, error)>>

SquareFromTriple(q, t) == LET opened == (t[1] + t[2]) % q
                          IN  <<t[1], (t[1] * opened - t[3]) % q>>

\* Triples with a product of zero give no inverse; if there are no others the
\* program stops (the empty sequence).
buffer_inverses(q, triples) ==
    LET used == SelectSeq(triples, LAMBDA t : t[3] # 0)
    IN  [i \in DOMAIN used |-> <<used[i][1], (used[i][2] * InverseMod(used[i][3], q)) % q>>]

\* The first tuple is checked with the second, all drawing the challenge t.
sacrifice(q, t, a, a_prime, b, c, c_prime) ==
    LET rho == (t * a - a_prime) % q IN (t * c - c_prime - rho * b) % q = 0

square_check(q, t, a, b, f, h) ==
    LET rho == (a * t - f) % q IN (t * t * b - h - rho * (t * a + f)) % q = 0

\* PostSacrifice: what was multiplied is kept, and its results checked together
\* against products of the same second factor with new random numbers.
PostChecks(q, t, operands, results, randoms, errors) ==
    \A i \in DOMAIN results :
        sacrifice(q, t, operands[i][1], randoms[i], operands[i][2], results[i],
                  Mul(q, randoms[i], operands[i][2], errors[i]))

(***************************************************************************)
(* Random bits.                                                            *)
(***************************************************************************)
XOR(q, x, y) == (x + y - 2 * x * y) % q

\* One bit of every relevant player, combined.
buffer_ring_bits_without_check(q, player_bits) ==
    FoldLeft(LAMBDA b, p : XOR(q, b, p), player_bits[1], Tail(player_bits))

\* The root that sqrRoot() of a field returns; either gives a bit.
RootMod(x, q) == CHOOSE r \in 0..(q - 1) : (r * r) % q = x
HalfMod(x, q) == (x * InverseMod(2, q)) % q
buffer_bits_from_squares(q, squares) ==
    LET used == SelectSeq(squares, LAMBDA s : s[2] # 0)
    IN  [i \in DOMAIN used |->
            HalfMod(used[i][1] * InverseMod(RootMod(used[i][2], q), q) + 1, q)]

square_width(k) == k + 2

\* bits_from_square_in_ring on additive shares a[p], a2[p] modulo 2^width: the
\* last step halves every share, and the result is taken modulo 2^RingBits.
bits_from_square_in_ring(a, a2) ==
    LET w == 2^square_width(RingBits)
        one(p) == IF p = 1 THEN 1 ELSE 0
        squares(p) == ((a2[p] + a[p]) * 4 + one(p)) % w
        random(p) == (a[p] * 2 + one(p)) % w
        opened == (squares(1) + squares(2)) % w
        inverse == CHOOSE i \in 0..(w - 1) : (i * RootMod(opened, w)) % w = 1
        tmp(p) == (random(p) * inverse + one(p)) % w
    IN  [p \in 1..2 |-> (tmp(p) \div 2) % Ring]

\* The even parties share a bit with their successor, as a joint input, and the
\* two bits are combined.
Rep4Bits(seed) == XOR(Ring, Prng(2, seed, 0, 0), Prng(2, seed, 2, 0))

\* MaliciousRingPrep: every bit times its opposite, with random factors, is zero.
bits_check(q, bits, factors) ==
    SumOver(Len(bits), q, LAMBDA i : (1 - bits[i + 1]) * bits[i + 1] * factors[i + 1]) = 0

(***************************************************************************)
(* Dabits: pairs of a shared number and a shared bit.                      *)
(***************************************************************************)
\* The players' bits come from copies of one generator for both domains.
Dabit(q, player_bits) ==
    <<buffer_ring_bits_without_check(q, player_bits),
      FoldLeft(LAMBDA b, p : (b + p) % 2, 0, player_bits)>>

\* From a random bit on additive shares: the last bits of the shares add up.
DabitFromBit(shares) ==
    <<FoldLeft(LAMBDA v, s : (v + s) % Ring, 0, shares),
      FoldLeft(LAMBDA v, s : (v + (s % 2)) % 2, 0, shares)>>

\* A random subset of the first n dabits and the i-th of those to give up.
SubsetParity(q, dabits, n, i, chosen, mask) ==
    LET sum == FoldLeft(LAMBDA v, k : IF k \in chosen THEN v + dabits[k][1] ELSE v, 0,
                        [k \in 1..n |-> k])
        bits == FoldLeft(LAMBDA v, k : IF k \in chosen THEN v + dabits[k][2] ELSE v, 0,
                         [k \in 1..n |-> k])
        all == sum + dabits[n + i][1]
        opened == IF q = Ring THEN (all * 2^(RingBits - 1)) % q ELSE (all + 2 * mask) % q
        parity == IF q = Ring THEN opened \div 2^(RingBits - 1) ELSE opened % 2
    IN  parity = (bits + dabits[n + i][2]) % 2

\* Every sum of a random subset is opened, in fields masked by even numbers.
sacrifice_without_bit_check(q, dabits, rounds, mask) ==
    LET n == Len(dabits) - Len(rounds)
    IN  \A i \in DOMAIN rounds : SubsetParity(q, dabits, n, i, rounds[i], mask)

sacrifice_and_check_bits(q, dabits, rounds, mask) ==
    /\ sacrifice_without_bit_check(q, dabits, rounds, mask)
    /\ \A i \in 1..(Len(dabits) - Len(rounds)) :
            (dabits[i][1] - dabits[i][1] * dabits[i][1]) % q = 0

(***************************************************************************)
(* Edabits: a shared number and its shared bits.                           *)
(***************************************************************************)
BitsOf(x, n) == [i \in 0..(n - 1) |-> Bit(x, i)]

\* BitAdder::add: ripple carry, the carry chosen by multiplication.
AddBits(a, b, n) ==
    LET carry[i \in 0..n] ==
            IF i = 0 THEN 0
            ELSE (a[i - 1] + (a[i - 1] + b[i - 1]) * (carry[i - 1] + a[i - 1])) % 2
    IN  [i \in 0..n |-> IF i = n THEN carry[n] ELSE (a[i] + b[i] + carry[i]) % 2]

sum_bits(n, players) == n + CeilLog2(players)

\* BitAdder::multi_add: the sum so far and the next, both in sum_bits bits.
multi_add(summands, n, players) ==
    LET m == sum_bits(n, players)
        Pad(bits) == [i \in 0..(m - 1) |-> IF i \in DOMAIN bits THEN bits[i] ELSE 0]
    IN  FoldLeft(LAMBDA sum, k : AddBits(Pad(sum), Pad(summands[k]), m), summands[1],
                 [k \in 1..(Len(summands) - 1) |-> k + 1])

add(summands, n, players) ==
    IF Len(summands) > 2 THEN multi_add(summands, n, players)
    ELSE AddBits(summands[1], summands[2], n)

\* Every relevant player puts in a number and its bits.
PersonalEdabit(x, n) == [whole |-> x, bits |-> BitsOf(x, n)]
SumEdabit(q, numbers, n, players) ==
    [whole |-> FoldLeft(LAMBDA v, x : (v + x) % q, 0, numbers),
     bits |-> add([i \in DOMAIN numbers |-> PersonalEdabit(numbers[i], n).bits], n, players)]

\* Exclusive or of the dabit and the masked bit.
overflow(mask, masked) == mask + masked - 2 * mask * masked

\* The bits from n on are opened under dabits and taken off the number.
sanitize(q, x, n, dabits) ==
    LET excess == {j \in DOMAIN x.bits : j >= n}
    IN  [whole |-> FoldLeft(LAMBDA v, j :
                    IF j \notin excess THEN v
                    ELSE (v - overflow(dabits[j], (x.bits[j] + dabits[j]) % 2) * 2^j) % q,
                    x.whole, Upto(Cardinality(DOMAIN x.bits))),
         bits |-> [j \in 0..(n - 1) |-> x.bits[j]]]

\* The personal edabits of all players added up, the excess taken off if strict.
buffer_edabits_from_personal(q, numbers, n, strict, mask) ==
    LET x == SumEdabit(q, numbers, n, Len(numbers))
        dabits == [b \in DOMAIN x.bits |-> (b + mask) % 2]
    IN  IF strict THEN sanitize(q, x, n, dabits) ELSE x

(***************************************************************************)
(* Shuffle, open some, and check the rest in buckets of B.  An item is the *)
(* error that it has: the product of a triple, or the number of an edabit, *)
(* that is too large by the error.                                         *)
(***************************************************************************)
\* Item i is swapped with one of those from i on.
shuffle(items, draws) ==
    FoldLeft(LAMBDA s, i : LET k == i + draws[i]
                           IN  [s EXCEPT ![i] = s[k], ![k] = s[i]],
             items, [i \in DOMAIN items |-> i])

\* Of the shuffled items the last C are opened; item i is then compared with
\* the items i + N, i + 2 * N, ...
Buckets(size, B, C) == (size - C) \div B

\* Mutant: the last item of every bucket is not compared.
BucketMembersOff(i, N, B) == {i + N * j : j \in 1..(B - 2)}

BucketMembers(i, N, B) == {i + N * j : j \in 1..(B - 1)}

\* c - h - b * rho - f * sigma, where the error of c less that of h is left.
TripleBucketPasses(q, t1, t2) ==
    LET rho == (t1[1] - t2[1]) % q
        sigma == (t1[2] - t2[2]) % q
    IN  (t1[3] - t2[3] - t1[2] * rho - t2[1] * sigma) % q = 0

\* The sum of the numbers against the sum of the bits: all of it if strict,
\* else the last n bits.
EdabitBucketPasses(x1, x2, n, strict) ==
    LET sums == AddBits(x1.bits, x2.bits, n)
        both == [whole |-> (x1.whole + x2.whole) % Ring, bits |-> sums]
        clean == sanitize(Ring, both, n, [j \in 0..n |-> j % 2])
        shift == 2^(RingBits - n)
    IN  IF strict THEN clean.whole = WeightedSum(clean.bits, n)
        ELSE (both.whole * shift) % Ring = (WeightedSum(sums, n) * shift) % Ring

\* What is opened must be right, what is compared must pass; edabits here
\* have ShuffleBits bits.
ShuffleBits == 2
RightItem(kind, x) ==
    CASE kind = "triple" -> x[3] = (x[1] * x[2]) % Ring
      [] kind = "strict" -> x.whole = WeightedSum(x.bits, ShuffleBits)
      [] kind = "loose" -> x.whole % 2^ShuffleBits = WeightedSum(x.bits, ShuffleBits)
Passing(kind, x, y) ==
    IF kind = "triple" THEN TripleBucketPasses(Ring, x, y)
    ELSE EdabitBucketPasses(x, y, ShuffleBits, kind = "strict")

\* What is left, or the empty sequence when the check stops the program.
shuffle_sacrifice(kind, items, draws, B, C) ==
    LET shuffled == shuffle(items, draws)
        N == Buckets(Len(items), B, C)
        checks == /\ \A i \in (Len(items) - C + 1)..Len(items) : RightItem(kind, shuffled[i])
                  /\ \A i \in 1..N : \A k \in BucketMembers(i, N, B) :
                        Passing(kind, shuffled[i], shuffled[k])
    IN  IF checks THEN SubSeq(shuffled, 1, N) ELSE <<>>

\* buffer_personal_triples: C random triples are opened and removed.
personal_sacrifice(kind, items, draws, C) ==
    LET step(s, i) == LET k == 1 + (draws[i] % Len(s.left))
                      IN  [left |-> RemoveAt(s.left, k), ok |-> s.ok /\ RightItem(kind, s.left[k])]
        end == FoldLeft(step, [left |-> items, ok |-> TRUE], [i \in 1..C |-> i])
    IN  IF end.ok THEN end.left ELSE <<>>

\* triple_combine: a bucket becomes one triple, of which the first factor is
\* unknown as long as one of them is.
triple_combine(q, bucket) ==
    FoldLeft(LAMBDA t, s : LET rho == (t[2] - s[2]) % q
                           IN  <<(t[1] + s[1]) % q, t[2], (t[3] + s[3] + s[1] * rho) % q>>,
             bucket[1], Tail(bucket))

(***************************************************************************)
(* Buffers.  Edabits come in vectors of at most Unit numbers (a) with the  *)
(* words of their bits (b); here both hold the number of the edabit that   *)
(* they belong to.                                                         *)
(***************************************************************************)
push_edabits(buffer, first) ==
    FoldLeft(LAMBDA v, i :
                IF i % Unit = 0
                THEN Append(v, [a |-> <<first + i>>, b |-> [k \in 1..Unit |-> first + i + k - 1]])
                ELSE [v EXCEPT ![Len(v)].a = Append(@, first + i)],
             buffer, Upto(Batch))

\* edabitvec::next: the last number, and the bits at its place.
next_bits(vec) == vec.b[Len(vec.a)]

get_edabitvec(st) ==
    LET filled == IF st.buffer = <<>>
                  THEN [st EXCEPT !.buffer = push_edabits(<<>>, st.made), !.made = @ + Batch]
                  ELSE st
    IN  [filled EXCEPT !.my = Last(filled.buffer), !.buffer = Front(filled.buffer)]

get_edabit_no_count(st) ==
    LET ready == IF st.my.a = <<>> THEN get_edabitvec(st) ELSE st
    IN  [ready EXCEPT !.my.a = Front(@),
                      !.got = Append(@, <<Last(ready.my.a), next_bits(ready.my)>>)]

\* Whole vectors from the buffer while there are some of full length, single
\* edabits otherwise; only the vectors at the end are of less than full length.
get_edabits(st, size) ==
    LET whole(s, k) == /\ s.buffer # <<>>
                       /\ Len(Last(s.buffer).a) = Unit
                       /\ (k + 1) * Unit <= size
        take(s) == LET v == Last(s.buffer)
                   IN  [s EXCEPT !.buffer = Front(@),
                                 !.got = @ \o [i \in 1..Unit |-> <<v.a[i], v.b[i]>>]]
        rest(k) == (IF size < (k + 1) * Unit THEN size ELSE (k + 1) * Unit) - k * Unit
        chunks == (size + Unit - 1) \div Unit
        done == FoldLeft(LAMBDA s, k : IF whole(s, k) THEN take(s)
                                       ELSE FoldLeft(LAMBDA r, i : get_edabit_no_count(r), s, Upto(rest(k))),
                         st, Upto(chunks))
    IN  [done EXCEPT !.counted = @ + size]

EmptyEdabits == [buffer |-> <<>>, my |-> [a |-> <<>>, b |-> <<>>], made |-> 0, got |-> <<>>, counted |-> 0]

\* The other kinds: bits are made of squares, squares and inverses of triples.
\* A request counts (usage) unless it is made to fill a buffer (InScope).
Kinds == {"triple", "square", "inverse", "bit"}
EmptyBuffers == [left |-> [k \in Kinds |-> 0], usage |-> [k \in Kinds |-> 0],
                 made |-> 0, do_count |-> TRUE]
count(st, kind) == IF st.do_count THEN [st EXCEPT !.usage[kind] = @ + 1] ELSE st
Times(st, n, Op(_)) == FoldLeft(LAMBDA s, i : Op(s), st, Upto(n))
Pop(st, kind) == [st EXCEPT !.left[kind] = @ - 1]

get_triple(st) ==
    LET full == IF st.left["triple"] = 0 THEN [st EXCEPT !.left["triple"] = Batch, !.made = @ + Batch]
                ELSE st
    IN  Pop(full, "triple")

get_square(st) ==
    LET full == IF st.left["square"] = 0
                THEN [Times(st, Batch, get_triple) EXCEPT !.left["square"] = Batch]
                ELSE st
    IN  Pop(full, "square")

get_inverse(st) ==
    LET full == IF st.left["inverse"] = 0
                THEN [Times(st, Batch, get_triple) EXCEPT !.left["inverse"] = Batch]
                ELSE st
    IN  Pop(full, "inverse")

\* The requests made to fill a buffer do not count.
buffer_scope(st) == [st EXCEPT !.do_count = FALSE]

get_bit(st) ==
    LET fill == Times(buffer_scope(st), Batch, LAMBDA s : get_square(count(s, "square")))
        full == IF st.left["bit"] = 0
                THEN [fill EXCEPT !.left["bit"] = Batch, !.do_count = st.do_count]
                ELSE st
    IN  Pop(full, "bit")

get(st, kind) ==
    LET counted == count(st, kind)
    IN  CASE kind = "triple" -> get_triple(counted)
          [] kind = "square" -> get_square(counted)
          [] kind = "inverse" -> get_inverse(counted)
          [] kind = "bit" -> get_bit(counted)

(***************************************************************************)
(* Inputs: random values that one party knows.                             *)
(***************************************************************************)
\* Rep4RingPrep: all parts but the one that the player does not hold are drawn;
\* party i holds the parts i, i + 1 and i + 2.
Rep4RandomInput(player, seed) ==
    LET part(k) == Prng(Ring, seed, k, 0)
        res == [i \in Parties(4) |-> [c \in 0..2 |->
                    IF (player - c - i) % 4 # 1 THEN part((i + c) % 4) ELSE 0]]
    IN  [share |-> res, value |-> Total(res[player], Ring)]

\* GC::RepPrep: the player draws its two parts, the others the one in common.
RepRandomInput(player, seed) ==
    LET part(k) == Prng(2, seed, k, 0)
        drawn(i, c) == part((i - c) % 3)
        res == [i \in Parties(3) |-> [c \in 0..1 |->
                    IF i = player \/ c = ((player - i) % 3) - 1 THEN drawn(i, c) ELSE 0]]
    IN  [share |-> res, value |-> Total(res[player], 2)]

-----------------------------------------------------------------------------
NotYet == <<>>
Values == {0, 1, 3}
Errors == 0..2
FewBits == 1..3

CheckJobs ==
    {[alg |-> alg, q |-> q, a |-> a, b |-> b, f |-> f, e |-> e] :
        alg \in {"triple_check", "square_check", "bit_check"}, q \in {Field, Big},
        a \in Values \cup {Ring, Ring + 1}, b \in Values, f \in Values,
        e \in (Errors \cup {Ring \div 2}) \X Errors}
ZeroJobs == {[alg |-> "bits_check", q |-> q, bits |-> b] :
                q \in {Field, Big}, b \in (Values \cup {Ring, Ring + 1, Ring \div 2}) \X Values}
DabitJobs == {[alg |-> "dabit_check", q |-> q, dabits |-> <<d1, d2, c1, c2>>] :
                q \in {Field, Ring}, d1 \in (0..2) \X (0..1), d2 \in (0..2) \X (0..1),
                c1 \in (0..1) \X (0..1), c2 \in (0..1) \X (0..1)}
TupleJobs == {[alg |-> "tuples", q |-> q, a |-> a, b |-> b, f |-> f] :
                q \in {Field, Ring}, a \in Values, b \in Values, f \in Values}
RingJobs == {[alg |-> "ring_bits", a |-> a, r |-> r, s |-> s] :
                a \in 0..(2^(RingBits + 2) - 1), r \in {0, 5, 11}, s \in {0, 7}}
BitJobs == {[alg |-> "player_bits", q |-> q, bits |-> b, seed |-> seed] :
                q \in {Field, Ring}, b \in [1..2 -> 0..1] \cup [1..3 -> 0..1], seed \in {1, 6}}
EdabitsOf(n) == {[alg |-> "edabit", q |-> q, n |-> n, strict |-> strict, numbers |-> x, mask |-> mask] :
                    q \in {Field, Ring}, strict \in BOOLEAN, mask \in 0..1,
                    x \in [1..2 -> 0..(2^n - 1)] \cup [1..3 -> 0..(2^n - 1)]}
EdabitJobs == UNION {EdabitsOf(n) : n \in FewBits}
\* Some orders of more items, all orders of four.
Draws(size) == IF size = 4 THEN {d \in [1..4 -> 0..3] : \A i \in 1..4 : d[i] <= 4 - i}
               ELSE {[i \in 1..size |-> (s * i) % (size - i + 1)] : s \in 0..6}
ShuffleJobs == {[alg |-> "shuffle", kind |-> k, errors |-> e, draws |-> d] :
                    k \in {"triple", "strict", "loose"}, e \in [1..4 -> Errors], d \in Draws(4)}
               \cup {[alg |-> "shuffle", kind |-> k, errors |-> e, draws |-> d] :
                    k \in {"triple", "strict"}, e \in [1..6 -> 0..1], d \in Draws(6)}
               \cup {[alg |-> "personal", kind |-> "triple", errors |-> e, draws |-> d] :
                    e \in [1..4 -> 0..1], d \in Draws(4)}
RequestJobs == {[alg |-> "edabits", sizes |-> x] : x \in [1..3 -> 1..(2 * Unit + 1)]}
               \cup {[alg |-> "requests", kinds |-> k] : k \in [1..5 -> Kinds]}
InputJobs == {[alg |-> "inputs", player |-> p, seed |-> s] : p \in 0..3, s \in 0..8}

BucketSize == 2
OpenedItems == BucketSize
Item(kind, i, error) ==
    IF kind = "triple" THEN Triple(Ring, i, i + 2, error)
    ELSE [whole |-> ((i % 4) + error) % Ring, bits |-> BitsOf(i % 4, ShuffleBits)]
Items(j) == [i \in DOMAIN j.errors |-> Item(j.kind, i, j.errors[i])]

Challenges(q) == IF q = Big THEN 0..(2^Security - 1) ELSE 0..(q - 1)
Rounds == [1..2 -> SUBSET (1..2)]

Result(j) ==
    CASE j.alg = "triple_check" ->
            LET c == Mul(j.q, j.a, j.b, j.e[1])
            IN  {t \in Challenges(j.q) : PostChecks(j.q, t, <<<<j.a, j.b>>>>, <<c>>, <<j.f>>, <<j.e[2]>>)}
      [] j.alg = "square_check" ->
            LET x == Square(j.q, j.a, j.e[1])
                y == Square(j.q, j.f, j.e[2])
            IN  {t \in 0..(j.q - 1) : square_check(j.q, t, x[1], x[2], y[1], y[2])}
      [] j.alg = "bit_check" ->
            LET y == Square(j.q, j.f, j.e[2])
            IN  {t \in 0..(j.q - 1) : square_check(j.q, t, j.a, j.a, y[1], y[2])}
      [] j.alg = "bits_check" ->
            {x \in (0..(j.q - 1)) \X (0..(j.q - 1)) : bits_check(j.q, j.bits, x)}
      [] j.alg = "dabit_check" ->
            {r \in Rounds : sacrifice_and_check_bits(j.q, j.dabits, r, 3)}
      [] j.alg = "tuples" ->
            LET t == Triple(j.q, j.a, j.b, 0)
            IN  [triple |-> t,
                 square |-> SquareFromTriple(j.q, t),
                 combined |-> triple_combine(j.q, <<t, Triple(j.q, j.f, j.a, 0), Triple(j.q, j.b, j.f, 0)>>),
                 inverses |-> IF j.q = Field
                              THEN buffer_inverses(j.q, <<t, Triple(j.q, j.f, 3, 0)>>) ELSE <<>>,
                 bits |-> IF j.q = Field
                          THEN buffer_bits_from_squares(j.q, <<Square(j.q, j.a, 0), Square(j.q, j.f, 0)>>)
                          ELSE <<>>]
      [] j.alg = "ring_bits" ->
            LET w == 2^square_width(RingBits)
                shares(v, r) == <<(v - r) % w, r>>
            IN  bits_from_square_in_ring(shares(j.a, j.r), shares(j.a * j.a, j.s))
      [] j.alg = "player_bits" ->
            [dabit |-> Dabit(j.q, j.bits),
             split |-> LET b == buffer_ring_bits_without_check(Ring, j.bits)
                       IN  DabitFromBit(<<(b - j.seed) % Ring, j.seed>>),
             rep4 |-> Rep4Bits(j.seed)]
      [] j.alg = "edabit" ->
            buffer_edabits_from_personal(j.q, j.numbers, j.n, j.strict, j.mask)
      [] j.alg = "shuffle" ->
            shuffle_sacrifice(j.kind, Items(j), j.draws, BucketSize, OpenedItems)
      [] j.alg = "personal" ->
            personal_sacrifice(j.kind, Items(j), j.draws, OpenedItems)
      [] j.alg = "edabits" ->
            FoldLeft(LAMBDA st, size : get_edabits(st, size), EmptyEdabits, j.sizes)
      [] j.alg = "requests" -> FoldLeft(LAMBDA st, kind : get(st, kind), EmptyBuffers, j.kinds)
      [] j.alg = "inputs" ->
            [four |-> Rep4RandomInput(j.player, j.seed),
             three |-> RepRandomInput(j.player % 3, j.seed)]

Jobs == CheckJobs \cup ZeroJobs \cup DabitJobs \cup TupleJobs \cup RingJobs \cup BitJobs
        \cup EdabitJobs \cup ShuffleJobs \cup RequestJobs \cup InputJobs

Init == job \in Jobs /\ out = NotYet
Compute == out = NotYet /\ out' = <<Result(job)>> /\ UNCHANGED job
Next == Compute
Spec == Init /\ [][Next]_<<job, out>>

-----------------------------------------------------------------------------
Done(alg) == out # NotYet /\ job.alg = alg
It == out[1]
IsBit(q, x) == x % q \in {0, 1}

\* Triples, squares, inverses and bits have the relation that their users count
\* on, also when made of one another; bits made of squares in a ring are bits
\* modulo 2^RingBits however the square is shared.
TuplesRelated ==
    /\ Done("tuples") =>
        LET ProductIn(t) == (t[1] * t[2]) % job.q = t[3]
        IN  /\ ProductIn(It.triple) /\ ProductIn(It.combined)
            /\ It.square[2] = (It.square[1] * It.square[1]) % job.q
            /\ \A i \in DOMAIN It.inverses : (It.inverses[i][1] * It.inverses[i][2]) % job.q = 1
            /\ \A i \in DOMAIN It.bits : IsBit(job.q, It.bits[i])
    /\ Done("ring_bits") => IsBit(Ring, It[1] + It[2])
    /\ Done("inputs") =>
        LET four == It.four
            three == It.three
        IN  /\ Shares("rep4", four.share, four.value, Ring, 0)
            /\ Shares("rep3", three.share, three.value, 2, 0)

\* The two halves of a dabit agree, however many players put in a bit; an edabit
\* has the bits of its number with all carries, and with strict no others: the
\* number itself then fits into n bits.
DabitsAndEdabitsAgree ==
    /\ Done("player_bits") =>
        /\ It.dabit[1] = It.dabit[2] /\ It.dabit[1] \in {0, 1}
        /\ It.split[1] = It.split[2]
        /\ It.rep4 \in {0, 1}
    /\ Done("edabit") =>
        LET n == Cardinality(DOMAIN It.bits)
        IN  /\ WeightedSum(It.bits, n) % job.q = It.whole
            /\ job.strict => n = job.n /\ It.whole < 2^n

\* A wrong tuple passes the sacrifice for few challenges only, and a right one
\* for all: one for a triple, two for a bit, and in a ring one in 2^Security.
\* Squares in a ring are checked with a square of the challenge, for which
\* half as many bits count.
SacrificeCatches ==
    LET modulus == IF job.q = Field THEN Field ELSE Ring
        honest(e) == e = <<0, 0>>
        Fraction(n, all) == Cardinality(It) * n <= all
    IN  /\ Done("triple_check") =>
            /\ job.e[1] % modulus # 0 => Cardinality(It) <= 1
            /\ honest(job.e) => It = Challenges(job.q)
        /\ Done("square_check") =>
            /\ job.e[1] % modulus # 0 =>
                    IF job.q = Field THEN Cardinality(It) <= 2
                    ELSE Fraction(2^((Security + 1) \div 2), Big)
            /\ honest(job.e) => It = 0..(job.q - 1)
        /\ Done("bit_check") =>
            /\ job.q = Field /\ ~IsBit(modulus, job.a) => Cardinality(It) <= 2
            /\ job.a \in {0, 1} /\ job.e[2] = 0 => It = 0..(job.q - 1)
        /\ Done("bits_check") =>
            /\ (\E i \in 1..2 : ~IsBit(modulus, job.bits[i])) =>
                    Fraction(IF job.q = Field THEN Field ELSE 2^Security, job.q * job.q)
            /\ (\A i \in 1..2 : job.bits[i] \in {0, 1}) => Cardinality(It) = job.q * job.q
        /\ Done("dabit_check") =>
            LET right(d) == d[1] = d[2]
            IN  /\ (\E i \in 1..2 : ~right(job.dabits[i])) => Fraction(4, Cardinality(Rounds))
                /\ (\A i \in 1..4 : right(job.dabits[i])) => It = Rounds

\* What comes out of the cut-and-choose is right, unless a whole bucket was wrong
\* after the shuffle and none of the opened items; right items always pass.
BucketsCatch ==
    /\ Done("shuffle") =>
        LET n == (Len(job.errors) - OpenedItems) \div BucketSize
            shuffled == shuffle(Items(job), job.draws)
            right(x) == RightItem(job.kind, x)
        IN  /\ It # <<>> =>
                /\ Len(It) = n
                /\ \A i \in 1..n : right(It[i]) \/ ~right(shuffled[i + n])
                /\ \A i \in (Len(shuffled) - OpenedItems + 1)..Len(shuffled) : right(shuffled[i])
            /\ (\A i \in DOMAIN job.errors : job.errors[i] = 0) => It # <<>>
    /\ Done("personal") /\ It # <<>> =>
        LET bad(s) == Len(SelectSeq(s, LAMBDA x : ~RightItem("triple", x)))
        IN  Len(It) = Len(job.errors) - OpenedItems /\ bad(It) = bad(Items(job))

\* No edabit is used twice, its number comes with its own bits, and as many are
\* counted as are given out, whichever sizes are asked for.
EdabitsOnce ==
    Done("edabits") =>
        /\ \A i \in DOMAIN It.got : It.got[i][1] = It.got[i][2]
        /\ \A i, k \in DOMAIN It.got : i # k => It.got[i][1] # It.got[k][1]
        /\ It.counted = Len(It.got)

\* The usage that is counted is what the program asked for, not what was needed
\* to fill the buffers, and every triple made is used once or still there.
UsageIsDemand ==
    Done("requests") =>
        /\ \A k \in Kinds : It.usage[k] = Cardinality({i \in DOMAIN job.kinds : job.kinds[i] = k})
        /\ It.do_count
=============================================================================
