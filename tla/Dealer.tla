------------------------------- MODULE Dealer -------------------------------
(***************************************************************************)
(* The dealer of preprocessing for tests (Utils/Fake-Offline.cpp with      *)
(* Protocols/fake-stuff.hpp), the files of MAC keys, and the program that  *)
(* checks what was dealt (Utils/Check-Offline.cpp).                        *)
(*                                                                         *)
(* A job is one call of a make_ function and the check of its files, where *)
(* one number of the files may have been altered, or a history of dealing, *)
(* losing key files and starting the computation.                          *)
(***************************************************************************)
EXTENDS Sharing

CONSTANTS Field,        \* a prime
          RingBits,     \* bits of the ring
          Seeds         \* seeds of the generators

VARIABLES job, out

Items == 3              \* tuples in a file
BitLength == 2          \* length of edaBits
VectorSize == 2         \* edaBits in a vector

Draw(q, s, id, i, zero) == IF zero THEN 0 ELSE Prng(q, s, 10 + id, i)
DrawNonZero(q, s, id, i) ==
    LET k == CHOOSE k \in 0..(q * q) : Prng(q, s, 10 + id, i + k) # 0
    IN  Prng(q, s, 10 + id, i + k)
BitOf(v, k) == (v \div 2^k) % 2

\* What is shared: a number in the domain or a bit.
InDomain(v) == [v |-> v, bit |-> FALSE]
AsBit(v) == [v |-> v, bit |-> TRUE]

(***************************************************************************)
(* The values of the tuples, one operator per make_ function.              *)
(***************************************************************************)
make_mult_triples(q, s, zero) ==
    [i \in 1..Items |-> LET a == Draw(q, s, 0, i, zero)
                            b == Draw(q, s, 1, i, zero)
                        IN  <<InDomain(a), InDomain(b), InDomain((a * b) % q)>>]

make_square_tuples(q, s, zero) ==
    [i \in 1..Items |-> LET a == Draw(q, s, 0, i, zero)
                        IN  <<InDomain(a), InDomain((a * a) % q)>>]

make_bits(q, s, zero) == [i \in 1..Items |-> <<InDomain(Draw(q, s, 0, i, zero) % 2)>>]

make_inverse(q, s, zero) ==
    [i \in 1..Items |-> LET a == IF zero THEN 1 ELSE DrawNonZero(q, s, 0, i)
                        IN  <<InDomain(a), InDomain(InverseMod(a, q))>>]

make_inputs(q, s, zero) == [i \in 1..Items |-> <<InDomain(Draw(q, s, 0, i, zero))>>]

make_dabits(q, s, zero) ==
    [i \in 1..Items |-> LET b == Draw(q, s, 0, i, zero) % 2 IN <<InDomain(b), AsBit(b)>>]

\* Vectors of values first, then one vector of bits for every position.
make_edabits(q, s, zero) ==
    [i \in 1..(Items \div VectorSize) |->
        LET value(j) == Draw(q, s, j, i, zero) % 2^BitLength
        IN  [j \in 1..VectorSize |-> InDomain(value(j))]
            \o FlattenSeq([k \in 1..BitLength |->
                    [j \in 1..VectorSize |-> AsBit(BitOf(value(j), k - 1))]])]

\* Mutant: the third number is the product with the own inverse.
make_PreMulC_own(q, s, zero) ==
    LET a(i) == IF i = Items \/ zero THEN 1 ELSE DrawNonZero(q, s, 0, i)
    IN  [i \in 1..Items |-> <<InDomain(a(i)), InDomain(InverseMod(a(i), q)),
                              InDomain((a(i) * InverseMod(a(i), q)) % q)>>]

\* "close the circle": the last number is one.
make_PreMulC(q, s, zero) ==
    LET a(i) == IF i = Items \/ zero THEN 1 ELSE DrawNonZero(q, s, 0, i)
        c(i) == IF i = 1 THEN 1 ELSE InverseMod(a(i - 1), q)
    IN  [i \in 1..Items |-> <<InDomain(a(i)), InDomain(InverseMod(a(i), q)),
                              InDomain((a(i) * c(i)) % q)>>]

Types(q) == {"triple", "square", "bit", "input", "dabit", "edabit"}
            \cup IF q = Field THEN {"inverse", "PreMulC"} ELSE {}
Dealt(type, q, s, zero) ==
    CASE type = "triple" -> make_mult_triples(q, s, zero)
      [] type = "square" -> make_square_tuples(q, s, zero)
      [] type = "bit" -> make_bits(q, s, zero)
      [] type = "inverse" -> make_inverse(q, s, zero)
      [] type = "input" -> make_inputs(q, s, zero)
      [] type = "dabit" -> make_dabits(q, s, zero)
      [] type = "edabit" -> make_edabits(q, s, zero)
      [] type = "PreMulC" -> make_PreMulC(q, s, zero)

(***************************************************************************)
(* The files: shares of every value, bits in the sharing of bits.          *)
(***************************************************************************)
BitScheme(scheme) == IF scheme = "wise_rep3" THEN "rep3" ELSE scheme
SchemeOf(scheme, x) == IF x.bit THEN BitScheme(scheme) ELSE scheme
ModulusOf(q, x) == IF x.bit THEN 2 ELSE q

\* Files::output_shares with the key of the type.
output_shares(j, x, id) ==
    MakeShare(SchemeOf(j.scheme, x), x.v, j.n, ModulusOf(j.q, x), j.key, j.s, id)

SharesOf(j, tuples) ==
    [i \in DOMAIN tuples |-> [k \in DOMAIN tuples[i] |->
        output_shares(j, tuples[i][k], 20 + 7 * i + 2 * k)]]
Files(j) == SharesOf(j, Dealt(j.type, j.q, j.s, j.zero))

\* One number of one party's file is not what was written.
Altered(j, files) ==
    IF j.bad = <<>> THEN files
    ELSE LET b == j.bad[1]
             add(v) == (v + b.d) % j.q
         IN  [files EXCEPT ![b.item][b.place][b.party] =
                IF j.scheme \in MacSchemes
                THEN IF b.mac THEN [@ EXCEPT !.mac[0] = add(@)] ELSE [@ EXCEPT !.share[0] = add(@)]
                ELSE [@ EXCEPT ![0] = add(@)]]

(***************************************************************************)
(* Check-Offline reads tuples until one is wrong or the files end.         *)
(***************************************************************************)
check_bit(v) == v[1] \in {0, 1}
check_square(v, q) == (v[1] * v[1]) % q = v[2]
check_inverse(v, q) == (v[1] * v[2]) % q = 1
check_triple(v, q) == (v[1] * v[2]) % q = v[3]
check_input(v, x) == v[1] = x

check_values(j, v, i) ==
    CASE j.type = "bit" -> check_bit(v)
      [] j.type = "square" -> check_square(v, j.q)
      [] j.type = "inverse" -> check_inverse(v, j.q)
      [] j.type = "triple" -> check_triple(v, j.q)
      [] j.type = "input" -> check_input(v, Dealt(j.type, j.q, j.s, j.zero)[i][1].v)
check_tuple(j, tuple, i) ==
    /\ \A k \in DOMAIN tuple : CheckShare(j.scheme, tuple[k], j.q, j.key)
    /\ check_values(j, [k \in DOMAIN tuple |-> ValueOf(j.scheme, tuple[k], j.q)], i)

Checkable(j) == /\ j.scheme \in {"spdz", "rep3"}
                /\ j.type \in {"bit", "square", "inverse", "triple", "input"}
\* How many tuples it counts.
check(j, files) ==
    LET good == {i \in DOMAIN files : \A l \in 1..i : check_tuple(j, files[l], l)}
    IN  Cardinality(good)

(***************************************************************************)
(* MAC key files: one per party, with the number of parties.               *)
(***************************************************************************)
NoFile == <<>>
KeyFile(n, k) == <<n, k>>
FreshKey(q, s, p, i) == 1 + Prng(q - 1, s, p, i)

read_mac_key_fails(f, n) == f = NoFile \/ f[1] # n

\* The dealer takes the keys from the files if none is missing or zero.
generate_mac_keys(c, n, q, s, i) ==
    LET generate == \E p \in Parties(n) : c.files[p] = NoFile \/ c.files[p][2] = 0
        files == IF generate THEN [p \in Parties(n) |-> KeyFile(n, FreshKey(q, s, p, i))]
                 ELSE c.files
    IN  [c EXCEPT !.files = files, !.dealt = SumOver(n, q, LAMBDA p : files[p][2])]

\* Starting the computation: a party without file makes a share of its own.
read_generate_write_mac_key(c, n, q, s, i) ==
    LET files == [p \in Parties(n) |->
            IF read_mac_key_fails(c.files[p], n) THEN KeyFile(n, FreshKey(q, s, p, i))
            ELSE c.files[p]]
    IN  [c EXCEPT !.files = files, !.used = SumOver(n, q, LAMBDA p : files[p][2])]

\* Check-Offline adds up the files and stops at a missing one.
read_global_mac_key(c, n, q) ==
    IF \E p \in Parties(n) : read_mac_key_fails(c.files[p], n) THEN NoFile
    ELSE <<SumOver(n, q, LAMBDA p : c.files[p][2])>>

Lose(c, p) == [c EXCEPT !.files[p] = NoFile, !.lost = TRUE]

Keys(j) ==
    LET step(c, i) ==
            CASE j.history[i] = "deal" ->
                    [generate_mac_keys(c, j.n, j.q, j.s, i) EXCEPT !.lost = FALSE]
              [] j.history[i] = "start" -> read_generate_write_mac_key(c, j.n, j.q, j.s, i)
              [] j.history[i] = "lose" -> Lose(c, i % j.n)
        first == [files |-> [p \in Parties(j.n) |-> NoFile], dealt |-> 0, used |-> 0, lost |-> TRUE]
    IN  FoldLeft(step, first, [i \in DOMAIN j.history |-> i])

-----------------------------------------------------------------------------
NotYet == <<>>
BadIn(scheme, n) ==
    {<<[item |-> i, place |-> 1, party |-> p, mac |-> b, d |-> d]>> :
        i \in 2..3, p \in Parties(n), b \in {FALSE, scheme = "spdz"}, d \in 1..2}

DealJob(scheme, type, n, q, key, s, zero, bad) ==
    [alg |-> "deal", scheme |-> scheme, type |-> type, n |-> n, q |-> q, key |-> key, s |-> s,
     zero |-> zero, bad |-> bad]
DealJobs ==
    UNION {{DealJob(scheme, type, n, q, 2, s, zero, <<>>) :
                type \in Types(q) \ IF scheme \in {"shamir", "wise_shamir"}
                                    THEN {"dabit", "edabit"} ELSE {},
                n \in PartiesOf(scheme), s \in Seeds, zero \in BOOLEAN} :
           <<scheme, q>> \in ((PlainSchemes \cup MacSchemes) \X {Field, 2^RingBits})
                             \ ({"shamir", "wise_shamir"} \X {2^RingBits})}
BadJobs ==
    UNION {{DealJob(scheme, type, 3, Field, 2, s, FALSE, bad) :
                s \in Seeds, bad \in BadIn(scheme, 3)} :
           scheme \in {"spdz", "rep3"},
           type \in {"bit", "square", "inverse", "triple", "input"}}
KeyJobs == {[alg |-> "keys", n |-> n, q |-> Field, s |-> s, history |-> h] :
                n \in 2..3, s \in Seeds, h \in [1..4 -> {"deal", "start", "lose"}]}

Init == job \in DealJobs \cup BadJobs \cup KeyJobs /\ out = NotYet
WithCount(j, files) == <<files, IF Checkable(j) THEN check(j, files) ELSE Items>>
Result(j) == IF j.alg = "keys" THEN <<Keys(j)>> ELSE WithCount(j, Altered(j, Files(j)))
Compute == out = NotYet /\ out' = Result(job) /\ UNCHANGED job
Next == Compute
Spec == Init /\ [][Next]_<<job, out>>

Done(alg) == out # NotYet /\ job.alg = alg

-----------------------------------------------------------------------------
Sound(x, shares) ==
    Shares(SchemeOf(job.scheme, x), shares, x.v, ModulusOf(job.q, x), job.key)
Related(type, v, q) ==
    CASE type = "triple" -> (v[1] * v[2]) % q = v[3]
      [] type = "square" -> (v[1] * v[1]) % q = v[2]
      [] type = "inverse" -> (v[1] * v[2]) % q = 1
      [] type \in {"bit", "dabit"} -> \A k \in DOMAIN v : v[k] = v[1] /\ v[k] \in {0, 1}
      [] type = "edabit" ->
            \A j \in 1..VectorSize : v[j] = v[VectorSize + j] + 2 * v[2 * VectorSize + j]
      [] OTHER -> TRUE
Telescopes(tuples, q) ==
    \A i \in DOMAIN tuples :
        LET product == ProductOver(i, q, LAMBDA k : tuples[k + 1][3].v)
        IN  product = tuples[i][1].v /\ (i = Items => product = 1)
FilesFit(tuples) ==
    /\ \A i \in DOMAIN tuples :
        /\ \A k \in DOMAIN tuples[i] : Sound(tuples[i][k], out[1][i][k])
        /\ Related(job.type, [k \in DOMAIN tuples[i] |-> tuples[i][k].v], job.q)
    /\ job.type = "PreMulC" => Telescopes(tuples, job.q)
    /\ Checkable(job) => out[2] = Items

\* Whatever the scheme, every tuple in the files is a correct sharing, with
\* copies and MACs, of values in the relation of its type: products, squares,
\* inverses, bits equal in both domains, bits composing to the number, and for
\* PreMulC numbers whose quotients telescope to one over the whole file.
FilesCorrect ==
    Done("deal") /\ job.bad = <<>> => FilesFit(Dealt(job.type, job.q, job.s, job.zero))

\* Check-Offline counts exactly the tuples before the first altered number of a
\* file, whether a share, a copy or a MAC was altered.
AlteredFound ==
    Done("deal") /\ job.bad # <<>> => out[2] = job.bad[1].item - 1

\* The key that tuples are dealt with is the one in the key files until a file
\* is lost, however often the dealer or the computation ran before: the
\* computation then starts with the same key, and so does Check-Offline.
KeysFit ==
    Done("keys") /\ ~out[1].lost =>
        /\ read_global_mac_key(out[1], job.n, job.q) = <<out[1].dealt>>
        /\ read_generate_write_mac_key(out[1], job.n, job.q, job.s, 9).used = out[1].dealt
=============================================================================
