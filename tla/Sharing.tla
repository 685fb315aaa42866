------------------------------ MODULE Sharing ------------------------------
(***************************************************************************)
(* The secret sharings of the protocols: how a value is shared by a dealer *)
(* (Protocols/fake-stuff.hpp), how shares make up a value again, and the   *)
(* check of a dealt sharing.  Values are integers modulo q: a prime for a  *)
(* field, a power of two for a ring, 2 for bits.  Parties are 0 to n - 1,  *)
(* the parts of a share are numbered from 0 as in the code.                *)
(*                                                                         *)
(* A generator of random numbers is a function of its seed: parties with   *)
(* the same seed draw the same numbers, and equal seeds give equal runs.   *)
(***************************************************************************)
EXTENDS Integers, Sequences, FiniteSets, SequencesExt

Parties(n) == 0..(n - 1)
Upto(n) == [i \in 1..n |-> i - 1]
SumOver(n, q, Op(_)) == FoldLeft(LAMBDA v, i : (v + Op(i)) % q, 0, Upto(n))
ProductOver(n, q, Op(_)) == FoldLeft(LAMBDA v, i : (v * Op(i)) % q, 1, Upto(n))

\* The i-th number of generator id in a run with seed s.
Prng(q, s, id, i) == (s * (2 * id + 1) + i * (id + 2) + (s \div q) * (i + 1) + id) % q

InverseMod(x, q) == CHOOSE y \in 1..(q - 1) : (x * y) % q = 1
\* The elements that invert() accepts.
Invertible(q) == {x \in 1..(q - 1) : \E y \in 1..(q - 1) : (x * y) % q = 1}

Total(share, q) == SumOver(Cardinality(DOMAIN share), q, LAMBDA i : share[i])

(***************************************************************************)
(* Sharings without MAC.                                                   *)
(***************************************************************************)
Prngs(n, q, s, id) == [i \in Parties(n) |-> Prng(q, s, id, i)]
\* The last party makes up the sum.
MakeUpLast(a, n, q, x) ==
    [i \in Parties(n) |-> [j \in {0} |-> IF i < n - 1 THEN x[i] ELSE (a - Total(x, q)) % q]]
AdditiveShare(a, n, q, s, id) == MakeUpLast(a, n, q, Prngs(n - 1, q, s, id))

\* FixedVec<T, L>::randomize_to_sum: the first part makes up the sum.
MakeUpFirst(a, L, q, x) ==
    [i \in Parties(L) |-> IF i > 0 THEN x[i - 1] ELSE (a - Total(x, q)) % q]
RandomizeToSum(a, L, q, s, id) ==
    MakeUpFirst(a, L, q, [i \in Parties(L - 1) |-> Prng(q, s, id, i + 1)])

\* Each party gets the parts of others too.
Rep3Parts(add_shares) ==
    [i \in Parties(3) |-> [j \in 0..1 |-> add_shares[IF j = 0 THEN (i + 1) % 3 ELSE i]]]
Rep3Share(a, q, s, id) == Rep3Parts(RandomizeToSum(a, 3, q, s, id))

Rep4Parts(add_shares) == [i \in Parties(4) |-> [j \in 0..2 |-> add_shares[(i + j) % 4]]]
Rep4Share(a, q, s, id) == Rep4Parts(RandomizeToSum(a, 4, q, s, id))

\* A polynomial of degree t at the points 1 to n (ShamirInput's table of powers).
Power(x, e, q) == ProductOver(e, q, LAMBDA i : x)
ShamirShare(a, n, t, q, s, id) ==
    [i \in Parties(n) |-> [j \in {0} |->
        (a + SumOver(t, q, LAMBDA k : Power(i + 1, k + 1, q) * Prng(q, s, id, k))) % q]]

\* Lagrange coefficient of party i for the n_points parties from start.
ShamirRecFactor(i, n_total, start, n_points, q) ==
    ProductOver(n_points, q, LAMBDA j :
        LET other == (start + j) % n_total
        IN  IF other = i THEN 1 ELSE (other + 1) * InverseMod((other - i) % q, q))

Threshold(n) == (n - 1) \div 2

(***************************************************************************)
(* Sharings with MAC: pairs of a sharing of the value and one of its       *)
(* product with the key.                                                   *)
(***************************************************************************)
WithMac(x, mac) == [i \in DOMAIN x |-> [share |-> x[i], mac |-> mac[i]]]

SpdzShare(a, n, q, key, s, id) ==
    WithMac(AdditiveShare(a, n, q, s, id), AdditiveShare(a * key, n, q, s, id + 1))

\* SpdzWiseShare over replicated sharing: party i holds the parts i and i - 1.
WiseRep3Parts(x) == [i \in Parties(3) |-> [j \in 0..1 |-> x[(i - j) % 3]]]
WiseRep3Share(a, q, key, s, id) ==
    WithMac(WiseRep3Parts(RandomizeToSum(a % q, 3, q, s, id)),
            WiseRep3Parts(RandomizeToSum((a * key) % q, 3, q, s, id + 1)))

WiseShamirShare(a, n, q, key, s, id) ==
    WithMac(ShamirShare(a, n, Threshold(n), q, s, id),
            ShamirShare((a * key) % q, n, Threshold(n), q, s, id + 1))

(***************************************************************************)
(* make_share for every type of share, and the value of a sharing.         *)
(***************************************************************************)
PlainSchemes == {"semi", "rep3", "rep4", "shamir"}
MacSchemes == {"spdz", "wise_rep3", "wise_shamir"}
PartiesOf(scheme) == CASE scheme \in {"rep3", "wise_rep3"} -> {3}
                       [] scheme = "rep4" -> {4}
                       [] scheme \in {"semi", "spdz"} -> {2, 3}
                       [] scheme \in {"shamir", "wise_shamir"} -> {3, 4}

MakeShare(scheme, a, n, q, key, s, id) ==
    CASE scheme = "semi" -> AdditiveShare(a, n, q, s, id)
      [] scheme = "rep3" -> Rep3Share(a, q, s, id)
      [] scheme = "rep4" -> Rep4Share(a, q, s, id)
      [] scheme = "shamir" -> ShamirShare(a, n, Threshold(n), q, s, id)
      [] scheme = "spdz" -> SpdzShare(a, n, q, key, s, id)
      [] scheme = "wise_rep3" -> WiseRep3Share(a, q, key, s, id)
      [] scheme = "wise_shamir" -> WiseShamirShare(a, n, q, key, s, id)

\* reconstruct() for shares without MAC, by the number of their parts.
Reconstruct(scheme, x, q) ==
    LET n == Cardinality(DOMAIN x)
    IN  IF scheme \in {"shamir", "wise_shamir"}
        THEN SumOver(n, q, LAMBDA i : ShamirRecFactor(i, n, 0, n, q) * x[i][0])
        ELSE SumOver(n, q, LAMBDA i : x[i][0])
ValueOf(scheme, x, q) ==
    IF scheme \in MacSchemes THEN Reconstruct(scheme, [i \in DOMAIN x |-> x[i].share], q)
    ELSE Reconstruct(scheme, x, q)
MacOf(scheme, x, q) == Reconstruct(scheme, [i \in DOMAIN x |-> x[i].mac], q)

\* Every party has the parts that its neighbours have too.
Replicated(scheme, x) ==
    CASE scheme = "rep3" -> \A i \in Parties(3) : x[i][1] = x[(i - 1) % 3][0]
      [] scheme = "rep4" -> \A i \in Parties(4) : \A j \in 0..1 : x[i][j + 1] = x[(i + 1) % 4][j]
      [] scheme = "wise_rep3" -> \A i \in Parties(3) :
            /\ x[i].share[1] = x[(i - 1) % 3].share[0]
            /\ x[i].mac[1] = x[(i - 1) % 3].mac[0]
      [] OTHER -> TRUE

\* x is a sharing of a, with the right MAC.
Shares(scheme, x, a, q, key) ==
    /\ Replicated(scheme, x)
    /\ ValueOf(scheme, x, q) = a % q
    /\ scheme \in MacSchemes => MacOf(scheme, x, q) = (a * key) % q

(***************************************************************************)
(* check_share: the MAC for additive sharing, equal copies for replicated. *)
(***************************************************************************)
CheckShare(scheme, x, q, key) ==
    CASE scheme = "spdz" -> MacOf(scheme, x, q) = (ValueOf(scheme, x, q) * key) % q
      [] scheme = "rep3" -> \A i \in Parties(3) : x[i][1] = x[(i - 1) % 3][0]
=============================================================================
