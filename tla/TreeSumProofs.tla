--------------------------- MODULE TreeSumProofs ---------------------------
(***************************************************************************)
(* TreeSum opens the sum of all shares of the right opening at every party, *)
(* for any number of parties, any fan-in and fan-out and any base player.   *)
(*                                                                          *)
(* What does not change in a behaviour is a configuration c (variable par). *)
(* The proof rests on four facts about it: relative numbers are a renaming  *)
(* of the parties; all parties go through the same levels, each a cut of    *)
(* the one before; which shares a party has added is a function of its      *)
(* level (Carrier); and sums go to smaller relative numbers on the way up,  *)
(* to larger ones on the way down, so that the two never share a channel.   *)
(***************************************************************************)
EXTENDS TreeSum, WellFoundedInduction, TLAPS

(* Integers.                                                               *)

\* Division with remainder.
LEMMA DivMod ==
    ASSUME NEW s \in Nat, s > 0, NEW x \in Int
    PROVE  /\ x \div s \in Int
           /\ x % s \in 0 .. s - 1
           /\ x = s * (x \div s) + (x % s)
  OBVIOUS

\* Quotient and remainder are unique.
LEMMA DivModUnique ==
    ASSUME NEW s \in Nat, s > 0, NEW q \in Int, NEW r \in 0 .. s - 1
    PROVE  (s * q + r) % s = r /\ (s * q + r) \div s = q
  OBVIOUS

\* A number below the modulus is its own remainder.
LEMMA ModSmall ==
    ASSUME NEW s \in Nat, s > 0, NEW x \in 0 .. s - 1
    PROVE  x % s = x
  OBVIOUS

\* A remainder is not larger than the number.
LEMMA ModBelow ==
    ASSUME NEW s \in Nat, s > 0, NEW x \in Nat
    PROVE  x % s \in 0 .. s - 1 /\ x % s <= x
  OBVIOUS

\* The senders of a level are one level apart and belong to one receiver.
LEMMA ModShift ==
    ASSUME NEW s \in Nat, s > 0, NEW x \in Nat
    PROVE  (x + s) % s = x % s
<1> DEFINE q == x \div s
           r == x % s
<1>1. q \in Int /\ r \in 0 .. s - 1 /\ x = s * q + r
  BY DivMod
<1> HIDE DEF q, r
<1>2. x + s = s * (q + 1) + r
  BY <1>1
<1>3. (s * (q + 1) + r) % s = r
  BY <1>1, DivModUnique
<1>4. QED BY <1>2, <1>3 DEF r

\* Two senders of the same receiver are at least a level apart.
LEMMA ModGap ==
    ASSUME NEW s \in Nat, s > 0, NEW x \in Nat, NEW y \in Nat,
           x % s = y % s, x < y
    PROVE  x + s <= y
<1> DEFINE q == x \div s
           r == x % s
           t == y \div s
<1>1. q \in Int /\ r \in 0 .. s - 1 /\ x = s * q + r
  BY DivMod
<1>2. t \in Int /\ y = s * t + r
  BY DivMod
<1> HIDE DEF q, r, t
<1>3. q < t
  <2>1. SUFFICES ASSUME t <= q PROVE FALSE
    BY <1>1, <1>2
  <2>2. s * t <= s * q
    BY <2>1, <1>1, <1>2
  <2>3. QED BY <2>2, <1>1, <1>2
<1>4. s * (q + 1) <= s * t
  BY <1>1, <1>2, <1>3
<1>5. QED BY <1>1, <1>2, <1>4

\* Who sends to r on the way down: b numbers from r * b on are sent to by r.
LEMMA DivRange ==
    ASSUME NEW r \in Nat, NEW b \in Nat, b > 0, NEW x \in Nat,
           r * b <= x, x < (r + 1) * b
    PROVE  x \div b = r
  OBVIOUS

\* The sum comes from a smaller relative number.
LEMMA DivBelow ==
    ASSUME NEW x \in Nat, x > 0, NEW b \in Nat, b > 1
    PROVE  x \div b \in Nat /\ x \div b < x
  OBVIOUS

\* Every set of numbers has a least element.
LEMMA Least ==
    ASSUME NEW T, T \subseteq Nat, T # {}
    PROVE  \E x \in T : \A y \in T : x <= y
<1>1. IsWellFoundedOn(OpToRel(<, Nat), Nat)
  BY NatLessThanWellFounded
<1>2. PICK x \in T : \A y \in T : ~(<<y, x>> \in OpToRel(<, Nat))
  BY <1>1, WFMin
<1>3. \A y \in T : ~(y < x)
  BY <1>2 DEF OpToRel
<1>4. QED BY <1>3

-----------------------------------------------------------------------------
(* Configurations.                                                         *)

Config == {c \in [n : Nat \ {0}, sum : Nat \ {0, 1}, bcast : Nat \ {0, 1},
                  base : Nat, large : BOOLEAN] : c.base < c.n}

Numbers(c) == 0 .. c.n - 1
Rel(c, p) == (p - c.base) % c.n
Ply(c, r) == (c.base + r) % c.n
Cut(c, l) == (l - 2 + c.sum) \div c.sum

\* Relative numbers rename the parties.
LEMMA Renaming ==
    ASSUME NEW c \in Config, NEW p \in Numbers(c)
    PROVE  /\ Rel(c, p) \in Numbers(c) /\ Ply(c, p) \in Numbers(c)
           /\ Ply(c, Rel(c, p)) = p /\ Rel(c, Ply(c, p)) = p
<1> DEFINE n == c.n
           b == c.base
<1>1. n \in Nat /\ b \in 0 .. n - 1 /\ p \in 0 .. n - 1
  BY DEF Config, Numbers
<1>2. Rel(c, p) = (p - b) % n /\ Ply(c, p) = (b + p) % n
  BY DEF Rel, Ply
<1>3. Rel(c, Ply(c, p)) = (((b + p) % n) - b) % n /\ Ply(c, Rel(c, p)) = (b + ((p - b) % n)) % n
  BY DEF Rel, Ply
<1>4. Numbers(c) = 0 .. n - 1
  BY DEF Numbers
<1> HIDE DEF n, b
<1>5. (p - b) % n \in 0 .. n - 1 /\ (b + p) % n \in 0 .. n - 1
  BY <1>1
<1>6. (b + ((p - b) % n)) % n = p
  BY <1>1
<1>7. (((b + p) % n) - b) % n = p
  BY <1>1
<1>8. QED BY <1>2, <1>3, <1>4, <1>5, <1>6, <1>7

\* Whom a party gets the sum from has a smaller relative number.
LEMMA ServerNumber ==
    ASSUME NEW c \in Config, NEW p \in Numbers(c), Rel(c, p) > 0
    PROVE  LET x == Ply(c, Rel(c, p) \div c.bcast)
           IN /\ x \in Numbers(c)
              /\ Rel(c, x) = Rel(c, p) \div c.bcast
              /\ Rel(c, x) < Rel(c, p)
<1>1. c.n \in Nat /\ c.bcast \in Nat /\ c.bcast > 1
  BY DEF Config
<1>2. Rel(c, p) \in Nat /\ Rel(c, p) < c.n
  <2>1. Rel(c, p) \in Numbers(c)
    BY Renaming
  <2>2. QED BY <2>1, <1>1 DEF Numbers
<1>3. Rel(c, p) \div c.bcast \in Nat /\ Rel(c, p) \div c.bcast < Rel(c, p)
  BY <1>1, <1>2, DivBelow
<1>4. Rel(c, p) \div c.bcast \in Numbers(c)
  BY <1>1, <1>2, <1>3 DEF Numbers
<1>5. QED BY <1>3, <1>4, Renaming

\* A level is cut to a smaller one, and in the same order.
LEMMA Cuts ==
    ASSUME NEW c \in Config, NEW l \in Nat
    PROVE  /\ Cut(c, l) \in Nat
           /\ l > 0 => Cut(c, l) < l
           /\ l > 1 => Cut(c, l) > 0
           /\ l < 2 => Cut(c, l) = 0
           /\ \A m \in Nat : l <= m => Cut(c, l) <= Cut(c, m)
<1> DEFINE k == c.sum
<1>1. k \in Nat /\ k > 1
  BY DEF Config
<1>2. \A x : Cut(c, x) = (x - 2 + k) \div k
  BY DEF Cut
<1> HIDE DEF k
<1>3. (l - 2 + k) \div k \in Nat
  BY <1>1
<1>4. l > 0 => (l - 2 + k) \div k < l
  BY <1>1
<1>5. l > 1 => (l - 2 + k) \div k > 0
  BY <1>1
<1>6. l < 2 => (l - 2 + k) \div k = 0
  BY <1>1
<1>7. ASSUME NEW m \in Nat, l <= m
      PROVE  (l - 2 + k) \div k <= (m - 2 + k) \div k
  BY <1>1, <1>7
<1>8. QED BY <1>2, <1>3, <1>4, <1>5, <1>6, <1>7

-----------------------------------------------------------------------------
(* Levels: the number of parties, cut again and again.                     *)

Closed(c, S) == c.n \in S /\ \A l \in S : Cut(c, l) \in S
Levels(c) == {l \in 0 .. c.n : \A S \in SUBSET (0 .. c.n) : Closed(c, S) => l \in S}

\* Levels are closed under cutting, and the least such set.
LEMMA LevelsClosed ==
    ASSUME NEW c \in Config
    PROVE  /\ Levels(c) \subseteq 0 .. c.n
           /\ Closed(c, Levels(c))
           /\ \A S \in SUBSET (0 .. c.n) : Closed(c, S) => Levels(c) \subseteq S
<1>1. c.n \in Nat /\ c.n > 0
  BY DEF Config
<1>2. ASSUME NEW l \in 0 .. c.n PROVE Cut(c, l) \in 0 .. c.n
  <2>1. l \in Nat
    BY <1>1
  <2>2. Cut(c, l) \in Nat /\ (l > 0 => Cut(c, l) < l) /\ (l < 2 => Cut(c, l) = 0)
    BY <2>1, Cuts
  <2>3. QED BY <1>1, <2>1, <2>2
<1>3. c.n \in Levels(c)
  BY <1>1 DEF Levels, Closed
<1>4. ASSUME NEW l \in Levels(c) PROVE Cut(c, l) \in Levels(c)
  BY <1>2 DEF Levels, Closed
<1>5. QED BY <1>3, <1>4 DEF Levels, Closed

\* There is no level between another one and its cut.
LEMMA NoLevelBetween ==
    ASSUME NEW c \in Config, NEW x \in Levels(c), NEW y \in Levels(c), x < y
    PROVE  x <= Cut(c, y)
<1>1. c.n \in Nat /\ Levels(c) \subseteq 0 .. c.n /\ Levels(c) \subseteq Nat
  BY LevelsClosed DEF Config
<1>2. Closed(c, Levels(c))
  BY LevelsClosed
<1> DEFINE Good(v, u) == u >= v \/ u <= Cut(c, v)
           Tower == {v \in Levels(c) : \A u \in Levels(c) : Good(v, u)}
<1>3. c.n \in Tower
  <2> DEFINE S == {u \in Levels(c) : Good(c.n, u)}
  <2>1. Closed(c, S)
    <3>1. c.n \in S
      BY <1>1, <1>2 DEF Closed
    <3>2. ASSUME NEW u \in S PROVE Cut(c, u) \in S
      <4>1. u \in Nat /\ u \in Levels(c) /\ Cut(c, u) \in Levels(c) /\ Cut(c, u) \in Nat
        BY <1>1, <1>2 DEF Closed
      <4>2. CASE u >= c.n
        BY <4>1, <4>2, <1>1
      <4>3. CASE u <= Cut(c, c.n)
        <5>1. u > 0 => Cut(c, u) < u
          BY <4>1, Cuts
        <5>2. u = 0 => Cut(c, u) = 0
          BY <4>1, Cuts
        <5>3. Cut(c, c.n) \in Nat
          BY <1>1, Cuts
        <5>4. Cut(c, u) <= Cut(c, c.n)
          BY <4>1, <4>3, <5>1, <5>2, <5>3
        <5>5. QED BY <4>1, <5>4
      <4>4. QED BY <4>2, <4>3
    <3>3. QED BY <3>1, <3>2 DEF Closed
  <2>2. S \subseteq 0 .. c.n
    BY <1>1
  <2>3. Levels(c) \subseteq S
    BY <2>1, <2>2, LevelsClosed
  <2>4. QED BY <2>3, <1>2 DEF Closed
<1>4. ASSUME NEW v \in Tower PROVE Cut(c, v) \in Tower
  <2> DEFINE w == Cut(c, v)
             S == {u \in Levels(c) : Good(w, u)}
  <2>1. v \in Levels(c) /\ v \in Nat /\ w \in Levels(c) /\ w \in Nat /\ w <= v
    <3>1. v \in Nat /\ v \in Levels(c)
      BY <1>1
    <3>2. w \in Levels(c)
      BY <1>2, <3>1 DEF Closed
    <3>3. w \in Nat /\ (v > 0 => w < v) /\ (v < 2 => w = 0)
      BY <3>1, Cuts
    <3>4. QED BY <3>1, <3>2, <3>3
  <2>2. Closed(c, S)
    <3>1. c.n \in S
      BY <1>1, <1>2, <2>1 DEF Closed
    <3>2. ASSUME NEW u \in S PROVE Cut(c, u) \in S
      <4>1. u \in Nat /\ u \in Levels(c) /\ Cut(c, u) \in Levels(c) /\ Cut(c, u) \in Nat
        BY <1>1, <1>2 DEF Closed
      <4>2. Good(v, u) /\ Good(v, Cut(c, u))
        BY <4>1
      <4>3. Cut(c, u) <= u
        <5>1. (u > 0 => Cut(c, u) < u) /\ (u < 2 => Cut(c, u) = 0)
          BY <4>1, Cuts
        <5>2. QED BY <4>1, <5>1
      <4>4. v <= u => w <= Cut(c, u)
        BY <2>1, <4>1, Cuts
      <4>5. Cut(c, w) \in Nat
        BY <2>1, Cuts
      <4>6. CASE u >= v
        BY <4>1, <4>4, <4>6, <2>1
      <4>7. CASE u < v
        <5>1. u <= w
          BY <4>2, <4>7, <4>1, <2>1
        <5>2. CASE u = w
          BY <5>2, <4>1, <4>5
        <5>3. CASE u < w
          BY <5>3, <4>1, <4>3, <4>5, <2>1
        <5>4. QED BY <5>1, <5>2, <5>3, <4>1, <2>1
      <4>8. QED BY <4>6, <4>7, <4>1, <2>1
    <3>3. QED BY <3>1, <3>2 DEF Closed
  <2>3. S \subseteq 0 .. c.n
    BY <1>1
  <2>4. Levels(c) \subseteq S
    BY <2>2, <2>3, LevelsClosed
  <2>5. QED BY <2>4, <2>1
<1>5. Levels(c) \subseteq Tower
  <2>1. Closed(c, Tower)
    BY <1>3, <1>4 DEF Closed
  <2>2. Tower \subseteq 0 .. c.n
    BY <1>1
  <2>3. QED BY <2>1, <2>2, LevelsClosed
<1>6. Good(y, x)
  BY <1>5
<1>7. QED
  BY <1>6, <1>1

\* A party sends in one level only.
LEMMA OneLevel ==
    ASSUME NEW c \in Config, NEW x \in Levels(c), NEW y \in Levels(c), NEW r \in Nat,
           Cut(c, x) <= r, r < x, Cut(c, y) <= r, r < y
    PROVE  x = y
<1>1. x \in Nat /\ y \in Nat
  BY LevelsClosed DEF Config
<1>2. Cut(c, x) \in Nat /\ Cut(c, y) \in Nat
  BY <1>1, Cuts
<1>3. (x < y => x <= Cut(c, y)) /\ (y < x => y <= Cut(c, x))
  BY NoLevelBetween
<1>4. QED BY <1>1, <1>2, <1>3

\* The last cut is to nothing.
LEMMA ZeroIsLevel == ASSUME NEW c \in Config PROVE 0 \in Levels(c)
<1>1. Levels(c) \subseteq Nat /\ c.n \in Levels(c)
  BY LevelsClosed DEF Closed, Config
<1>2. PICK x \in Levels(c) : \A y \in Levels(c) : x <= y
  BY <1>1, Least
<1>3. x \in Nat /\ Cut(c, x) \in Levels(c)
  BY <1>1, LevelsClosed DEF Closed
<1>4. x > 0 => Cut(c, x) < x /\ Cut(c, x) \in Nat
  BY <1>3, Cuts
<1>5. QED BY <1>2, <1>3, <1>4

-----------------------------------------------------------------------------
(* Which shares a party has added once it is through with a level.         *)

\* w[l][q] is the relative number of the party that has q's share at level l,
\* for the levels from y on.
CarriesFrom(c, w, y) ==
    /\ w \in [0 .. c.n -> [Numbers(c) -> Numbers(c)]]
    /\ \A q \in Numbers(c) :
          /\ w[c.n][q] = Rel(c, q)
          /\ \A l \in Levels(c) : l > 0 /\ l >= y => w[l][q] < l
          /\ \A l \in Levels(c) :
                Cut(c, l) > 0 /\ Cut(c, l) >= y => w[Cut(c, l)][q] = w[l][q] % Cut(c, l)
Carrier(c) == CHOOSE w : CarriesFrom(c, w, 0)

\* One more level can be carried through.
LEMMA CarryOn ==
    ASSUME NEW c \in Config, NEW y \in Levels(c), NEW w, CarriesFrom(c, w, y)
    PROVE  \E v : CarriesFrom(c, v, Cut(c, y))
<1> DEFINE z == Cut(c, y)
           N == Numbers(c)
           v == [w EXCEPT ![z] = [q \in N |-> w[y][q] % z]]
<1>1. /\ Levels(c) \subseteq 0 .. c.n /\ c.n \in Nat /\ c.n > 0 /\ N = 0 .. c.n - 1
      /\ y \in Nat /\ z \in Levels(c) /\ z \in Nat
      /\ \A l \in Levels(c) : l \in Nat /\ Cut(c, l) \in Levels(c) /\ Cut(c, l) \in Nat
  <2>1. Levels(c) \subseteq 0 .. c.n /\ c.n \in Nat /\ c.n > 0
    BY LevelsClosed DEF Config
  <2>2. \A l \in Levels(c) : l \in Nat /\ Cut(c, l) \in Levels(c)
    BY <2>1, LevelsClosed DEF Closed
  <2>3. QED BY <2>1, <2>2 DEF Numbers
<1>2. CASE y = 0
  <2>1. z = 0
    BY <1>2, Cuts
  <2>2. QED BY <1>2, <2>1
<1>3. CASE y > 0 /\ z = 0
  <2>1. \A l \in Levels(c) : l > 0 => l >= y
    BY <1>1, <1>3, NoLevelBetween
  <2>2. CarriesFrom(c, w, z)
    BY <1>1, <1>3, <2>1 DEF CarriesFrom
  <2>3. QED BY <2>2
<1>4. CASE y > 0 /\ z > 0
  <2>1. z < y
    BY <1>1, <1>4, Cuts
  <2>2. w \in [0 .. c.n -> [N -> N]] /\ c.n # z
    BY <1>1, <2>1 DEF CarriesFrom
  <2>3. \A q \in N : w[y][q] \in Nat /\ w[y][q] % z \in 0 .. z - 1 /\ w[y][q] % z \in N
    <3>1. TAKE q \in N
    <3>2. w[y][q] \in Nat
      BY <1>1, <2>2
    <3>3. w[y][q] % z \in 0 .. z - 1
      BY <3>2, <1>1, <1>4, ModBelow
    <3>4. QED BY <3>2, <3>3, <1>1, <2>1
  <2>4. /\ v \in [0 .. c.n -> [N -> N]]
        /\ \A q \in N : v[z][q] = w[y][q] % z
        /\ \A l \in 0 .. c.n : l # z => v[l] = w[l]
    BY <1>1, <2>2, <2>3
  <2>5. ASSUME NEW l \in Levels(c), l > z PROVE l >= y
    BY <1>1, <2>5, NoLevelBetween
  <2> HIDE DEF v
  <2>6. \A q \in N : v[c.n][q] = Rel(c, q)
    BY <2>2, <2>4, <1>1 DEF CarriesFrom
  <2>7. ASSUME NEW q \in N, NEW l \in Levels(c), l > 0, l >= z
        PROVE  v[l][q] < l
    <3>1. CASE l = z
      <4>1. v[l][q] = w[y][q] % z
        BY <3>1, <2>4
      <4>2. QED BY <3>1, <4>1, <2>3, <1>1
    <3>2. CASE l > z
      BY <3>2, <2>5, <2>4, <2>7, <1>1 DEF CarriesFrom
    <3>3. QED BY <3>1, <3>2, <2>7, <1>1
  <2>8. ASSUME NEW q \in N, NEW l \in Levels(c), Cut(c, l) > 0, Cut(c, l) >= z
        PROVE  v[Cut(c, l)][q] = v[l][q] % Cut(c, l)
    <3>1. Cut(c, l) < l
      <4>1. l > 0
        BY <2>8, <1>1, Cuts
      <4>2. QED BY <4>1, <1>1, Cuts
    <3>2. v[l] = w[l]
      <4>1. l # z /\ l \in 0 .. c.n
        <5>1. l \in Nat /\ Cut(c, l) \in Nat /\ z \in Nat
          BY <1>1
        <5>2. QED BY <5>1, <3>1, <2>8, <1>1
      <4>2. QED BY <4>1, <2>4
    <3>3. CASE Cut(c, l) = z
      <4>1. l = y
        <5>1. (l < y => l <= z) /\ (y < l => y <= Cut(c, l))
          BY NoLevelBetween
        <5>2. QED BY <5>1, <3>1, <3>3, <2>1, <1>1
      <4>2. QED BY <4>1, <3>2, <3>3, <2>4
    <3>4. CASE Cut(c, l) > z
      <4>1. Cut(c, l) >= y
        BY <3>4, <2>5, <1>1
      <4>2. w[Cut(c, l)][q] = w[l][q] % Cut(c, l)
        BY <4>1, <2>8 DEF CarriesFrom
      <4>3. v[Cut(c, l)] = w[Cut(c, l)]
        BY <3>4, <2>4, <1>1
      <4>4. QED BY <4>2, <4>3, <3>2
    <3>5. QED BY <3>3, <3>4, <2>8, <1>1
  <2>9. CarriesFrom(c, v, z)
    BY <2>4, <2>6, <2>7, <2>8 DEF CarriesFrom
  <2>10. QED BY <2>9
<1>5. QED BY <1>1, <1>2, <1>3, <1>4

\* There is a carrier for all levels.
LEMMA CarrierExists == ASSUME NEW c \in Config PROVE CarriesFrom(c, Carrier(c), 0)
<1> DEFINE T == {y \in Levels(c) : \E w : CarriesFrom(c, w, y)}
           N == Numbers(c)
           w0 == [l \in 0 .. c.n |-> [q \in N |-> Rel(c, q)]]
<1>1. /\ Levels(c) \subseteq 0 .. c.n /\ c.n \in Nat /\ c.n > 0 /\ N = 0 .. c.n - 1
      /\ c.n \in Levels(c)
      /\ \A l \in Levels(c) : Cut(c, l) \in Levels(c)
  BY LevelsClosed DEF Config, Closed, Numbers
<1>2. c.n \in T
  <2>1. \A q \in N : Rel(c, q) \in N
    BY Renaming
  <2>2. w0 \in [0 .. c.n -> [N -> N]] /\ \A q \in N : w0[c.n][q] = Rel(c, q)
    BY <2>1, <1>1
  <2>3. \A q \in N, l \in Levels(c) : l >= c.n => w0[l][q] < l
    BY <2>1, <1>1
  <2>4. \A l \in Levels(c) : ~(Cut(c, l) > 0 /\ Cut(c, l) >= c.n)
    <3>1. TAKE l \in Levels(c)
    <3>2. l \in Nat /\ l <= c.n /\ Cut(c, l) \in Nat
      BY <1>1, Cuts
    <3>3. (l > 0 => Cut(c, l) < l) /\ (l < 2 => Cut(c, l) = 0)
      BY <3>2, Cuts
    <3>4. QED BY <3>2, <3>3, <1>1
  <2> HIDE DEF w0
  <2>5. CarriesFrom(c, w0, c.n)
    BY <2>2, <2>3, <2>4 DEF CarriesFrom
  <2>6. QED BY <2>5, <1>1
<1>3. ASSUME NEW y \in T PROVE Cut(c, y) \in T
  <2>1. PICK w : CarriesFrom(c, w, y)
    OBVIOUS
  <2>2. \E v : CarriesFrom(c, v, Cut(c, y))
    BY <2>1, CarryOn
  <2>3. QED BY <2>2, <1>1
<1>4. Levels(c) \subseteq T
  <2>1. T \in SUBSET (0 .. c.n)
    BY <1>1
  <2>2. Closed(c, T)
    BY <1>2, <1>3 DEF Closed
  <2>3. QED BY <2>1, <2>2, LevelsClosed
<1>5. \E w : CarriesFrom(c, w, 0)
  BY <1>4, ZeroIsLevel
<1>6. QED BY <1>5 DEF Carrier

-----------------------------------------------------------------------------
(* The inductive invariant, in a configuration c.                          *)

Values(c) == [run : 0 .. MaxRuns, count : [Numbers(c) -> Nat]]
Full(c, o) == [run |-> o, count |-> [q \in Numbers(c) |-> 1]]
First(c, r) == IF r = 0 THEN 1 ELSE r * c.bcast

TypeInv(c) ==
    /\ runs \in [Numbers(c) -> 0 .. MaxRuns]
    /\ phase \in [Numbers(c) -> {"up", "add", "down", "spread", "idle"}]
    /\ level \in [Numbers(c) -> 0 .. c.n] /\ last \in [Numbers(c) -> 0 .. c.n]
    /\ next \in [Numbers(c) -> Nat]
    /\ value \in [Numbers(c) -> Values(c)]
    /\ vals \in [Numbers(c) -> Seq(Values(c))]
    /\ chan \in [Numbers(c) -> [Numbers(c) -> Seq(Values(c))]]

\* Where a party is in an opening.
PlaceOK(c, p) ==
    /\ phase[p] # "idle" => runs[p] > 0
    /\ phase[p] \in {"up", "add"} => level[p] \in Levels(c) /\ level[p] > 0
    /\ phase[p] = "add" =>
          /\ last[p] \in Levels(c) /\ level[p] = Cut(c, last[p])
          /\ Rel(c, p) < level[p]
          /\ next[p] >= level[p] /\ next[p] % level[p] = Rel(c, p)
    /\ phase[p] = "spread" => next[p] >= First(c, Rel(c, p))

\* Whose shares a party has, each once: those it carries at its level, with
\* those of the senders it is through with; in the end, all.
Counts(c, p, q) ==
    LET w == Carrier(c)
        r == Rel(c, p)
    IN /\ phase[p] = "up" /\ r < level[p] =>
             value[p].count[q] = IF w[level[p]][q] = r THEN 1 ELSE 0
       /\ phase[p] = "add" =>
             value[p].count[q] =
                IF w[last[p]][q] < next[p] /\ w[last[p]][q] % level[p] = r THEN 1 ELSE 0
       /\ phase[p] = "down" /\ r = 0 => value[p].count[q] = 1
       /\ phase[p] \in {"spread", "idle"} /\ runs[p] > 0 => value[p].count[q] = 1

\* p has sent its sum up, at level l, and not received one.
Sent(c, p) ==
    /\ Rel(c, p) > 0
    /\ phase[p] = "down" \/ (phase[p] = "up" /\ level[p] <= Rel(c, p))
SentAt(c, p, l) ==
    /\ Cut(c, l) <= Rel(c, p) /\ Rel(c, p) < l
    /\ \A q \in Numbers(c) :
          value[p].count[q] = IF Carrier(c)[l][q] = Rel(c, p) THEN 1 ELSE 0

ValuesOK(c, p) ==
    /\ value[p].run = runs[p]
    /\ \A q \in Numbers(c) : Counts(c, p, q)
    /\ Sent(c, p) => \E l \in Levels(c) : SentAt(c, p, l)
    /\ Len(vals[p]) = IF phase[p] \in {"spread", "idle"} THEN runs[p] ELSE runs[p] - 1
    /\ \A o \in 1 .. Len(vals[p]) : vals[p][o] = Full(c, o)

\* p has nothing left to send up in opening o.
SentUp(c, p) ==
    \/ phase[p] \in {"down", "spread", "idle"}
    \/ phase[p] = "up" /\ level[p] <= Rel(c, p)
Past(c, p, o) == runs[p] > o \/ (runs[p] = o /\ SentUp(c, p))

\* A share that has left its party tells that the party has sent it, and a
\* party that begins an opening that all are past the one before.
Known(c, p, q) ==
    /\ q # p /\ value[p].count[q] > 0 => Past(c, q, runs[p])
    /\ runs[p] > 0 => Past(c, q, runs[p] - 1)

\* What p has sent up to q at level l and q has not added yet.
Upward(c, p, q, l, m) ==
    /\ m.run = runs[p] /\ runs[p] > 0 /\ SentUp(c, p)
    /\ Cut(c, l) > 0 /\ Cut(c, l) <= Rel(c, p) /\ Rel(c, p) < l
    /\ Rel(c, q) = Rel(c, p) % Cut(c, l)
    /\ \A x \in Numbers(c) :
          /\ m.count[x] = IF Carrier(c)[l][x] = Rel(c, p) THEN 1 ELSE 0
          /\ m.count[x] > 0 => Past(c, x, runs[p])
    /\ runs[q] <= runs[p]
    /\ runs[q] = runs[p] =>
          /\ phase[q] \in {"up", "add"}
          /\ \/ level[q] >= l
             \/ phase[q] = "add" /\ level[q] = Cut(c, l) /\ next[q] <= Rel(c, p)

\* p has sent the sum of opening o to the party with relative number r.
SentDown(c, p, o, r) ==
    \/ runs[p] > o
    \/ runs[p] = o /\ (phase[p] = "idle" \/ (phase[p] = "spread" /\ next[p] > r))

\* What p has sent down to q and q has not received yet.
Downward(c, p, q, m) ==
    /\ Rel(c, p) = Rel(c, q) \div c.bcast
    /\ m = Full(c, runs[q]) /\ phase[q] \in {"up", "add", "down"}
    /\ SentDown(c, p, runs[q], Rel(c, q))
    /\ runs[p] > runs[q] => runs[p] = runs[q] + 1 /\ phase[p] \in {"up", "add", "down"}
    /\ \A x \in Numbers(c) : Past(c, x, runs[q])

\* A channel has at most one message.
ChannelOK(c, p, q) ==
    chan[p][q] # <<>> =>
        /\ chan[p][q] = <<Head(chan[p][q])>>
        /\ \/ Rel(c, q) < Rel(c, p)
              /\ \E l \in Levels(c) : Upward(c, p, q, l, Head(chan[p][q]))
           \/ Rel(c, p) < Rel(c, q) /\ Downward(c, p, q, Head(chan[p][q]))

\* A party has as many sums as it has been sent.
Served(c, q) ==
    LET p == Ply(c, Rel(c, q) \div c.bcast)
    IN Rel(c, q) > 0 =>
          IF phase[q] \in {"spread", "idle"}
          THEN SentDown(c, p, runs[q], Rel(c, q))
          ELSE SentDown(c, p, runs[q] - 1, Rel(c, q))

Inductive(c) ==
    /\ par = c /\ c \in Config
    /\ TypeInv(c)
    /\ \A p \in Numbers(c) : PlaceOK(c, p) /\ ValuesOK(c, p) /\ Served(c, p)
    /\ \A p, q \in Numbers(c) : Known(c, p, q) /\ ChannelOK(c, p, q)

\* What a carrier is, for all levels.
LEMMA CarrierFacts ==
    ASSUME NEW c \in Config
    PROVE  /\ Carrier(c) \in [0 .. c.n -> [Numbers(c) -> Numbers(c)]]
           /\ Levels(c) \subseteq 0 .. c.n /\ Levels(c) \subseteq Nat /\ c.n \in Levels(c)
           /\ \A l \in Levels(c) : Cut(c, l) \in Levels(c)
           /\ \A q \in Numbers(c) :
                 /\ Carrier(c)[c.n][q] = Rel(c, q)
                 /\ \A l \in Levels(c) :
                       /\ Carrier(c)[l][q] \in Nat
                       /\ l > 0 => Carrier(c)[l][q] < l
                       /\ Cut(c, l) > 0 =>
                             Carrier(c)[Cut(c, l)][q] = Carrier(c)[l][q] % Cut(c, l)
<1>1. CarriesFrom(c, Carrier(c), 0)
  BY CarrierExists
<1>2. /\ Levels(c) \subseteq 0 .. c.n /\ c.n \in Nat /\ c.n \in Levels(c)
      /\ \A l \in Levels(c) : l \in Nat /\ Cut(c, l) \in Levels(c)
  BY LevelsClosed DEF Closed, Config
<1>3. \A l \in Levels(c) : Cut(c, l) \in Nat
  BY <1>2
<1> HIDE <1>1
<1>4. Carrier(c) \in [0 .. c.n -> [Numbers(c) -> Numbers(c)]]
  BY <1>1 DEF CarriesFrom
<1>5. \A l \in Levels(c), q \in Numbers(c) : Carrier(c)[l][q] \in Nat
  BY <1>2, <1>4 DEF Numbers
<1>6. ASSUME NEW q \in Numbers(c), NEW l \in Levels(c)
      PROVE  /\ Carrier(c)[c.n][q] = Rel(c, q)
             /\ l > 0 => Carrier(c)[l][q] < l
             /\ Cut(c, l) > 0 =>
                   Carrier(c)[Cut(c, l)][q] = Carrier(c)[l][q] % Cut(c, l)
  <2>1. l >= 0 /\ Cut(c, l) >= 0
    BY <1>2, <1>3
  <2>2. QED BY <1>1, <2>1 DEF CarriesFrom
<1>7. QED BY <1>2, <1>4, <1>5, <1>6

\* A share that is with a party stays there as long as the party is not cut off.
LEMMA Stays ==
    ASSUME NEW c \in Config, NEW x \in Numbers(c), NEW l \in Levels(c), NEW k \in Levels(c),
           k <= l, Carrier(c)[l][x] < k
    PROVE  Carrier(c)[k][x] = Carrier(c)[l][x]
<1> DEFINE w == Carrier(c)
           r == w[l][x]
           T == {j \in Levels(c) : j <= l /\ r < j => w[j][x] = r}
<1>1. /\ Levels(c) \subseteq 0 .. c.n /\ Levels(c) \subseteq Nat /\ c.n \in Levels(c)
      /\ \A j \in Levels(c) : Cut(c, j) \in Levels(c)
      /\ r \in Nat
  BY CarrierFacts
<1>2. c.n \in T
  BY <1>1
<1>3. ASSUME NEW j \in T PROVE Cut(c, j) \in T
  <2> DEFINE z == Cut(c, j)
  <2>1. z \in Levels(c) /\ z \in Nat /\ j \in Levels(c) /\ j \in Nat
    BY <1>1
  <2>2. SUFFICES ASSUME z <= l, r < z PROVE w[z][x] = r
    BY <2>1
  <2>3. CASE l < j
    <3>1. l <= z
      BY <2>1, <2>3, NoLevelBetween
    <3>2. QED BY <3>1, <2>1, <2>2, <1>1
  <2>4. CASE j <= l
    <3>1. z <= j
      BY <2>1, Cuts
    <3>2. w[j][x] = r
      BY <3>1, <2>1, <2>2, <2>4, <1>1
    <3>3. w[z][x] = w[j][x] % z
      BY <2>1, <2>2, <1>1, CarrierFacts
    <3>4. r % z = r
      BY <2>1, <2>2, <1>1, ModSmall
    <3>5. QED BY <3>2, <3>3, <3>4
  <2>5. QED BY <2>3, <2>4, <2>1, <1>1
<1>4. Levels(c) \subseteq T
  <2>1. Closed(c, T) /\ T \in SUBSET (0 .. c.n)
    BY <1>1, <1>2, <1>3 DEF Closed
  <2>2. QED BY <2>1, LevelsClosed
<1>5. QED BY <1>4

\* A party has its own share until it sends it.
LEMMA OwnShare ==
    ASSUME NEW c \in Config, NEW p \in Numbers(c), NEW l \in Levels(c), Rel(c, p) < l
    PROVE  Carrier(c)[l][p] = Rel(c, p)
<1>1. c.n \in Levels(c) /\ Carrier(c)[c.n][p] = Rel(c, p) /\ l <= c.n
  BY CarrierFacts DEF Config
<1>2. QED BY <1>1, Stays

\* A channel that holds one message.
LEMMA OneMessage ==
    ASSUME NEW S, NEW v \in S
    PROVE  /\ Append(<<>>, v) = <<v>> /\ <<v>> # <<>>
           /\ Head(<<v>>) = v /\ Tail(<<v>>) = <<>>
  OBVIOUS

-----------------------------------------------------------------------------
(* A step of one party.                                                    *)

\* What is a number.
LEMMA Typed ==
    ASSUME NEW c \in Config, TypeInv(c), NEW p \in Numbers(c)
    PROVE  /\ runs[p] \in Nat /\ runs[p] \in Int /\ runs[p] - 1 \in Int
           /\ level[p] \in Nat /\ last[p] \in Nat /\ next[p] \in Nat
           /\ level[p] <= c.n
           /\ Rel(c, p) \in Nat /\ Rel(c, p) < c.n
           /\ c.n \in Nat /\ c.n > 0 /\ c.bcast \in Nat /\ c.bcast > 1
           /\ value[p] \in Values(c) /\ vals[p] \in Seq(Values(c))
           /\ \A q \in Numbers(c) :
                 /\ value[p].count[q] \in Nat
                 /\ chan[p][q] \in Seq(Values(c))
<1>1. c.n \in Nat /\ c.n > 0 /\ c.bcast \in Nat /\ c.bcast > 1
  BY DEF Config
<1>2. Rel(c, p) \in Nat /\ Rel(c, p) < c.n
  <2>1. Rel(c, p) \in Numbers(c)
    BY Renaming
  <2>2. QED BY <2>1, <1>1 DEF Numbers
<1>3. runs[p] \in Nat
  BY BoundAssumption DEF TypeInv
<1>4. level[p] \in Nat /\ last[p] \in Nat /\ next[p] \in Nat /\ level[p] <= c.n
  BY <1>1 DEF TypeInv
<1>5. value[p] \in Values(c) /\ vals[p] \in Seq(Values(c))
  BY DEF TypeInv
<1>6. ASSUME NEW q \in Numbers(c) PROVE value[p].count[q] \in Nat /\ chan[p][q] \in Seq(Values(c))
  BY <1>5 DEF TypeInv, Values
<1>7. QED BY <1>1, <1>2, <1>3, <1>4, <1>5, <1>6

\* What a step of p leaves to the others.
OthersSame(c, p) ==
    \A q \in Numbers(c) \ {p} :
        /\ runs'[q] = runs[q] /\ phase'[q] = phase[q] /\ level'[q] = level[q]
        /\ last'[q] = last[q] /\ next'[q] = next[q]
        /\ value'[q] = value[q] /\ vals'[q] = vals[q]

\* What p has sent stays sent.
Onward(c, p) ==
    \A o \in Int : /\ Past(c, p, o) => Past(c, p, o)'
                   /\ \A r \in Nat : SentDown(c, p, o, r) => SentDown(c, p, o, r)'

\* It stays so for all parties.
LEMMA AllOnward ==
    ASSUME NEW c \in Config, NEW p \in Numbers(c), OthersSame(c, p), Onward(c, p),
           NEW x \in Numbers(c), NEW o \in Int
    PROVE  /\ Past(c, x, o) => Past(c, x, o)'
           /\ \A r \in Nat : SentDown(c, x, o, r) => SentDown(c, x, o, r)'
<1>1. CASE x = p
  BY <1>1 DEF Onward
<1>2. CASE x # p
  BY <1>2 DEF OthersSame, Past, SentUp, SentDown
<1>3. QED BY <1>1, <1>2

\* What is under way upwards stays so while it concerns sender and receiver.
LEMMA UpwardKept ==
    ASSUME NEW c \in Config, NEW p \in Numbers(c), TypeInv(c), OthersSame(c, p), Onward(c, p),
           NEW x \in Numbers(c), NEW y \in Numbers(c), NEW l \in Levels(c), NEW m,
           Upward(c, x, y, l, m),
           runs'[x] = runs[x], SentUp(c, x)',
           runs'[y] <= runs[x],
           runs'[y] = runs[x] =>
               /\ phase'[y] \in {"up", "add"}
               /\ \/ level'[y] >= l
                  \/ phase'[y] = "add" /\ level'[y] = Cut(c, l) /\ next'[y] <= Rel(c, x)
    PROVE  Upward(c, x, y, l, m)'
<1>1. runs[x] \in Int
  BY BoundAssumption DEF TypeInv
<1>2. \A z \in Numbers(c) : Past(c, z, runs[x]) => Past(c, z, runs[x])'
  <2>1. ASSUME NEW z \in Numbers(c), NEW o \in Int, o = runs[x]
        PROVE  Past(c, z, o) => Past(c, z, o)'
    BY AllOnward
  <2>2. QED BY <1>1, <2>1 DEF Past
<1>3. QED BY <1>2 DEF Upward

\* So does what is under way downwards.
LEMMA DownwardKept ==
    ASSUME NEW c \in Config, NEW p \in Numbers(c), TypeInv(c), OthersSame(c, p), Onward(c, p),
           NEW x \in Numbers(c), NEW y \in Numbers(c), NEW m,
           Downward(c, x, y, m),
           runs'[y] = runs[y], phase'[y] \in {"up", "add", "down"},
           runs'[x] > runs[y] => runs'[x] = runs[y] + 1 /\ phase'[x] \in {"up", "add", "down"}
    PROVE  Downward(c, x, y, m)'
<1>1. runs[y] \in Int /\ Rel(c, y) \in Nat
  BY Typed
<1>2. \A z \in Numbers(c) : Past(c, z, runs[y]) => Past(c, z, runs[y])'
  <2>1. ASSUME NEW z \in Numbers(c), NEW o \in Int, o = runs[y]
        PROVE  Past(c, z, o) => Past(c, z, o)'
    BY AllOnward
  <2>2. QED BY <1>1, <2>1 DEF Past
<1>3. SentDown(c, x, runs[y], Rel(c, y)) => SentDown(c, x, runs[y], Rel(c, y))'
  <2>1. ASSUME NEW o \in Int, o = runs[y]
        PROVE  SentDown(c, x, o, Rel(c, y)) => SentDown(c, x, o, Rel(c, y))'
    BY <1>1, AllOnward
  <2>2. QED BY <1>1, <2>1 DEF SentDown
<1>4. QED BY <1>2, <1>3 DEF Downward

\* The parts of the invariant that a step of p has to keep.
KeptBy(c, p) ==
    /\ TypeInv(c)' /\ PlaceOK(c, p)' /\ ValuesOK(c, p)' /\ Served(c, p)'
    /\ \A q \in Numbers(c) : Known(c, p, q)'
    /\ \A q \in Numbers(c) : ChannelOK(c, p, q)' /\ ChannelOK(c, q, p)'

\* The rest of the invariant is kept by every step of one party.
LEMMA StepOfOne ==
    ASSUME NEW c, Inductive(c), NEW p \in Numbers(c), par' = par,
           OthersSame(c, p), Onward(c, p), KeptBy(c, p),
           \A x, y \in Numbers(c) \ {p} : chan'[x][y] = chan[x][y]
    PROVE  Inductive(c)'
<1> USE DEF KeptBy
<1>1. par = c /\ c \in Config /\ TypeInv(c)
  BY DEF Inductive
<1>2. ASSUME NEW x \in Numbers(c), NEW o \in Int
      PROVE  /\ Past(c, x, o) => Past(c, x, o)'
             /\ \A r \in Nat : SentDown(c, x, o, r) => SentDown(c, x, o, r)'
  BY <1>1, AllOnward
<1>3. \A q \in Numbers(c) : runs[q] \in Int /\ Rel(c, q) \in Nat
  BY <1>1, Typed
<1>4. ASSUME NEW q \in Numbers(c) \ {p}
      PROVE  PlaceOK(c, q)' /\ ValuesOK(c, q)' /\ Served(c, q)'
  <2>1. PlaceOK(c, q) /\ ValuesOK(c, q) /\ Served(c, q)
    BY DEF Inductive
  <2>2. /\ runs'[q] = runs[q] /\ phase'[q] = phase[q] /\ level'[q] = level[q]
        /\ last'[q] = last[q] /\ next'[q] = next[q]
        /\ value'[q] = value[q] /\ vals'[q] = vals[q]
    BY DEF OthersSame
  <2>3. PlaceOK(c, q)'
    BY <2>1, <2>2 DEF PlaceOK
  <2>4. ValuesOK(c, q)'
    <3>1. \A r \in Numbers(c) : Counts(c, q, r)'
      BY <2>1, <2>2 DEF ValuesOK, Counts
    <3>2. Sent(c, q)' => \E l \in Levels(c) : SentAt(c, q, l)'
      BY <2>1, <2>2 DEF ValuesOK, Sent, SentAt
    <3>3. QED BY <2>1, <2>2, <3>1, <3>2 DEF ValuesOK
  <2>5. Served(c, q)'
    <3> DEFINE x == Ply(c, Rel(c, q) \div c.bcast)
    <3>1. CASE Rel(c, q) = 0
      BY <3>1 DEF Served
    <3>2. CASE Rel(c, q) > 0
      <4>1. x \in Numbers(c)
        BY <1>1, <3>2, ServerNumber
      <4>2. /\ SentDown(c, x, runs[q], Rel(c, q)) => SentDown(c, x, runs[q], Rel(c, q))'
            /\ SentDown(c, x, runs[q] - 1, Rel(c, q)) => SentDown(c, x, runs[q] - 1, Rel(c, q))'
        <5>1. runs[q] \in Int /\ runs[q] - 1 \in Int
          BY <1>3
        <5>2. ASSUME NEW o \in Int, o' = o, SentDown(c, x, o, Rel(c, q))
              PROVE  SentDown(c, x, o, Rel(c, q))'
          BY <5>2, <4>1, <1>2, <1>3
        <5>3. QED BY <5>1, <2>2, <4>1, <1>3, <1>2 DEF SentDown
      <4>3. QED BY <2>1, <2>2, <4>2 DEF Served, SentDown
    <3>3. QED BY <3>1, <3>2, <1>3
  <2>6. QED BY <2>3, <2>4, <2>5
<1>5. ASSUME NEW q \in Numbers(c) \ {p}, NEW x \in Numbers(c)
      PROVE  Known(c, q, x)'
  <2>1. /\ Known(c, q, x) /\ runs[q] \in Int
        /\ runs'[q] = runs[q] /\ value'[q] = value[q]
    BY <1>3 DEF Inductive, OthersSame
  <2>2. ASSUME NEW o \in Int, Past(c, x, o) PROVE Past(c, x, o)'
    BY <2>2, <1>2
  <2>3. Past(c, x, runs[q]) => Past(c, x, runs[q])'
    BY <2>1, <2>2 DEF Past
  <2>4. Past(c, x, runs[q] - 1) => Past(c, x, runs[q] - 1)'
    <3>1. runs[q] - 1 \in Int
      BY <2>1
    <3>2. QED BY <2>1, <2>2, <3>1 DEF Past
  <2>5. QED BY <2>1, <2>3, <2>4 DEF Known
<1>6. ASSUME NEW x \in Numbers(c) \ {p}, NEW y \in Numbers(c) \ {p}
      PROVE  ChannelOK(c, x, y)'
  <2>1. ChannelOK(c, x, y) /\ chan'[x][y] = chan[x][y]
    BY DEF Inductive
  <2>2. /\ runs'[x] = runs[x] /\ phase'[x] = phase[x] /\ level'[x] = level[x]
        /\ runs'[y] = runs[y] /\ phase'[y] = phase[y] /\ level'[y] = level[y]
        /\ next'[y] = next[y]
    BY DEF OthersSame
  <2>3. ASSUME NEW l \in Levels(c), NEW m, Upward(c, x, y, l, m)
        PROVE  Upward(c, x, y, l, m)'
    <3>1. SentUp(c, x)'
      BY <2>2, <2>3 DEF Upward, SentUp
    <3>2. /\ runs[y] <= runs[x]
          /\ runs[y] = runs[x] =>
               /\ phase[y] \in {"up", "add"}
               /\ \/ level[y] >= l
                  \/ phase[y] = "add" /\ level[y] = Cut(c, l) /\ next[y] <= Rel(c, x)
      BY <2>3 DEF Upward
    <3>3. QED BY <1>1, <2>2, <2>3, <3>1, <3>2, UpwardKept
  <2>4. ASSUME NEW m, Downward(c, x, y, m) PROVE Downward(c, x, y, m)'
    <3>1. /\ phase[y] \in {"up", "add", "down"}
          /\ runs[x] > runs[y] => runs[x] = runs[y] + 1 /\ phase[x] \in {"up", "add", "down"}
      BY <2>4 DEF Downward
    <3>2. QED BY <1>1, <2>2, <2>4, <3>1, DownwardKept
  <2>5. QED BY <2>1, <2>3, <2>4 DEF ChannelOK
<1>7. QED
  BY <1>1, <1>4, <1>5, <1>6 DEF Inductive

\* An opening has not begun.
LEMMA InitInductive == ASSUME Init PROVE \E c \in Config : Inductive(c)
<1>1. PICK c : c = par
  OBVIOUS
<1>2. c \in Config /\ Party = Numbers(c)
  <2>1. PICK n \in 1 .. MaxN, s \in OpeningSum, b \in MaxBroadcast :
           par \in [n : {n}, sum : {s}, bcast : {b}, base : 0 .. n - 1, large : Large]
    BY DEF Init
  <2>2. /\ par.n = n /\ par.sum = s /\ par.bcast = b /\ par.base \in 0 .. n - 1
        /\ par.large \in BOOLEAN
        /\ par = [n |-> par.n, sum |-> par.sum, bcast |-> par.bcast, base |-> par.base,
                  large |-> par.large]
    BY <2>1, FanAssumption
  <2>3. n \in Nat \ {0} /\ s \in Nat \ {0, 1} /\ b \in Nat \ {0, 1} /\ par.base \in Nat
    BY <2>2, BoundAssumption, FanAssumption
  <2>4. QED BY <1>1, <2>2, <2>3 DEF Config, Party, Numbers
<1> DEFINE N == Numbers(c)
<1>3. /\ runs = [p \in N |-> 0] /\ phase = [p \in N |-> "idle"]
      /\ level = [p \in N |-> 0] /\ last = [p \in N |-> 0] /\ next = [p \in N |-> 0]
      /\ vals = [p \in N |-> <<>>] /\ chan = [p \in N |-> [q \in N |-> <<>>]]
  BY <1>2 DEF Init
<1>4. value = [p \in N |-> [run |-> 0, count |-> [q \in N |-> IF q = p THEN 1 ELSE 0]]]
  BY <1>2 DEF Init, Share
<1>5. c.n \in Nat
  BY <1>2 DEF Config
<1>6. TypeInv(c)
  <2>1. value \in [N -> Values(c)]
    BY <1>4, BoundAssumption DEF Values
  <2>2. vals \in [N -> Seq(Values(c))] /\ chan \in [N -> [N -> Seq(Values(c))]]
    <3>1. <<>> \in Seq(Values(c))
      OBVIOUS
    <3>2. QED BY <1>3, <3>1
  <2>3. QED BY <1>3, <1>5, <2>1, <2>2, BoundAssumption DEF TypeInv
<1>7. ASSUME NEW p \in N
      PROVE  PlaceOK(c, p) /\ ValuesOK(c, p) /\ Served(c, p)
  <2>1. runs[p] = 0 /\ phase[p] = "idle" /\ vals[p] = <<>> /\ value[p].run = 0
    BY <1>3, <1>4
  <2>2. ValuesOK(c, p)
    BY <2>1 DEF ValuesOK, Counts, Sent
  <2>3. PlaceOK(c, p)
    BY <2>1 DEF PlaceOK
  <2>4. Served(c, p)
    <3>1. SUFFICES ASSUME Rel(c, p) > 0
                   PROVE  SentDown(c, Ply(c, Rel(c, p) \div c.bcast), 0, Rel(c, p))
      BY <2>1 DEF Served
    <3>2. Ply(c, Rel(c, p) \div c.bcast) \in N
      BY <1>2, <3>1, ServerNumber
    <3>3. QED BY <1>3, <3>2 DEF SentDown
  <2>5. QED BY <2>2, <2>3, <2>4
<1>8. ASSUME NEW p \in N, NEW q \in N
      PROVE  Known(c, p, q) /\ ChannelOK(c, p, q)
  BY <1>3, <1>4 DEF Known, ChannelOK
<1>9. QED BY <1>1, <1>2, <1>6, <1>7, <1>8 DEF Inductive

-----------------------------------------------------------------------------
(* Begin.                                                                  *)

\* All parties are past an opening when one of them has its sum.
LEMMA AllPast ==
    ASSUME NEW c, Inductive(c), NEW p \in Numbers(c), NEW q \in Numbers(c),
           phase[p] \in {"idle", "spread"} \/ (phase[p] = "down" /\ Rel(c, p) = 0)
    PROVE  Past(c, q, runs[p])
<1>1. /\ c \in Config /\ TypeInv(c) /\ PlaceOK(c, p) /\ ValuesOK(c, p)
      /\ PlaceOK(c, q) /\ Known(c, p, q)
  BY DEF Inductive
<1>2. runs[p] \in Nat /\ runs[q] \in Nat
  BY <1>1, Typed
<1>3. CASE q = p
  BY <1>3 DEF Past, SentUp
<1>4. CASE runs[p] = 0
  BY <1>1, <1>2, <1>4 DEF PlaceOK, Past, SentUp
<1>5. CASE runs[p] > 0 /\ q # p
  <2>1. value[p].count[q] = 1
    BY <1>1, <1>5 DEF ValuesOK, Counts
  <2>2. QED BY <1>1, <1>5, <2>1 DEF Known
<1>6. QED BY <1>2, <1>3, <1>4, <1>5

\* An opening is begun with nothing of the last one left to be sent or added.
LEMMA BeginKeeps ==
    ASSUME NEW c, Inductive(c), NEW p \in Numbers(c), Begin(p)
    PROVE  Inductive(c)'
<1> DEFINE N == Numbers(c)
           r == Rel(c, p)
<1>1. /\ par = c /\ c \in Config /\ TypeInv(c) /\ Party = N
      /\ \A q \in N : PlaceOK(c, q) /\ ValuesOK(c, q) /\ Served(c, q)
      /\ \A x, y \in N : Known(c, x, y) /\ ChannelOK(c, x, y)
  BY DEF Inductive, Party, Numbers
<1>2. /\ phase[p] = "idle" /\ runs[p] < MaxRuns
      /\ runs' = [runs EXCEPT ![p] = runs[p] + 1]
      /\ value' = [value EXCEPT ![p] =
                     [run |-> runs[p] + 1, count |-> [q \in N |-> IF q = p THEN 1 ELSE 0]]]
      /\ level' = [level EXCEPT ![p] = c.n]
      /\ phase' = [phase EXCEPT ![p] = "up"]
      /\ par' = par /\ last' = last /\ next' = next /\ vals' = vals /\ chan' = chan
  BY <1>1 DEF Begin, Share
<1>3. /\ runs'[p] = runs[p] + 1 /\ phase'[p] = "up" /\ level'[p] = c.n /\ vals'[p] = vals[p]
      /\ value'[p] = [run |-> runs[p] + 1, count |-> [q \in N |-> IF q = p THEN 1 ELSE 0]]
  BY <1>1, <1>2 DEF TypeInv
<1>4. OthersSame(c, p)
  BY <1>1, <1>2 DEF TypeInv, OthersSame
<1>5. \A x \in N : /\ runs[x] \in Nat /\ level[x] \in Nat /\ next[x] \in Nat
                   /\ Rel(c, x) \in Nat /\ Rel(c, x) < c.n /\ c.n \in Nat
  BY <1>1, Typed
<1>6. TypeInv(c)'
  <2>1. runs[p] + 1 \in 0 .. MaxRuns
    BY <1>2, <1>5, BoundAssumption
  <2>2. value'[p] \in Values(c)
    BY <1>3, <2>1 DEF Values
  <2>3. value' \in [N -> Values(c)]
    BY <1>1, <1>2, <2>2, <1>3 DEF TypeInv
  <2>4. c.n \in 0 .. c.n
    BY <1>5
  <2>5. QED BY <1>1, <1>2, <2>1, <2>3, <2>4 DEF TypeInv
<1>7. Onward(c, p)
  BY <1>2, <1>3, <1>5 DEF Onward, Past, SentDown
<1>8. \A x \in N : Past(c, x, runs[p])
  BY <1>2, AllPast
<1>9. PlaceOK(c, p)'
  <2>1. c.n \in Levels(c) /\ c.n > 0
    BY <1>1, CarrierFacts DEF Config
  <2>2. QED BY <1>3, <1>5, <2>1 DEF PlaceOK
<1>10. ValuesOK(c, p)'
  <2>1. ASSUME NEW q \in N PROVE Counts(c, p, q)'
    <3>1. Carrier(c)[c.n][q] = Rel(c, q)
      BY <1>1, CarrierFacts
    <3>2. Rel(c, q) = r <=> q = p
      <4>1. Ply(c, Rel(c, q)) = q /\ Ply(c, r) = p
        BY <1>1, Renaming
      <4>2. QED BY <4>1
    <3>3. QED BY <1>3, <3>1, <3>2 DEF Counts
  <2>2. ~ Sent(c, p)'
    BY <1>3, <1>5 DEF Sent
  <2>3. Len(vals[p]) = runs[p] /\ \A o \in 1 .. Len(vals[p]) : vals[p][o] = Full(c, o)
    BY <1>1, <1>2 DEF ValuesOK
  <2>4. QED BY <1>2, <1>3, <1>5, <2>1, <2>2, <2>3 DEF ValuesOK
<1>11. ASSUME NEW q \in N PROVE Known(c, p, q)'
  <2>1. ASSUME NEW o \in Int, o = runs[p] PROVE Past(c, q, o)'
    BY <2>1, <1>1, <1>4, <1>7, <1>8, AllOnward
  <2>2. Past(c, q, runs[p] - 1)'
    <3>1. runs'[p] - 1 = runs[p]
      BY <1>3, <1>5
    <3>2. QED BY <3>1, <2>1, <1>5 DEF Past
  <2>3. q # p => value'[p].count[q] = 0
    BY <1>3
  <2>4. QED BY <2>2, <2>3 DEF Known
<1>12. Served(c, p)'
  <2>1. SUFFICES ASSUME r > 0
                 PROVE  SentDown(c, Ply(c, r \div c.bcast), runs[p] - 1, r)'
    BY <1>3 DEF Served
  <2>2. SentDown(c, Ply(c, r \div c.bcast), runs[p], r)
    BY <1>1, <1>2, <2>1 DEF Served
  <2>3. Ply(c, r \div c.bcast) \in N
    BY <1>1, <2>1, ServerNumber
  <2>4. ASSUME NEW o \in Int, o = runs[p] PROVE SentDown(c, Ply(c, r \div c.bcast), o, r)'
    BY <2>2, <2>3, <2>4, <1>1, <1>4, <1>5, <1>7, AllOnward
  <2>5. QED BY <2>4, <1>3, <1>5 DEF SentDown
<1>13. ASSUME NEW q \in N PROVE ChannelOK(c, p, q)'
  <2>1. ChannelOK(c, p, q) /\ chan'[p][q] = chan[p][q]
    BY <1>1, <1>2
  <2>2. ASSUME NEW l \in Levels(c), NEW m, Upward(c, p, q, l, m), Rel(c, q) < Rel(c, p) PROVE FALSE
    <3>1. Past(c, q, runs[p])
      BY <1>8
    <3>2. l \in Nat
      BY <1>1, CarrierFacts
    <3>3. QED BY <1>5, <2>2, <3>1, <3>2 DEF Upward, Past, SentUp
  <2>3. ASSUME NEW m, Downward(c, p, q, m) PROVE Downward(c, p, q, m)'
    <3>1. runs[p] = runs[q] /\ q # p /\ phase[q] \in {"up", "add", "down"}
      BY <1>2, <1>5, <2>3 DEF Downward, SentDown
    <3>2. runs'[q] = runs[q] /\ phase'[q] = phase[q]
      BY <1>4, <3>1 DEF OthersSame
    <3>3. QED BY <1>1, <1>3, <1>4, <1>7, <2>3, <3>1, <3>2, DownwardKept
  <2>4. QED BY <2>1, <2>2, <2>3 DEF ChannelOK
<1>14. ASSUME NEW q \in N PROVE ChannelOK(c, q, p)'
  <2>1. ChannelOK(c, q, p) /\ chan'[q][p] = chan[q][p]
    BY <1>1, <1>2
  <2>2. ASSUME NEW l \in Levels(c), NEW m, Upward(c, q, p, l, m) PROVE Upward(c, q, p, l, m)'
    <3>1. runs[p] < runs[q] /\ q # p
      BY <1>2, <1>5, <2>2 DEF Upward
    <3>2. runs'[q] = runs[q] /\ SentUp(c, q)'
      BY <1>4, <2>2, <3>1 DEF OthersSame, SentUp, Upward
    <3>3. l <= c.n
      BY <1>1, <1>5, CarrierFacts
    <3>4. QED BY <1>1, <1>3, <1>4, <1>5, <1>7, <2>2, <3>1, <3>2, <3>3, UpwardKept
  <2>3. ASSUME NEW m, Downward(c, q, p, m) PROVE FALSE
    BY <1>2, <2>3 DEF Downward
  <2>4. QED BY <2>1, <2>2, <2>3 DEF ChannelOK
<1>15. QED
  BY <1>1, <1>2, <1>4, <1>6, <1>7, <1>9, <1>10, <1>11, <1>12, <1>13, <1>14, StepOfOne DEF KeptBy

-----------------------------------------------------------------------------
(* Up.                                                                     *)

\* No party is an opening ahead of one that has not sent its sum.
LEMMA NotAhead ==
    ASSUME NEW c, Inductive(c), NEW p \in Numbers(c), NEW q \in Numbers(c), ~ SentUp(c, p)
    PROVE  runs[q] <= runs[p]
<1>1. Known(c, q, p) /\ runs[p] \in Nat /\ runs[q] \in Nat
  BY Typed DEF Inductive
<1>2. QED BY <1>1 DEF Known, Past

\* A party that is to send to q at level l has not been waited for in vain: q
\* has yet to come to its message.
LEMMA NotMissed ==
    ASSUME NEW c, Inductive(c), NEW p \in Numbers(c), NEW q \in Numbers(c),
           NEW l \in Levels(c), ~ SentUp(c, p),
           Cut(c, l) > 0, Cut(c, l) <= Rel(c, p), Rel(c, p) < l,
           Rel(c, q) = Rel(c, p) % Cut(c, l),
           runs[q] = runs[p], runs[p] > 0
    PROVE  /\ phase[q] \in {"up", "add"}
           /\ \/ level[q] >= l
              \/ phase[q] = "add" /\ level[q] = Cut(c, l) /\ next[q] <= Rel(c, p)
<1> DEFINE w == Carrier(c)
           s == Cut(c, l)
           r == Rel(c, p)
           k == Rel(c, q)
<1>1. /\ c \in Config /\ TypeInv(c) /\ PlaceOK(c, q) /\ ValuesOK(c, q) /\ Known(c, q, p)
  BY DEF Inductive
<1>2. /\ l \in Nat /\ s \in Nat /\ s \in Levels(c) /\ r \in Nat /\ k \in Nat
      /\ level[q] \in Nat /\ last[q] \in Nat /\ next[q] \in Nat
      /\ runs[p] \in Nat
  BY <1>1, Typed, CarrierFacts
<1>3. k < s /\ q # p /\ s < l
  <2>1. k < s
    BY <1>2, ModBelow
  <2>2. QED BY <2>1, <1>1, <1>2, Cuts
<1>4. value[q].count[p] = 0
  <2>1. ~ Past(c, p, runs[q])
    BY <1>2 DEF Past
  <2>2. value[q].count[p] \in Nat
    BY <1>1, Typed
  <2>3. QED BY <1>1, <1>3, <2>1, <2>2 DEF Known
<1>5. w[l][p] = r /\ w[s][p] = k
  <2>1. w[l][p] = r
    BY <1>1, OwnShare
  <2>2. QED BY <2>1, <1>1, CarrierFacts
<1>6. ASSUME NEW j \in Levels(c), j <= s, k < j PROVE w[j][p] = k
  BY <1>1, <1>2, <1>5, <1>6, Stays
<1>7. ASSUME NEW j \in Levels(c), NEW i \in Levels(c), i < j PROVE i <= Cut(c, j)
  BY <1>1, <1>7, NoLevelBetween
<1>8. \A j \in Levels(c) : j \in Nat /\ Cut(c, j) \in Nat
  BY <1>1, CarrierFacts
<1> HIDE DEF w, s, r, k
<1>9. ~ (phase[q] \in {"spread", "idle"})
  BY <1>1, <1>4 DEF ValuesOK, Counts
<1>10. ~ (phase[q] = "down" /\ k = 0)
  BY <1>1, <1>4 DEF ValuesOK, Counts, k
<1>11. ~ Sent(c, q)
  <2>1. SUFFICES ASSUME NEW j \in Levels(c), SentAt(c, q, j) PROVE FALSE
    BY <1>1 DEF ValuesOK
  <2>2. Cut(c, j) <= k /\ k < j
    BY <2>1 DEF SentAt, k
  <2>3. j <= s
    <3>1. s < j => s <= Cut(c, j)
      BY <1>2, <1>7
    <3>2. QED BY <1>2, <1>3, <1>8, <2>2, <3>1
  <2>4. w[j][p] = k
    BY <1>6, <2>2, <2>3
  <2>5. QED BY <1>4, <2>1, <2>4 DEF SentAt, w, k
<1>12. CASE phase[q] = "up"
  <2>1. k < level[q] /\ level[q] \in Levels(c)
    BY <1>1, <1>2, <1>3, <1>11, <1>12 DEF Sent, PlaceOK, k
  <2>2. w[level[q]][p] # k
    BY <1>1, <1>4, <1>12, <2>1 DEF ValuesOK, Counts, w, k
  <2>3. level[q] > s
    BY <1>2, <1>6, <2>1, <2>2
  <2>4. level[q] >= l
    BY <1>2, <1>7, <2>1, <2>3 DEF s
  <2>5. QED BY <1>12, <2>4
<1>13. CASE phase[q] = "add"
  <2>1. /\ last[q] \in Levels(c) /\ level[q] = Cut(c, last[q]) /\ level[q] \in Levels(c)
        /\ k < level[q] /\ next[q] >= level[q]
    BY <1>1, <1>13 DEF PlaceOK, k
  <2>2. ~ (w[last[q]][p] < next[q] /\ w[last[q]][p] % level[q] = k)
    BY <1>1, <1>4, <1>13 DEF ValuesOK, Counts, w, k
  <2>3. level[q] < last[q]
    <3>1. last[q] > 0
      BY <1>1, <1>2, <2>1, Cuts
    <3>2. QED BY <1>1, <1>2, <2>1, <3>1, Cuts
  <2>4. CASE level[q] >= l
    BY <1>13, <2>4
  <2>5. CASE level[q] = s
    <3>1. last[q] = l
      <4>1. (last[q] < l => last[q] <= s) /\ (l < last[q] => l <= level[q])
        BY <1>7, <2>1 DEF s
      <4>2. QED BY <1>2, <1>3, <2>3, <2>5, <4>1
    <3>2. next[q] <= r
      BY <1>2, <1>5, <2>2, <2>5, <3>1 DEF k, r, s
    <3>3. QED BY <1>13, <2>5, <3>2 DEF s, r
  <2>6. CASE level[q] # s /\ level[q] < l
    <3>1. level[q] <= s
      BY <1>7, <2>1, <2>6 DEF s
    <3>2. last[q] <= s
      <4>1. s < last[q] => s <= level[q]
        BY <1>2, <1>7, <2>1
      <4>2. QED BY <1>2, <2>6, <3>1, <4>1
    <3>3. w[last[q]][p] = k
      BY <1>2, <1>6, <2>1, <2>3, <3>2
    <3>4. k < next[q] /\ k % level[q] = k
      BY <1>2, <2>1, ModSmall
    <3>5. QED BY <2>2, <3>3, <3>4
  <2>7. QED BY <1>2, <2>4, <2>5, <2>6
<1>14. QED
  <2>1. phase[q] # "down"
    BY <1>2, <1>10, <1>11 DEF Sent, k
  <2>2. phase[q] \in {"up", "add"}
    BY <1>1, <1>9, <2>1 DEF TypeInv
  <2>3. QED BY <1>12, <1>13, <2>2

\* One level of the way up: the sum is sent to who adds it, or the next sums
\* are awaited.
LEMMA UpKeeps ==
    ASSUME NEW c, Inductive(c), NEW p \in Numbers(c), Up(p)
    PROVE  Inductive(c)'
<1>0. PICK l, v : l = level[p] /\ v = value[p]
  OBVIOUS
<1> DEFINE N == Numbers(c)
           r == Rel(c, p)
           s == Cut(c, l)
           w == Carrier(c)
           q0 == Ply(c, r % s)
           Sends == /\ s > 0 /\ r >= s /\ r < l
                    /\ chan' = [chan EXCEPT ![p][q0] = Append(chan[p][q0], v)]
                    /\ phase' = phase /\ next' = next
           Rests == s > 0 /\ r >= l /\ phase' = phase /\ next' = next /\ chan' = chan
           Waits == /\ s > 0 /\ r < s
                    /\ phase' = [phase EXCEPT ![p] = "add"]
                    /\ next' = [next EXCEPT ![p] = r + s]
                    /\ chan' = chan
           Ends == /\ s = 0 /\ phase' = [phase EXCEPT ![p] = "down"]
                   /\ next' = next /\ chan' = chan
<1>1. /\ par = c /\ c \in Config /\ TypeInv(c)
      /\ \A q \in N : PlaceOK(c, q) /\ ValuesOK(c, q) /\ Served(c, q)
      /\ \A x, y \in N : Known(c, x, y) /\ ChannelOK(c, x, y)
  BY DEF Inductive
<1>2. /\ phase[p] = "up"
      /\ level' = [level EXCEPT ![p] = s] /\ last' = [last EXCEPT ![p] = l]
      /\ par' = par /\ runs' = runs /\ value' = value /\ vals' = vals
      /\ Sends \/ Rests \/ Waits \/ Ends
  <2>1. /\ NextLevel(l) = s /\ Relative(p) = r /\ ReceiverOf(p, s) = q0
    BY <1>1 DEF NextLevel, Cut, Relative, Rel, ReceiverOf, Player, Ply
  <2>2. QED BY <1>0, <2>1 DEF Up, SendTo
<1>3. /\ \A x \in N : /\ runs[x] \in Nat /\ level[x] \in Nat /\ next[x] \in Nat
                      /\ Rel(c, x) \in Nat /\ Rel(c, x) < c.n
      /\ c.n \in Nat /\ l \in Nat /\ l <= c.n /\ r \in Nat
      /\ l \in Levels(c) /\ l > 0 /\ s \in Levels(c) /\ s \in Nat /\ s < l
      /\ runs[p] > 0
  <2>1. l \in Levels(c) /\ l > 0 /\ runs[p] > 0
    BY <1>0, <1>1, <1>2 DEF PlaceOK
  <2>2. s \in Levels(c) /\ l \in Nat /\ s \in Nat
    BY <1>1, <2>1, CarrierFacts
  <2>3. s < l
    BY <1>1, <2>1, <2>2, Cuts
  <2>4. QED BY <1>0, <1>1, <2>1, <2>2, <2>3, Typed
<1>4. \A j \in Levels(c) : j \in Nat /\ Cut(c, j) \in Nat
  BY <1>1, CarrierFacts
<1>5. ASSUME Sends
      PROVE  /\ q0 \in N /\ q0 # p /\ Rel(c, q0) = r % s /\ r % s \in Nat /\ r % s < s
             /\ chan[p][q0] = <<>> /\ chan'[p][q0] = <<v>>
             /\ \A x, y \in N : x # p \/ y # q0 => chan'[x][y] = chan[x][y]
             /\ chan' \in [N -> [N -> Seq(Values(c))]]
  <2>1. r % s \in Nat /\ r % s < s
    BY <1>3, <1>5, ModBelow
  <2>2. r % s \in N
    BY <1>3, <1>5, <2>1 DEF Numbers
  <2>3. q0 \in N /\ Rel(c, q0) = r % s
    BY <1>1, <2>2, Renaming
  <2>4. q0 # p
    BY <1>3, <1>5, <2>1, <2>3
  <2>5. chan[p][q0] = <<>>
    <3>1. ~ SentUp(c, p)
      BY <1>0, <1>2, <1>3, <1>5 DEF SentUp
    <3>2. ~ (Rel(c, p) < Rel(c, q0))
      BY <1>3, <1>5, <2>1, <2>3
    <3>3. QED BY <1>1, <2>3, <3>1, <3>2 DEF ChannelOK, Upward
  <2>6. v \in Values(c) /\ chan \in [N -> [N -> Seq(Values(c))]]
    BY <1>0, <1>1, Typed DEF TypeInv
  <2>7. Append(chan[p][q0], v) = <<v>> /\ <<v>> \in Seq(Values(c))
    BY <2>5, <2>6, OneMessage
  <2> HIDE DEF q0
  <2>8. chan' = [chan EXCEPT ![p][q0] = <<v>>]
    BY <1>5, <2>7
  <2>9. QED BY <2>1, <2>3, <2>4, <2>5, <2>6, <2>7, <2>8
<1>6. /\ level'[p] = s /\ last'[p] = l /\ runs'[p] = runs[p]
      /\ value'[p] = v /\ vals'[p] = vals[p]
      /\ Waits => phase'[p] = "add" /\ next'[p] = r + s
      /\ Ends => phase'[p] = "down"
      /\ Sends \/ Rests => phase'[p] = "up"
  BY <1>0, <1>1, <1>2 DEF TypeInv
<1>7. OthersSame(c, p)
  BY <1>1, <1>2 DEF TypeInv, OthersSame
<1>8. TypeInv(c)'
  <2>1. level' \in [N -> 0 .. c.n] /\ last' \in [N -> 0 .. c.n]
    BY <1>1, <1>2, <1>3 DEF TypeInv
  <2>2. phase' \in [N -> {"up", "add", "down", "spread", "idle"}] /\ next' \in [N -> Nat]
    <3>1. r + s \in Nat
      BY <1>3
    <3> HIDE DEF s, r, q0
    <3>2. QED BY <1>1, <1>2, <3>1 DEF TypeInv
  <2>3. chan' \in [N -> [N -> Seq(Values(c))]]
    BY <1>1, <1>2, <1>5 DEF TypeInv
  <2>4. QED BY <1>1, <1>2, <2>1, <2>2, <2>3 DEF TypeInv
<1> HIDE DEF q0
<1>9. r < s \/ s = 0 \/ (phase'[p] = "up" /\ s <= r)
  BY <1>2, <1>3, <1>6
<1>10. SentUp(c, p) => SentUp(c, p)'
  BY <1>0, <1>2, <1>3, <1>6 DEF SentUp
<1>11. Onward(c, p)
  <2>1. ASSUME NEW o \in Int, Past(c, p, o) PROVE Past(c, p, o)'
    BY <1>6, <1>10, <2>1 DEF Past
  <2>2. ASSUME NEW o \in Int, NEW x \in Nat, SentDown(c, p, o, x) PROVE SentDown(c, p, o, x)'
    BY <1>2, <1>6, <2>2 DEF SentDown
  <2>3. QED BY <2>1, <2>2 DEF Onward
<1>12. PlaceOK(c, p)'
  <2>1. CASE Waits
    <3>1. (r + s) % s = r
      <4>1. r % s = r
        BY <1>3, <2>1, ModSmall
      <4>2. QED BY <1>3, <2>1, <4>1, ModShift
    <3>2. level'[p] = Cut(c, last'[p]) /\ phase'[p] = "add" /\ next'[p] = r + s /\ r < s /\ s > 0
      BY <1>6, <2>1
    <3>3. last'[p] \in Levels(c) /\ level'[p] \in Levels(c) /\ runs'[p] > 0 /\ level'[p] = s
      BY <1>3, <1>6
    <3> HIDE DEF s
    <3>4. r + s >= s
      BY <1>3
    <3>5. QED BY <3>1, <3>2, <3>3, <3>4 DEF PlaceOK
  <2>2. CASE Sends \/ Rests
    BY <1>3, <1>6, <2>2 DEF PlaceOK
  <2>3. CASE Ends
    BY <1>3, <1>6, <2>3 DEF PlaceOK
  <2>4. QED BY <1>2, <2>1, <2>2, <2>3
<1>13. ValuesOK(c, p)'
  <2>1. /\ v.run = runs[p] /\ Len(vals[p]) = runs[p] - 1
        /\ \A o \in 1 .. Len(vals[p]) : vals[p][o] = Full(c, o)
        /\ \A q \in N : Counts(c, p, q)
        /\ Sent(c, p) => \E j \in Levels(c) : SentAt(c, p, j)
    BY <1>0, <1>1, <1>2 DEF ValuesOK
  <2>2. ASSUME NEW q \in N
        PROVE  w[l][q] \in Nat /\ w[l][q] < l
    BY <1>1, <1>3, CarrierFacts
  <2>3. ASSUME NEW q \in N, r < l
        PROVE  v.count[q] = IF w[l][q] = r THEN 1 ELSE 0
    BY <1>0, <1>2, <2>1, <2>3 DEF Counts
  <2>4. ASSUME NEW q \in N PROVE Counts(c, p, q)'
    <3>1. CASE Waits
      <4>1. (w[l][q] < r + s /\ w[l][q] % s = r) <=> w[l][q] = r
        <5>1. r % s = r
          BY <1>3, <3>1, ModSmall
        <5>2. w[l][q] % s = r => r <= w[l][q]
          BY <1>3, <2>2, <3>1, ModBelow
        <5>3. w[l][q] % s = r /\ r < w[l][q] => r + s <= w[l][q]
          BY <1>3, <2>2, <3>1, <5>1, ModGap
        <5>4. QED BY <1>3, <2>2, <3>1, <5>1, <5>2, <5>3
      <4>2. v.count[q] = IF w[l][q] = r THEN 1 ELSE 0
        BY <1>3, <2>3, <3>1
      <4>3. QED BY <1>6, <3>1, <4>1, <4>2 DEF Counts
    <3>2. CASE Sends \/ Rests
      BY <1>3, <1>6, <3>2 DEF Counts
    <3>3. CASE Ends
      <4>1. l = 1
        BY <1>1, <1>3, <3>3, Cuts
      <4>2. r = 0 => v.count[q] = 1
        BY <2>2, <2>3, <4>1
      <4>3. QED BY <1>6, <3>3, <4>2 DEF Counts
    <3>4. QED BY <1>2, <3>1, <3>2, <3>3
  <2>5. ASSUME Sent(c, p)' PROVE \E j \in Levels(c) : SentAt(c, p, j)'
    <3>1. CASE r >= l
      <4>1. Sent(c, p)
        BY <1>0, <1>2, <1>3, <3>1 DEF Sent
      <4>2. QED BY <1>0, <1>6, <2>1, <4>1 DEF SentAt
    <3>2. CASE r < l
      <4>1. s <= r
        BY <1>2, <1>3, <1>6, <2>5 DEF Sent
      <4>2. SentAt(c, p, l)'
        BY <1>6, <2>3, <3>2, <4>1 DEF SentAt
      <4>3. QED BY <1>3, <4>2
    <3>3. QED BY <1>3, <3>1, <3>2
  <2>6. phase'[p] \in {"up", "add", "down"}
    BY <1>2, <1>6
  <2>7. QED BY <1>6, <2>1, <2>4, <2>5, <2>6 DEF ValuesOK
<1>14. ASSUME NEW x \in N, NEW o \in Int, Past(c, x, o) PROVE Past(c, x, o)'
  BY <1>1, <1>7, <1>11, <1>14, AllOnward
<1>15. ASSUME NEW q \in N PROVE Known(c, p, q)'
  <2>1. Known(c, p, q) /\ runs[p] \in Int /\ runs[p] - 1 \in Int
    BY <1>1, <1>3
  <2>2. \A o \in Int : Past(c, q, o) => Past(c, q, o)'
    BY <1>14
  <2>3. (Past(c, q, runs[p]) => Past(c, q, runs[p])') /\ (Past(c, q, runs[p] - 1) => Past(c, q, runs[p] - 1)')
    BY <1>2, <2>1, <2>2 DEF Past
  <2>4. QED BY <1>0, <1>6, <2>1, <2>3 DEF Known
<1>16. Served(c, p)'
  <2>1. SUFFICES ASSUME r > 0
                 PROVE  SentDown(c, Ply(c, r \div c.bcast), runs[p] - 1, r)'
    BY <1>2, <1>6 DEF Served
  <2>2. SentDown(c, Ply(c, r \div c.bcast), runs[p] - 1, r)
    BY <1>1, <1>2, <2>1 DEF Served
  <2>3. Ply(c, r \div c.bcast) \in N
    BY <1>1, <2>1, ServerNumber
  <2>4. ASSUME NEW o \in Int, o = runs[p] - 1
        PROVE  SentDown(c, Ply(c, r \div c.bcast), o, r)'
    BY <2>2, <2>3, <2>4, <1>1, <1>7, <1>3, <1>11, AllOnward
  <2>5. QED BY <2>4, <1>2, <1>3 DEF SentDown
<1>17. ASSUME NEW q \in N, chan'[p][q] = chan[p][q] PROVE ChannelOK(c, p, q)'
  <2>1. ChannelOK(c, p, q)
    BY <1>1
  <2>2. ASSUME NEW j \in Levels(c), NEW m, Upward(c, p, q, j, m), Rel(c, q) < Rel(c, p)
        PROVE  Upward(c, p, q, j, m)'
    <3>1. q # p /\ SentUp(c, p)'
      BY <1>3, <1>10, <2>2 DEF Upward
    <3>2. /\ runs'[q] = runs[q] /\ phase'[q] = phase[q] /\ level'[q] = level[q]
          /\ next'[q] = next[q]
      BY <1>7, <3>1 DEF OthersSame
    <3>3. /\ runs[q] <= runs[p]
          /\ runs[q] = runs[p] =>
               /\ phase[q] \in {"up", "add"}
               /\ \/ level[q] >= j
                  \/ phase[q] = "add" /\ level[q] = Cut(c, j) /\ next[q] <= Rel(c, p)
      BY <2>2 DEF Upward
    <3>4. QED BY <1>1, <1>6, <1>7, <1>11, <2>2, <3>1, <3>2, <3>3, UpwardKept
  <2>3. ASSUME NEW m, Downward(c, p, q, m), Rel(c, p) < Rel(c, q) PROVE Downward(c, p, q, m)'
    <3>1. q # p /\ phase'[p] \in {"up", "add", "down"}
      BY <1>2, <1>3, <1>6, <2>3
    <3>2. runs'[q] = runs[q] /\ phase'[q] = phase[q]
      BY <1>7, <3>1 DEF OthersSame
    <3>3. /\ phase[q] \in {"up", "add", "down"}
          /\ runs[p] > runs[q] => runs[p] = runs[q] + 1
      BY <2>3 DEF Downward
    <3>4. QED BY <1>1, <1>6, <1>7, <1>11, <2>3, <3>1, <3>2, <3>3, DownwardKept
  <2>4. QED BY <1>17, <2>1, <2>2, <2>3 DEF ChannelOK
<1>18. ASSUME Sends PROVE ChannelOK(c, p, q0)'
  <2>1. chan'[p][q0] = <<v>> /\ Head(chan'[p][q0]) = v
    BY <1>5, <1>18, OneMessage
  <2>2. Rel(c, q0) < r /\ Rel(c, q0) = r % s /\ q0 \in N /\ q0 # p
    BY <1>3, <1>5, <1>18
  <2>3. /\ runs'[q0] = runs[q0] /\ phase'[q0] = phase[q0] /\ level'[q0] = level[q0]
        /\ next'[q0] = next[q0]
    BY <1>7, <2>2 DEF OthersSame
  <2>4. ~ SentUp(c, p)
    BY <1>0, <1>2, <1>3, <1>18 DEF SentUp
  <2>5. runs[q0] <= runs[p]
    BY <2>2, <2>4, NotAhead
  <2>6. runs[q0] = runs[p] =>
          /\ phase[q0] \in {"up", "add"}
          /\ \/ level[q0] >= l
             \/ phase[q0] = "add" /\ level[q0] = s /\ next[q0] <= r
    BY <1>3, <1>18, <2>2, <2>4, NotMissed
  <2>7. SentUp(c, p)'
    BY <1>6, <1>18 DEF SentUp
  <2>8. ASSUME NEW x \in N
        PROVE  /\ v.count[x] = IF w[l][x] = r THEN 1 ELSE 0
               /\ v.count[x] > 0 => Past(c, x, runs[p])'
    <3>1. Counts(c, p, x) /\ Known(c, p, x)
      BY <1>1 DEF ValuesOK
    <3>2. v.count[x] = IF w[l][x] = r THEN 1 ELSE 0
      BY <1>0, <1>2, <1>18, <3>1 DEF Counts
    <3>3. ASSUME NEW o \in Int, o = runs[p], Past(c, x, o) PROVE Past(c, x, o)'
      BY <1>14, <3>3
    <3>4. Past(c, p, runs[p])'
      BY <1>2, <2>7 DEF Past
    <3>5. Past(c, x, runs[p]) => Past(c, x, runs[p])'
      BY <1>2, <1>3, <3>3 DEF Past
    <3>6. QED BY <1>0, <3>1, <3>2, <3>4, <3>5 DEF Known
  <2>9. v.run = runs[p]
    BY <1>0, <1>1 DEF ValuesOK
  <2>10. Upward(c, p, q0, l, v)'
    BY <1>2, <1>3, <1>6, <1>18, <2>2, <2>3, <2>5, <2>6, <2>7, <2>8, <2>9 DEF Upward
  <2>11. \E j \in Levels(c) : Upward(c, p, q0, j, Head(chan[p][q0]))'
    BY <1>3, <2>1, <2>10
  <2>12. QED BY <2>1, <2>2, <2>11 DEF ChannelOK
<1>19. ASSUME NEW q \in N \ {p} PROVE ChannelOK(c, q, p)'
  <2>1. ChannelOK(c, q, p) /\ chan'[q][p] = chan[q][p]
    BY <1>1, <1>2, <1>5
  <2>2. /\ runs'[q] = runs[q] /\ phase'[q] = phase[q] /\ level'[q] = level[q]
    BY <1>7 DEF OthersSame
  <2>3. ASSUME NEW j \in Levels(c), NEW m, Upward(c, q, p, j, m)
        PROVE  Upward(c, q, p, j, m)'
    <3>1. SentUp(c, q)'
      BY <2>2, <2>3 DEF Upward, SentUp
    <3>2. /\ runs[p] <= runs[q] /\ Cut(c, j) > 0 /\ Rel(c, q) < j
          /\ r = Rel(c, q) % Cut(c, j) /\ Cut(c, j) <= Rel(c, q)
          /\ runs[p] = runs[q] => l >= j
      BY <1>0, <1>2, <2>3 DEF Upward
    <3>3. r < Cut(c, j) /\ r <= Rel(c, q) /\ Rel(c, q) \in Nat /\ j \in Nat /\ Cut(c, j) \in Nat
      <4>1. Rel(c, q) \in Nat /\ j \in Nat /\ Cut(c, j) \in Nat
        BY <1>3, <1>4
      <4>2. Rel(c, q) % Cut(c, j) < Cut(c, j) /\ Rel(c, q) % Cut(c, j) <= Rel(c, q)
        BY <3>2, <4>1, ModBelow
      <4>3. QED BY <3>2, <4>1, <4>2
    <3>4. ASSUME runs[p] = runs[q]
          PROVE  /\ phase'[p] \in {"up", "add"}
                 /\ \/ s >= j
                    \/ phase'[p] = "add" /\ s = Cut(c, j) /\ next'[p] <= Rel(c, q)
      <4>1. CASE l = j
        <5>1. Waits
          BY <1>2, <1>3, <3>2, <3>3, <4>1
        <5>2. r + s <= Rel(c, q)
          <6>1. r % s = r
            BY <1>3, <5>1, ModSmall
          <6>2. r < Rel(c, q) /\ Rel(c, q) % s = r % s
            BY <1>3, <3>2, <3>3, <4>1, <6>1
          <6>3. QED BY <1>3, <3>3, <5>1, <6>2, ModGap
        <5>3. QED BY <1>6, <4>1, <5>1, <5>2
      <4>2. CASE l > j
        <5>1. s >= j
          BY <1>1, <1>3, <4>2, NoLevelBetween
        <5>2. Waits
          BY <1>2, <1>3, <3>2, <3>3, <5>1
        <5>3. QED BY <1>6, <5>1, <5>2
      <4>3. QED BY <1>3, <3>2, <3>3, <3>4, <4>1, <4>2
    <3>5. QED BY <1>1, <1>6, <1>7, <1>11, <2>2, <2>3, <3>1, <3>2, <3>4, UpwardKept
  <2>4. ASSUME NEW m, Downward(c, q, p, m) PROVE Downward(c, q, p, m)'
    <3>1. phase'[p] \in {"up", "add", "down"}
      BY <1>2, <1>6
    <3>2. runs[q] > runs[p] => runs[q] = runs[p] + 1 /\ phase[q] \in {"up", "add", "down"}
      BY <2>4 DEF Downward
    <3>3. QED BY <1>1, <1>6, <1>7, <1>11, <2>2, <2>4, <3>1, <3>2, DownwardKept
  <2>5. QED BY <2>1, <2>3, <2>4 DEF ChannelOK
<1>20. ASSUME NEW q \in N PROVE ChannelOK(c, p, q)' /\ ChannelOK(c, q, p)'
  <2>1. ChannelOK(c, p, q)'
    BY <1>2, <1>5, <1>17, <1>18
  <2>2. QED BY <1>19, <2>1
<1>21. \A x, y \in N \ {p} : chan'[x][y] = chan[x][y]
  BY <1>2, <1>5
<1>22. QED
  BY <1>1, <1>2, <1>7, <1>8, <1>11, <1>12, <1>13, <1>15, <1>16, <1>20, <1>21, StepOfOne DEF KeptBy

-----------------------------------------------------------------------------
(* AddOpening.                                                             *)

\* What is known to be past, or to be sent down, with the run of a party.
LEMMA PastKept ==
    ASSUME NEW c \in Config, NEW p \in Numbers(c), TypeInv(c), OthersSame(c, p), Onward(c, p),
           NEW x \in Numbers(c), runs' = runs
    PROVE  /\ Past(c, x, runs[p]) => Past(c, x, runs[p])'
           /\ Past(c, x, runs[p] - 1) => Past(c, x, runs[p] - 1)'
<1>1. runs[p] \in Int /\ runs[p] - 1 \in Int
  BY Typed
<1>2. ASSUME NEW o \in Int, Past(c, x, o) PROVE Past(c, x, o)'
  BY <1>2, AllOnward
<1>3. Past(c, x, runs[p]) => Past(c, x, runs[p])'
  BY <1>1, <1>2 DEF Past
<1>4. Past(c, x, runs[p] - 1) => Past(c, x, runs[p] - 1)'
  BY <1>1, <1>2 DEF Past
<1>5. QED BY <1>3, <1>4

\* A party that still waits for its sum is served as before.
LEMMA ServedKept ==
    ASSUME NEW c \in Config, NEW p \in Numbers(c), TypeInv(c), OthersSame(c, p), Onward(c, p),
           Served(c, p), runs' = runs,
           phase[p] \in {"spread", "idle"} <=> phase'[p] \in {"spread", "idle"}
    PROVE  Served(c, p)'
<1> DEFINE r == Rel(c, p)
           x == Ply(c, r \div c.bcast)
<1>1. SUFFICES ASSUME r > 0 PROVE Served(c, p)'
  BY DEF Served
<1>2. x \in Numbers(c) /\ runs[p] \in Int /\ runs[p] - 1 \in Int /\ r \in Nat
  BY <1>1, Typed, ServerNumber
<1>3. ASSUME NEW o \in Int, SentDown(c, x, o, r) PROVE SentDown(c, x, o, r)'
  BY <1>2, <1>3, AllOnward
<1> HIDE DEF x, r
<1>4. SentDown(c, x, runs[p], r) => SentDown(c, x, runs[p], r)'
  BY <1>2, <1>3 DEF SentDown
<1>5. SentDown(c, x, runs[p] - 1, r) => SentDown(c, x, runs[p] - 1, r)'
  BY <1>2, <1>3 DEF SentDown
<1>6. QED BY <1>1, <1>4, <1>5 DEF Served, r, x

\* A party that adds gets the sum it waits for: of its opening, with the shares
\* that are with the sender at that level.
LEMMA AddedSum ==
    ASSUME NEW c, Inductive(c), NEW p \in Numbers(c), phase[p] = "add", next[p] < last[p],
           NEW q \in Numbers(c), q = Ply(c, next[p]), chan[q][p] # <<>>
    PROVE  /\ chan[q][p] = <<Head(chan[q][p])>> /\ Rel(c, q) = next[p] /\ q # p
           /\ runs[q] = runs[p]
           /\ Upward(c, q, p, last[p], Head(chan[q][p]))
<1>1. /\ c \in Config /\ TypeInv(c) /\ PlaceOK(c, p) /\ ChannelOK(c, q, p) /\ Known(c, q, p)
  BY DEF Inductive
<1>2. /\ next[p] \in Nat /\ last[p] \in Nat /\ runs[p] \in Nat /\ runs[q] \in Nat /\ c.n \in Nat
      /\ level[p] \in Nat /\ Rel(c, p) \in Nat
  BY <1>1, Typed
<1>3. /\ last[p] \in Levels(c) /\ level[p] = Cut(c, last[p]) /\ Rel(c, p) < level[p]
      /\ next[p] >= level[p]
  BY <1>1 DEF PlaceOK
<1>4. last[p] <= c.n
  BY <1>1, <1>2, <1>3, CarrierFacts
<1>5. next[p] \in Numbers(c)
  BY <1>2, <1>4 DEF Numbers
<1>6. Rel(c, q) = next[p]
  BY <1>1, <1>5, Renaming
<1>7. Rel(c, p) < Rel(c, q)
  BY <1>2, <1>3, <1>6
<1>8. ~ SentUp(c, p)
  BY DEF SentUp
<1>9. runs[q] <= runs[p]
  BY <1>8, NotAhead
<1>10. PICK l \in Levels(c) : Upward(c, q, p, l, Head(chan[q][p]))
  BY <1>1, <1>2, <1>6, <1>7 DEF ChannelOK
<1>11. runs[q] = runs[p]
  BY <1>2, <1>9, <1>10 DEF Upward
<1>12. l = last[p]
  <2>1. /\ Cut(c, l) <= Rel(c, q) /\ Rel(c, q) < l
        /\ Cut(c, last[p]) <= Rel(c, q) /\ Rel(c, q) < last[p]
    BY <1>3, <1>6, <1>10 DEF Upward
  <2>2. QED BY <1>1, <1>2, <1>3, <1>6, <2>1, OneLevel
<1>13. QED BY <1>1, <1>6, <1>7, <1>2, <1>10, <1>11, <1>12 DEF ChannelOK

\* One sum is added, or the level is done.
LEMMA AddKeeps ==
    ASSUME NEW c, Inductive(c), NEW p \in Numbers(c), AddOpening(p)
    PROVE  Inductive(c)'
<1>0. PICK l, s, k, q0, m : /\ l = last[p] /\ s = level[p] /\ k = next[p] /\ q0 = Ply(c, k)
                            /\ m = Head(chan[q0][p])
  OBVIOUS
<1> DEFINE N == Numbers(c)
           r == Rel(c, p)
           w == Carrier(c)
           v == value[p]
           Adds == /\ k < l /\ chan[q0][p] # <<>>
                   /\ value' = [value EXCEPT ![p] = Plus(v, m)]
                   /\ chan' = [chan EXCEPT ![q0][p] = Tail(chan[q0][p])]
                   /\ next' = [next EXCEPT ![p] = k + s]
                   /\ phase' = phase
           Ends == /\ k >= l /\ phase' = [phase EXCEPT ![p] = "up"]
                   /\ value' = value /\ next' = next /\ chan' = chan
<1>1. /\ par = c /\ c \in Config /\ TypeInv(c) /\ Party = N
      /\ \A q \in N : PlaceOK(c, q) /\ ValuesOK(c, q) /\ Served(c, q)
      /\ \A x, y \in N : Known(c, x, y) /\ ChannelOK(c, x, y)
  BY DEF Inductive, Party, Numbers
<1>2. /\ phase[p] = "add"
      /\ par' = par /\ runs' = runs /\ level' = level /\ last' = last /\ vals' = vals
      /\ Adds \/ Ends
  <2>1. Player(next[p]) = q0
    BY <1>0, <1>1 DEF Player, Ply
  <2>2. QED BY <1>0, <2>1 DEF AddOpening, There, Received, ReceiveFrom
<1>3. /\ \A x \in N : /\ runs[x] \in Nat /\ level[x] \in Nat /\ next[x] \in Nat
                      /\ Rel(c, x) \in Nat /\ Rel(c, x) < c.n
      /\ c.n \in Nat /\ l \in Nat /\ s \in Nat /\ k \in Nat /\ r \in Nat
      /\ l \in Levels(c) /\ s \in Levels(c) /\ s = Cut(c, l) /\ s > 0 /\ r < s /\ k >= s
      /\ k % s = r /\ l <= c.n /\ l > 0 /\ runs[p] > 0
  <2>1. /\ l \in Levels(c) /\ s \in Levels(c) /\ s = Cut(c, l) /\ s > 0 /\ r < s /\ k >= s
        /\ k % s = r /\ runs[p] > 0
    BY <1>0, <1>1, <1>2 DEF PlaceOK
  <2>2. l <= c.n /\ l \in Nat
    BY <1>1, <2>1, CarrierFacts
  <2>3. l > 0
    BY <1>1, <2>1, <2>2, Cuts
  <2>4. QED BY <1>0, <1>1, <2>1, <2>2, <2>3, Typed
<1>4. ASSUME Adds
      PROVE  /\ q0 \in N /\ q0 # p /\ Rel(c, q0) = k /\ Upward(c, q0, p, l, m)
             /\ m \in Values(c) /\ chan'[q0][p] = <<>> /\ runs[q0] = runs[p]
             /\ \A x, y \in N : x # q0 \/ y # p => chan'[x][y] = chan[x][y]
             /\ chan' \in [N -> [N -> Seq(Values(c))]]
  <2>1. q0 \in N
    <3>1. k \in N
      BY <1>3, <1>4 DEF Numbers
    <3>2. QED BY <1>0, <1>1, <3>1, Renaming
  <2>2. /\ chan[q0][p] = <<m>> /\ Rel(c, q0) = k /\ q0 # p /\ runs[q0] = runs[p]
        /\ Upward(c, q0, p, l, m)
    BY <1>0, <1>2, <1>4, <2>1, AddedSum
  <2>3. chan \in [N -> [N -> Seq(Values(c))]] /\ chan[q0][p] \in Seq(Values(c))
    BY <1>1, <2>1 DEF TypeInv
  <2>4. m \in Values(c)
    BY <2>2, <2>3
  <2>5. Tail(chan[q0][p]) = <<>> /\ <<>> \in Seq(Values(c))
    BY <2>2, <2>4, OneMessage
  <2>6. chan' = [chan EXCEPT ![q0][p] = <<>>]
    BY <1>4, <2>5
  <2>7. QED BY <2>1, <2>2, <2>3, <2>4, <2>5, <2>6
<1>5. /\ level'[p] = s /\ last'[p] = l /\ runs'[p] = runs[p] /\ vals'[p] = vals[p]
      /\ Adds => phase'[p] = "add" /\ next'[p] = k + s /\ value'[p] = Plus(v, m)
      /\ Ends => phase'[p] = "up" /\ value'[p] = v
  BY <1>0, <1>1, <1>2 DEF TypeInv
<1>6. OthersSame(c, p)
  BY <1>1, <1>2 DEF TypeInv, OthersSame
<1>7. ASSUME Adds
      PROVE  /\ Plus(v, m) \in Values(c) /\ Plus(v, m).run = v.run
             /\ \A x \in N : Plus(v, m).count[x] = v.count[x] + m.count[x]
  <2>1. v \in Values(c) /\ m \in Values(c)
    BY <1>1, <1>4, <1>7, Typed
  <2>2. Plus(v, m) = [v EXCEPT !.count = [x \in N |-> v.count[x] + m.count[x]]]
    BY <1>1, <2>1 DEF Plus, Values
  <2>3. [x \in N |-> v.count[x] + m.count[x]] \in [N -> Nat]
    BY <2>1 DEF Values
  <2>4. QED BY <2>1, <2>2, <2>3 DEF Values
<1>8. TypeInv(c)'
  <2>1. k + s \in Nat
    BY <1>3
  <2>2. value' \in [N -> Values(c)]
    BY <1>1, <1>2, <1>7 DEF TypeInv
  <2>3. phase' \in [N -> {"up", "add", "down", "spread", "idle"}] /\ next' \in [N -> Nat]
    <3>1. CASE Adds
      <4>1. next' \in [N -> Nat]
        BY <1>1, <2>1, <3>1 DEF TypeInv
      <4>2. QED BY <1>1, <3>1, <4>1 DEF TypeInv
    <3>2. CASE Ends
      BY <1>1, <3>2 DEF TypeInv
    <3>3. QED BY <1>2, <3>1, <3>2
  <2>4. chan' \in [N -> [N -> Seq(Values(c))]]
    BY <1>1, <1>2, <1>4 DEF TypeInv
  <2>5. QED BY <1>1, <1>2, <2>2, <2>3, <2>4 DEF TypeInv
<1>9. ~ SentUp(c, p)
  BY <1>2 DEF SentUp
<1>10. Onward(c, p)
  <2>1. ASSUME NEW o \in Int, Past(c, p, o) PROVE Past(c, p, o)'
    BY <1>5, <1>9, <2>1 DEF Past
  <2>2. ASSUME NEW o \in Int, NEW x \in Nat, SentDown(c, p, o, x) PROVE SentDown(c, p, o, x)'
    BY <1>2, <1>5, <2>2 DEF SentDown
  <2>3. QED BY <2>1, <2>2 DEF Onward
<1>11. PlaceOK(c, p)'
  <2>1. CASE Adds
    <3>1. (k + s) % s = k % s
      BY <1>3, ModShift
    <3>2. k + s >= s
      BY <1>3
    <3>3. QED BY <1>3, <1>5, <2>1, <3>1, <3>2 DEF PlaceOK
  <2>2. CASE Ends
    BY <1>3, <1>5, <2>2 DEF PlaceOK
  <2>3. QED BY <1>2, <2>1, <2>2
<1>12. ASSUME NEW x \in N
       PROVE  w[l][x] \in Nat /\ w[l][x] < l /\ w[s][x] = w[l][x] % s
  BY <1>1, <1>3, <1>12, CarrierFacts
<1>13. ASSUME NEW x \in N
       PROVE  v.count[x] = IF w[l][x] < k /\ w[l][x] % s = r THEN 1 ELSE 0
  BY <1>0, <1>1, <1>2 DEF ValuesOK, Counts
<1>14. ValuesOK(c, p)'
  <2>1. /\ v.run = runs[p] /\ Len(vals[p]) = runs[p] - 1
        /\ \A o \in 1 .. Len(vals[p]) : vals[p][o] = Full(c, o)
    BY <1>1, <1>2 DEF ValuesOK
  <2>2. value'[p].run = runs[p]
    BY <1>2, <1>5, <1>7, <2>1
  <2>3. ASSUME NEW x \in N PROVE Counts(c, p, x)'
    <3>1. CASE Adds
      <4>1. m.count[x] = IF w[l][x] = k THEN 1 ELSE 0
        BY <1>4, <3>1 DEF Upward
      <4>2. (w[l][x] < k + s /\ w[l][x] % s = r)
               <=> (w[l][x] < k /\ w[l][x] % s = r) \/ w[l][x] = k
        <5>1. w[l][x] % s = r /\ k < w[l][x] => k + s <= w[l][x]
          BY <1>3, <1>12, ModGap
        <5>2. QED BY <1>3, <1>12, <5>1
      <4>3. value'[p].count[x] = IF w[l][x] < k + s /\ w[l][x] % s = r THEN 1 ELSE 0
        <5>1. value'[p].count[x] = v.count[x] + m.count[x]
          BY <1>5, <1>7, <3>1
        <5>2. ~ (w[l][x] < k /\ w[l][x] = k)
          BY <1>3, <1>12
        <5>3. QED BY <1>13, <4>1, <4>2, <5>1, <5>2
      <4>4. QED BY <1>5, <3>1, <4>3 DEF Counts
    <3>2. CASE Ends
      <4>1. (w[l][x] < k /\ w[l][x] % s = r) <=> w[s][x] = r
        BY <1>3, <1>12, <3>2
      <4>2. QED BY <1>5, <1>13, <3>2, <4>1 DEF Counts
    <3>3. QED BY <1>2, <3>1, <3>2
  <2>4. ~ Sent(c, p)'
    BY <1>2, <1>3, <1>5 DEF Sent
  <2>5. phase'[p] \in {"up", "add"}
    BY <1>2, <1>5
  <2>6. QED BY <1>5, <2>1, <2>2, <2>3, <2>4, <2>5 DEF ValuesOK
<1>15. ASSUME NEW q \in N PROVE Known(c, p, q)'
  <2>1. Known(c, p, q)
    BY <1>1
  <2>2. /\ Past(c, q, runs[p]) => Past(c, q, runs[p])'
        /\ Past(c, q, runs[p] - 1) => Past(c, q, runs[p] - 1)'
    BY <1>1, <1>2, <1>6, <1>10, PastKept
  <2>3. value'[p].count[q] > 0 => v.count[q] > 0 \/ (Adds /\ m.count[q] > 0)
    <3>1. CASE Adds
      <4>1. v.count[q] \in Nat /\ m.count[q] \in Nat
        BY <1>1, <1>4, <3>1, Typed DEF Values
      <4>2. QED BY <1>5, <1>7, <3>1, <4>1
    <3>2. CASE Ends
      BY <1>5, <3>2
    <3>3. QED BY <1>2, <3>1, <3>2
  <2>4. Adds /\ m.count[q] > 0 => Past(c, q, runs[p])
    BY <1>4 DEF Upward
  <2>5. QED BY <1>5, <2>1, <2>2, <2>3, <2>4 DEF Known
<1>16. Served(c, p)'
  <2>1. phase'[p] \in {"up", "add"}
    BY <1>2, <1>5
  <2>2. QED BY <1>1, <1>2, <1>6, <1>10, <2>1, ServedKept
<1>17. ASSUME NEW q \in N \ {p} PROVE ChannelOK(c, p, q)'
  <2>1. ChannelOK(c, p, q) /\ chan'[p][q] = chan[p][q]
    BY <1>1, <1>2, <1>4
  <2>2. /\ runs'[q] = runs[q] /\ phase'[q] = phase[q] /\ phase'[p] \in {"up", "add"}
    BY <1>2, <1>5, <1>6 DEF OthersSame
  <2>3. ASSUME NEW j \in Levels(c), NEW y, Upward(c, p, q, j, y) PROVE FALSE
    BY <1>9, <2>3 DEF Upward
  <2>4. ASSUME NEW y, Downward(c, p, q, y) PROVE Downward(c, p, q, y)'
    <3>1. /\ phase[q] \in {"up", "add", "down"}
          /\ runs[p] > runs[q] => runs[p] = runs[q] + 1
      BY <2>4 DEF Downward
    <3>2. QED BY <1>1, <1>5, <1>6, <1>10, <2>2, <2>4, <3>1, DownwardKept
  <2>5. QED BY <2>1, <2>3, <2>4 DEF ChannelOK
<1>18. ASSUME NEW q \in N PROVE ChannelOK(c, q, p)'
  <2>1. CASE Adds /\ q = q0
    BY <1>4, <2>1 DEF ChannelOK
  <2>2. CASE q = p /\ q # q0
    <3>1. chan'[p][p] = chan[p][p] /\ ChannelOK(c, p, p)
      BY <1>1, <1>2, <1>4, <2>2
    <3>2. ~ (Rel(c, p) < Rel(c, p))
      BY <1>3
    <3>3. QED BY <2>2, <3>1, <3>2 DEF ChannelOK
  <2>3. CASE q # p /\ (Ends \/ q # q0)
    <3>1. ChannelOK(c, q, p) /\ chan'[q][p] = chan[q][p]
      BY <1>1, <1>2, <1>4, <2>3
    <3>2. runs'[q] = runs[q] /\ phase'[q] = phase[q] /\ level'[q] = level[q]
      BY <1>6, <2>3 DEF OthersSame
    <3>3. ASSUME NEW j \in Levels(c), NEW y, Upward(c, q, p, j, y) PROVE Upward(c, q, p, j, y)'
      <4>1. SentUp(c, q)'
        BY <3>2, <3>3 DEF Upward, SentUp
      <4>2. /\ runs[p] <= runs[q] /\ Cut(c, j) > 0 /\ Cut(c, j) <= Rel(c, q) /\ Rel(c, q) < j
            /\ r = Rel(c, q) % Cut(c, j)
            /\ runs[p] = runs[q] => s >= j \/ (s = Cut(c, j) /\ k <= Rel(c, q))
        BY <1>0, <1>2, <3>3 DEF Upward
      <4>3. ASSUME runs[p] = runs[q]
            PROVE  \/ s >= j
                   \/ phase'[p] = "add" /\ s = Cut(c, j) /\ next'[p] <= Rel(c, q)
        <5>1. CASE s >= j
          BY <5>1
        <5>2. CASE s = Cut(c, j) /\ k <= Rel(c, q)
          <6>1. j = l
            <7>1. (j < l => j <= Cut(c, l)) /\ (l < j => l <= Cut(c, j))
              BY <1>1, <1>3, NoLevelBetween
            <7>2. j \in Nat /\ j > 0
              BY <1>1, <1>3, <4>2, CarrierFacts
            <7>3. s < l /\ s < j
              <8>1. Cut(c, l) < l
                BY <1>1, <1>3, Cuts
              <8>2. Cut(c, j) < j
                BY <1>1, <7>2, Cuts
              <8>3. QED BY <1>3, <5>2, <8>1, <8>2
            <7>4. QED BY <1>3, <5>2, <7>1, <7>2, <7>3
          <6>2. Adds
            BY <1>2, <1>3, <4>2, <5>2, <6>1
          <6>3. k # Rel(c, q)
            <7>1. q = Ply(c, Rel(c, q))
              BY <1>1, Renaming
            <7>2. q # q0
              BY <1>3, <2>3, <6>2
            <7>3. QED BY <1>0, <7>1, <7>2
          <6>4. k + s <= Rel(c, q)
            <7>1. k < Rel(c, q) /\ Rel(c, q) % s = k % s
              BY <1>3, <4>2, <5>2, <6>3
            <7>2. QED BY <1>3, <7>1, ModGap
          <6>5. QED BY <1>5, <5>2, <6>2, <6>4
        <5>3. QED BY <4>2, <4>3, <5>1, <5>2
      <4>4. phase'[p] \in {"up", "add"}
        BY <1>2, <1>5
      <4>5. QED BY <1>1, <1>5, <1>6, <1>10, <3>2, <3>3, <4>1, <4>2, <4>3, <4>4, UpwardKept
    <3>4. ASSUME NEW y, Downward(c, q, p, y) PROVE Downward(c, q, p, y)'
      <4>1. phase'[p] \in {"up", "add", "down"}
        BY <1>2, <1>5
      <4>2. runs[q] > runs[p] => runs[q] = runs[p] + 1 /\ phase[q] \in {"up", "add", "down"}
        BY <3>4 DEF Downward
      <4>3. QED BY <1>1, <1>5, <1>6, <1>10, <3>2, <3>4, <4>1, <4>2, DownwardKept
    <3>5. QED BY <3>1, <3>3, <3>4 DEF ChannelOK
  <2>4. CASE q = p /\ Ends
    <3>1. chan'[p][p] = chan[p][p] /\ ChannelOK(c, p, p)
      BY <1>1, <2>4
    <3>2. ~ (Rel(c, p) < Rel(c, p))
      BY <1>3
    <3>3. QED BY <2>4, <3>1, <3>2 DEF ChannelOK
  <2>5. QED BY <1>2, <2>1, <2>2, <2>3, <2>4
<1>19. \A x, y \in N \ {p} : chan'[x][y] = chan[x][y]
  BY <1>2, <1>4
<1>20. ASSUME NEW q \in N PROVE ChannelOK(c, p, q)' /\ ChannelOK(c, q, p)'
  BY <1>17, <1>18
<1>21. QED
  BY <1>1, <1>2, <1>6, <1>8, <1>10, <1>11, <1>14, <1>15, <1>16, <1>19, <1>20, StepOfOne DEF KeptBy

-----------------------------------------------------------------------------
(* Down.                                                                   *)

\* A party that waits for the sum gets that of its opening.
LEMMA ServedSum ==
    ASSUME NEW c, Inductive(c), NEW p \in Numbers(c), phase[p] = "down", Rel(c, p) > 0,
           NEW q \in Numbers(c), q = Ply(c, Rel(c, p) \div c.bcast), chan[q][p] # <<>>
    PROVE  /\ chan[q][p] = <<Head(chan[q][p])>> /\ q # p
           /\ Rel(c, q) = Rel(c, p) \div c.bcast /\ Rel(c, q) < Rel(c, p)
           /\ Downward(c, q, p, Head(chan[q][p]))
<1>1. c \in Config /\ TypeInv(c) /\ ChannelOK(c, q, p)
  BY DEF Inductive
<1>2. Rel(c, q) = Rel(c, p) \div c.bcast /\ Rel(c, q) < Rel(c, p)
  BY <1>1, ServerNumber
<1>3. Rel(c, q) \in Nat /\ Rel(c, p) \in Nat
  BY <1>1, Typed
<1>4. QED BY <1>1, <1>2, <1>3 DEF ChannelOK

\* The base player has the sum, another party receives it.
LEMMA DownKeeps ==
    ASSUME NEW c, Inductive(c), NEW p \in Numbers(c), Down(p)
    PROVE  Inductive(c)'
<1>0. PICK v, q0, m : /\ v = Full(c, runs[p]) /\ q0 = Ply(c, Rel(c, p) \div c.bcast)
                      /\ m = Head(chan[q0][p])
  OBVIOUS
<1> DEFINE N == Numbers(c)
           r == Rel(c, p)
           Base == r = 0 /\ value' = value /\ chan' = chan
                   /\ vals' = [vals EXCEPT ![p] = Append(vals[p], value[p])]
           Other == /\ r > 0 /\ chan[q0][p] # <<>>
                    /\ value' = [value EXCEPT ![p] = m]
                    /\ chan' = [chan EXCEPT ![q0][p] = Tail(chan[q0][p])]
                    /\ vals' = [vals EXCEPT ![p] = Append(vals[p], m)]
<1>1. /\ par = c /\ c \in Config /\ TypeInv(c) /\ Party = N
      /\ \A q \in N : PlaceOK(c, q) /\ ValuesOK(c, q) /\ Served(c, q)
      /\ \A x, y \in N : Known(c, x, y) /\ ChannelOK(c, x, y)
  BY DEF Inductive, Party, Numbers
<1>3. /\ \A x \in N : /\ runs[x] \in Nat /\ level[x] \in Nat /\ next[x] \in Nat
                      /\ Rel(c, x) \in Nat /\ Rel(c, x) < c.n
      /\ c.n \in Nat /\ r \in Nat /\ c.bcast \in Nat /\ c.bcast > 1
  BY <1>1, Typed
<1>2. /\ phase[p] = "down"
      /\ par' = par /\ runs' = runs /\ level' = level /\ last' = last
      /\ phase' = [phase EXCEPT ![p] = "spread"]
      /\ next' = [next EXCEPT ![p] = First(c, r)]
      /\ Base \/ Other
  <2>1. Relative(p) = r /\ FirstReceiver(r) = First(c, r) /\ (r > 0 => SenderOf(r) = q0)
    BY <1>0, <1>1 DEF Relative, Rel, FirstReceiver, First, SenderOf, Player, Ply
  <2>2. r = 0 \/ r > 0
    BY <1>3
  <2>3. QED BY <1>0, <2>1, <2>2 DEF Down, There, Received, ReceiveFrom, Add
<1>4. runs[p] > 0 /\ v \in Values(c)
  <2>1. runs[p] > 0
    BY <1>1, <1>2 DEF PlaceOK
  <2>2. runs[p] \in 0 .. MaxRuns
    BY <1>1 DEF TypeInv
  <2>3. QED BY <1>0, <2>1, <2>2 DEF Full, Values
<1>5. ASSUME Other
      PROVE  /\ q0 \in N /\ q0 # p /\ Rel(c, q0) = r \div c.bcast /\ Rel(c, q0) < r
             /\ Downward(c, q0, p, m) /\ m = v
             /\ chan'[q0][p] = <<>>
             /\ \A x, y \in N : x # q0 \/ y # p => chan'[x][y] = chan[x][y]
             /\ chan' \in [N -> [N -> Seq(Values(c))]]
  <2>1. q0 \in N
    BY <1>0, <1>1, <1>5, ServerNumber
  <2>2. /\ chan[q0][p] = <<m>> /\ q0 # p /\ Rel(c, q0) = r \div c.bcast /\ Rel(c, q0) < r
        /\ Downward(c, q0, p, m)
    BY <1>0, <1>2, <1>5, <2>1, ServedSum
  <2>3. m = v
    BY <1>0, <2>2 DEF Downward
  <2>4. chan \in [N -> [N -> Seq(Values(c))]]
    BY <1>1 DEF TypeInv
  <2>5. Tail(chan[q0][p]) = <<>> /\ <<>> \in Seq(Values(c))
    BY <1>4, <2>2, <2>3, OneMessage
  <2>6. chan' = [chan EXCEPT ![q0][p] = <<>>]
    BY <1>5, <2>5
  <2>7. QED BY <2>1, <2>2, <2>3, <2>4, <2>5, <2>6
<1>6. Base => value[p] = v
  <2>1. SUFFICES ASSUME r = 0 PROVE value[p] = v
    OBVIOUS
  <2>2. value[p].run = runs[p] /\ \A q \in N : value[p].count[q] = 1
    BY <1>1, <1>2, <2>1 DEF ValuesOK, Counts
  <2>3. value[p] \in Values(c)
    BY <1>1, Typed
  <2>4. value[p].count = [q \in N |-> 1]
    BY <2>2, <2>3 DEF Values
  <2>5. QED BY <1>0, <2>2, <2>3, <2>4 DEF Values, Full
<1>7. /\ phase'[p] = "spread" /\ next'[p] = First(c, r) /\ runs'[p] = runs[p]
      /\ value'[p] = v /\ vals'[p] = Append(vals[p], v)
      /\ value' = [value EXCEPT ![p] = v] /\ vals' = [vals EXCEPT ![p] = Append(vals[p], v)]
  <2>1. value' = [value EXCEPT ![p] = v] /\ vals' = [vals EXCEPT ![p] = Append(vals[p], v)]
    <3>1. CASE Base
      <4>1. value = [value EXCEPT ![p] = value[p]]
        BY <1>1 DEF TypeInv
      <4>2. QED BY <1>6, <3>1, <4>1
    <3>2. CASE Other
      BY <1>5, <3>2
    <3>3. QED BY <1>2, <3>1, <3>2
  <2>2. QED BY <1>1, <1>2, <2>1 DEF TypeInv
<1>8. OthersSame(c, p)
  BY <1>1, <1>2, <1>7 DEF TypeInv, OthersSame
<1>9. First(c, r) \in Nat
  BY <1>3 DEF First
<1>10. TypeInv(c)'
  <2>1. vals' \in [N -> Seq(Values(c))] /\ value' \in [N -> Values(c)]
    <3>1. Append(vals[p], v) \in Seq(Values(c))
      BY <1>1, <1>4, Typed
    <3>2. QED BY <1>1, <1>4, <1>7, <3>1 DEF TypeInv
  <2>2. chan' \in [N -> [N -> Seq(Values(c))]]
    BY <1>1, <1>2, <1>5 DEF TypeInv
  <2>3. phase' \in [N -> {"up", "add", "down", "spread", "idle"}] /\ next' \in [N -> Nat]
    BY <1>1, <1>2, <1>9 DEF TypeInv
  <2>4. QED BY <1>1, <1>2, <2>1, <2>2, <2>3 DEF TypeInv
<1>11. Onward(c, p)
  <2>1. ASSUME NEW o \in Int, Past(c, p, o) PROVE Past(c, p, o)'
    BY <1>7, <2>1 DEF Past, SentUp
  <2>2. ASSUME NEW o \in Int, NEW x \in Nat, SentDown(c, p, o, x) PROVE SentDown(c, p, o, x)'
    BY <1>2, <1>7, <2>2 DEF SentDown
  <2>3. QED BY <2>1, <2>2 DEF Onward
<1>12. PlaceOK(c, p)'
  BY <1>3, <1>4, <1>7, <1>9 DEF PlaceOK
<1>13. ASSUME NEW q \in N PROVE Past(c, q, runs[p])
  <2>1. CASE Base
    BY <1>2, <2>1, AllPast
  <2>2. CASE Other
    BY <1>5, <2>2 DEF Downward
  <2>3. QED BY <1>2, <2>1, <2>2
<1>14. ValuesOK(c, p)'
  <2>1. /\ Len(vals[p]) = runs[p] - 1 /\ vals[p] \in Seq(Values(c))
        /\ \A o \in 1 .. Len(vals[p]) : vals[p][o] = Full(c, o)
    BY <1>1, <1>2, Typed DEF ValuesOK
  <2>2. Len(vals'[p]) = runs[p]
    BY <1>3, <1>4, <1>7, <2>1
  <2>3. ASSUME NEW o \in 1 .. runs[p] PROVE vals'[p][o] = Full(c, o)
    <3>1. CASE o = runs[p]
      BY <1>0, <1>3, <1>4, <1>7, <2>1, <3>1
    <3>2. CASE o < runs[p]
      BY <1>3, <1>4, <1>7, <2>1, <3>2
    <3>3. QED BY <1>3, <3>1, <3>2
  <2>4. value'[p].run = runs[p] /\ \A q \in N : value'[p].count[q] = 1
    BY <1>0, <1>7 DEF Full
  <2>5. \A q \in N : Counts(c, p, q)'
    BY <1>7, <2>4 DEF Counts
  <2>6. ~ Sent(c, p)'
    BY <1>7 DEF Sent
  <2>7. QED BY <1>7, <2>2, <2>3, <2>4, <2>5, <2>6 DEF ValuesOK
<1>15. ASSUME NEW q \in N PROVE Known(c, p, q)'
  <2>1. Past(c, q, runs[p])' /\ (Past(c, q, runs[p] - 1) => Past(c, q, runs[p] - 1)')
    BY <1>1, <1>2, <1>8, <1>11, <1>13, PastKept
  <2>2. Known(c, p, q)
    BY <1>1
  <2>3. QED BY <1>7, <2>1, <2>2 DEF Known
<1>16. Served(c, p)'
  <2>1. SUFFICES ASSUME r > 0 PROVE SentDown(c, q0, runs[p], r)'
    BY <1>0, <1>7 DEF Served
  <2>2. q0 # p /\ q0 \in N /\ SentDown(c, q0, runs[p], r)
    BY <1>2, <1>5, <2>1 DEF Downward
  <2>3. /\ runs'[q0] = runs[q0] /\ phase'[q0] = phase[q0] /\ next'[q0] = next[q0]
    BY <1>8, <2>2 DEF OthersSame
  <2>4. QED BY <1>2, <2>2, <2>3 DEF SentDown
<1>17. ASSUME NEW q \in N \ {p} PROVE ChannelOK(c, p, q)'
  <2>1. ChannelOK(c, p, q) /\ chan'[p][q] = chan[p][q]
    BY <1>1, <1>2, <1>5
  <2>2. /\ runs'[q] = runs[q] /\ phase'[q] = phase[q] /\ level'[q] = level[q]
        /\ next'[q] = next[q]
    BY <1>8 DEF OthersSame
  <2>3. ASSUME NEW j \in Levels(c), NEW y, Upward(c, p, q, j, y) PROVE Upward(c, p, q, j, y)'
    <3>1. SentUp(c, p)'
      BY <1>7 DEF SentUp
    <3>2. /\ runs[q] <= runs[p]
          /\ runs[q] = runs[p] =>
               /\ phase[q] \in {"up", "add"}
               /\ \/ level[q] >= j
                  \/ phase[q] = "add" /\ level[q] = Cut(c, j) /\ next[q] <= Rel(c, p)
      BY <2>3 DEF Upward
    <3>3. QED BY <1>1, <1>7, <1>8, <1>11, <2>2, <2>3, <3>1, <3>2, UpwardKept
  <2>4. ASSUME NEW y, Downward(c, p, q, y) PROVE FALSE
    <3>1. runs[p] > runs[q]
      BY <1>2, <2>4 DEF Downward, SentDown
    <3>2. QED BY <1>3, <1>13, <3>1 DEF Past
  <2>5. QED BY <2>1, <2>3, <2>4 DEF ChannelOK
<1>18. ASSUME NEW q \in N PROVE ChannelOK(c, q, p)'
  <2>1. CASE q = p
    <3>1. chan'[p][p] = chan[p][p] /\ ChannelOK(c, p, p)
      BY <1>1, <1>2, <1>5
    <3>2. ~ (Rel(c, p) < Rel(c, p))
      BY <1>3
    <3>3. QED BY <2>1, <3>1, <3>2 DEF ChannelOK
  <2>2. CASE Other /\ q = q0
    BY <1>5, <2>2 DEF ChannelOK
  <2>3. CASE q # p /\ (Base \/ q # q0)
    <3>1. ChannelOK(c, q, p) /\ chan'[q][p] = chan[q][p]
      BY <1>1, <1>2, <1>5, <2>3
    <3>2. runs'[q] = runs[q] /\ phase'[q] = phase[q] /\ level'[q] = level[q]
      BY <1>8, <2>3 DEF OthersSame
    <3>3. ASSUME NEW j \in Levels(c), NEW y, Upward(c, q, p, j, y) PROVE Upward(c, q, p, j, y)'
      <4>1. SentUp(c, q)'
        BY <3>2, <3>3 DEF Upward, SentUp
      <4>2. runs[p] <= runs[q] /\ runs[p] # runs[q]
        BY <1>2, <3>3 DEF Upward
      <4>3. QED BY <1>1, <1>7, <1>8, <1>11, <3>2, <3>3, <4>1, <4>2, UpwardKept
    <3>4. ASSUME NEW y, Downward(c, q, p, y), Rel(c, q) < Rel(c, p) PROVE FALSE
      <4>1. Rel(c, q) = r \div c.bcast /\ Other
        BY <1>2, <1>3, <3>4 DEF Downward
      <4>2. q = q0
        <5>1. q = Ply(c, Rel(c, q))
          BY <1>1, Renaming
        <5>2. QED BY <1>0, <4>1, <5>1
      <4>3. QED BY <1>3, <2>3, <4>1, <4>2
    <3>5. QED BY <3>1, <3>3, <3>4 DEF ChannelOK
  <2>4. QED BY <1>2, <2>1, <2>2, <2>3
<1>19. \A x, y \in N \ {p} : chan'[x][y] = chan[x][y]
  BY <1>2, <1>5
<1>20. ASSUME NEW q \in N PROVE ChannelOK(c, p, q)' /\ ChannelOK(c, q, p)'
  BY <1>17, <1>18
<1>21. QED
  BY <1>1, <1>2, <1>8, <1>10, <1>11, <1>12, <1>14, <1>15, <1>16, <1>19, <1>20, StepOfOne DEF KeptBy

-----------------------------------------------------------------------------
(* Spread.                                                                 *)

\* The parties that one sends the sum to get it from that one.
LEMMA Receivers ==
    ASSUME NEW c \in Config, NEW r \in Nat, NEW x \in Nat,
           First(c, r) <= x, x < (r + 1) * c.bcast
    PROVE  x \div c.bcast = r /\ r < x
<1> DEFINE b == c.bcast
<1>1. b \in Nat /\ b > 1
  BY DEF Config
<1>2. First(c, r) = IF r = 0 THEN 1 ELSE r * b
  BY DEF First
<1>3. x < (r + 1) * b
  OBVIOUS
<1> HIDE DEF b
<1>4. r * b <= x
  BY <1>1, <1>2
<1>5. x \div b = r
  BY <1>1, <1>3, <1>4, DivRange
<1>6. r < x
  <2>1. CASE r = 0
    BY <1>2, <2>1
  <2>2. CASE r > 0
    <3>1. r * b >= r * 2
      BY <1>1
    <3>2. QED BY <1>1, <1>4, <2>2, <3>1
  <2>3. QED BY <2>1, <2>2
<1>7. QED BY <1>5, <1>6 DEF b

\* The sum is sent on, or the opening ends.
LEMMA SpreadKeeps ==
    ASSUME NEW c, Inductive(c), NEW p \in Numbers(c), Spread(p)
    PROVE  Inductive(c)'
<1>0. PICK v, k, q0 : v = value[p] /\ k = next[p] /\ q0 = Ply(c, k)
  OBVIOUS
<1> DEFINE N == Numbers(c)
           r == Rel(c, p)
           Sends == /\ k < (r + 1) * c.bcast /\ k < c.n
                    /\ chan' = [chan EXCEPT ![p][q0] = Append(chan[p][q0], v)]
                    /\ next' = [next EXCEPT ![p] = k + 1]
                    /\ phase' = phase
           Ends == phase' = [phase EXCEPT ![p] = "idle"] /\ next' = next /\ chan' = chan
<1>1. /\ par = c /\ c \in Config /\ TypeInv(c)
      /\ \A q \in N : PlaceOK(c, q) /\ ValuesOK(c, q) /\ Served(c, q)
      /\ \A x, y \in N : Known(c, x, y) /\ ChannelOK(c, x, y)
  BY DEF Inductive
<1>2. /\ phase[p] = "spread"
      /\ par' = par /\ runs' = runs /\ level' = level /\ last' = last /\ value' = value
      /\ vals' = vals
      /\ Sends \/ Ends
  <2>1. Relative(p) = r /\ Player(next[p]) = q0
    BY <1>0, <1>1 DEF Relative, Rel, Player, Ply
  <2>2. QED BY <1>0, <1>1, <2>1 DEF Spread, SendTo
<1>3. /\ \A x \in N : /\ runs[x] \in Nat /\ level[x] \in Nat /\ next[x] \in Nat
                      /\ Rel(c, x) \in Nat /\ Rel(c, x) < c.n
      /\ c.n \in Nat /\ r \in Nat /\ k \in Nat /\ v \in Values(c)
      /\ runs[p] > 0 /\ k >= First(c, r)
  <2>1. runs[p] > 0 /\ k >= First(c, r)
    BY <1>0, <1>1, <1>2 DEF PlaceOK
  <2>2. QED BY <1>0, <1>1, <2>1, Typed
<1>4. \A q \in N : Past(c, q, runs[p])
  BY <1>2, AllPast
<1>5. v = Full(c, runs[p])
  <2>1. v.run = runs[p] /\ \A q \in N : v.count[q] = 1
    BY <1>0, <1>1, <1>2, <1>3 DEF ValuesOK, Counts
  <2>2. v.count = [q \in N |-> 1]
    BY <1>3, <2>1 DEF Values
  <2>3. QED BY <1>3, <2>1, <2>2 DEF Values, Full
<1>6. ASSUME Sends
      PROVE  /\ q0 \in N /\ Rel(c, q0) = k /\ r < k /\ k \div c.bcast = r /\ q0 # p
             /\ runs[q0] = runs[p] /\ phase[q0] \in {"up", "add", "down"}
             /\ chan[p][q0] = <<>> /\ chan'[p][q0] = <<v>>
             /\ \A x, y \in N : x # p \/ y # q0 => chan'[x][y] = chan[x][y]
             /\ chan' \in [N -> [N -> Seq(Values(c))]]
  <2>1. q0 \in N /\ Rel(c, q0) = k
    <3>1. k \in N
      BY <1>3, <1>6 DEF Numbers
    <3>2. QED BY <1>0, <1>1, <3>1, Renaming
  <2>2. k \div c.bcast = r /\ r < k
    BY <1>1, <1>3, <1>6, Receivers
  <2>3. q0 # p
    BY <1>3, <2>1, <2>2
  <2>4. runs[q0] >= runs[p]
    BY <1>3, <1>4, <2>1 DEF Past
  <2>5. Ply(c, Rel(c, q0) \div c.bcast) = p
    BY <1>1, <2>1, <2>2, Renaming
  <2>6. IF phase[q0] \in {"spread", "idle"}
        THEN SentDown(c, p, runs[q0], k)
        ELSE SentDown(c, p, runs[q0] - 1, k)
    <3>1. Rel(c, q0) > 0 /\ Served(c, q0)
      BY <1>1, <1>3, <2>1, <2>2
    <3>2. QED BY <2>1, <2>5, <3>1 DEF Served
  <2>7. phase[q0] \in {"up", "add", "down"} /\ runs[q0] = runs[p]
    <3>1. ~ SentDown(c, p, runs[p], k)
      BY <1>0, <1>2, <1>3 DEF SentDown
    <3>2. phase[q0] \in {"up", "add", "down", "spread", "idle"}
      BY <1>1, <2>1 DEF TypeInv
    <3>3. CASE phase[q0] \in {"spread", "idle"}
      BY <1>0, <1>2, <1>3, <2>1, <2>4, <2>6, <3>3 DEF SentDown
    <3>4. CASE ~ (phase[q0] \in {"spread", "idle"})
      BY <1>0, <1>2, <1>3, <2>1, <2>4, <2>6, <3>2, <3>4 DEF SentDown
    <3>5. QED BY <3>3, <3>4
  <2>8. chan[p][q0] = <<>>
    <3>1. ~ (Rel(c, q0) < Rel(c, p))
      BY <1>3, <2>1, <2>2
    <3>2. ASSUME NEW y, Downward(c, p, q0, y) PROVE FALSE
      BY <1>0, <1>2, <1>3, <2>1, <2>7, <3>2 DEF Downward, SentDown
    <3>3. QED BY <1>1, <2>1, <3>1, <3>2 DEF ChannelOK
  <2>9. chan \in [N -> [N -> Seq(Values(c))]]
    BY <1>1 DEF TypeInv
  <2>10. Append(chan[p][q0], v) = <<v>> /\ <<v>> \in Seq(Values(c))
    BY <1>3, <2>8, OneMessage
  <2>11. chan' = [chan EXCEPT ![p][q0] = <<v>>]
    BY <1>6, <2>10
  <2>12. QED BY <2>1, <2>2, <2>3, <2>7, <2>8, <2>9, <2>10, <2>11
<1>7. /\ runs'[p] = runs[p] /\ level'[p] = level[p] /\ value'[p] = v /\ vals'[p] = vals[p]
      /\ Sends => phase'[p] = "spread" /\ next'[p] = k + 1
      /\ Ends => phase'[p] = "idle"
  BY <1>0, <1>1, <1>2 DEF TypeInv
<1>8. OthersSame(c, p)
  BY <1>1, <1>2 DEF TypeInv, OthersSame
<1>9. TypeInv(c)'
  <2>1. k + 1 \in Nat
    BY <1>3
  <2>2. phase' \in [N -> {"up", "add", "down", "spread", "idle"}] /\ next' \in [N -> Nat]
    BY <1>1, <1>2, <2>1 DEF TypeInv
  <2>3. chan' \in [N -> [N -> Seq(Values(c))]]
    BY <1>1, <1>2, <1>6 DEF TypeInv
  <2>4. QED BY <1>1, <1>2, <2>2, <2>3 DEF TypeInv
<1>10. phase'[p] \in {"spread", "idle"}
  BY <1>2, <1>7
<1>11. Onward(c, p)
  <2>1. ASSUME NEW o \in Int, Past(c, p, o) PROVE Past(c, p, o)'
    BY <1>7, <1>10, <2>1 DEF Past, SentUp
  <2>2. ASSUME NEW o \in Int, NEW x \in Nat, SentDown(c, p, o, x) PROVE SentDown(c, p, o, x)'
    BY <1>0, <1>2, <1>3, <1>7, <2>2 DEF SentDown
  <2>3. QED BY <2>1, <2>2 DEF Onward
<1>12. PlaceOK(c, p)'
  <2>1. First(c, r) \in Nat
    <3>1. c.bcast \in Nat
      BY <1>1 DEF Config
    <3>2. QED BY <1>3, <3>1 DEF First
  <2>2. k + 1 >= First(c, r)
    BY <1>3, <2>1
  <2>3. QED BY <1>2, <1>3, <1>7, <2>2 DEF PlaceOK
<1>13. ValuesOK(c, p)'
  <2>1. /\ Len(vals[p]) = runs[p] /\ value[p].run = runs[p]
        /\ \A o \in 1 .. Len(vals[p]) : vals[p][o] = Full(c, o)
    BY <1>1, <1>2 DEF ValuesOK
  <2>2. \A q \in N : v.count[q] = 1
    BY <1>5 DEF Full
  <2>3. \A q \in N : Counts(c, p, q)'
    BY <1>7, <1>10, <2>2 DEF Counts
  <2>4. ~ Sent(c, p)'
    BY <1>10 DEF Sent
  <2>5. QED BY <1>0, <1>7, <1>10, <2>1, <2>3, <2>4 DEF ValuesOK
<1>14. ASSUME NEW q \in N PROVE Known(c, p, q)'
  <2>1. Past(c, q, runs[p])' /\ (Past(c, q, runs[p] - 1) => Past(c, q, runs[p] - 1)')
    BY <1>1, <1>2, <1>4, <1>8, <1>11, PastKept
  <2>2. Known(c, p, q)
    BY <1>1
  <2>3. QED BY <1>7, <2>1, <2>2 DEF Known
<1>15. Served(c, p)'
  BY <1>1, <1>2, <1>8, <1>10, <1>11, ServedKept
<1>16. ASSUME NEW q \in N, q # p, chan'[p][q] = chan[p][q] PROVE ChannelOK(c, p, q)'
  <2>1. ChannelOK(c, p, q)
    BY <1>1
  <2>2. /\ runs'[q] = runs[q] /\ phase'[q] = phase[q] /\ level'[q] = level[q]
        /\ next'[q] = next[q]
    BY <1>8, <1>16 DEF OthersSame
  <2>3. ASSUME NEW j \in Levels(c), NEW y, Upward(c, p, q, j, y) PROVE Upward(c, p, q, j, y)'
    <3>1. SentUp(c, p)'
      BY <1>10 DEF SentUp
    <3>2. /\ runs[q] <= runs[p]
          /\ runs[q] = runs[p] =>
               /\ phase[q] \in {"up", "add"}
               /\ \/ level[q] >= j
                  \/ phase[q] = "add" /\ level[q] = Cut(c, j) /\ next[q] <= Rel(c, p)
      BY <2>3 DEF Upward
    <3>3. QED BY <1>1, <1>7, <1>8, <1>11, <2>2, <2>3, <3>1, <3>2, UpwardKept
  <2>4. ASSUME NEW y, Downward(c, p, q, y) PROVE Downward(c, p, q, y)'
    <3>1. phase[q] \in {"up", "add", "down"} /\ ~ (runs[p] > runs[q])
      BY <1>2, <2>4 DEF Downward
    <3>2. QED BY <1>1, <1>7, <1>8, <1>11, <2>2, <2>4, <3>1, DownwardKept
  <2>5. QED BY <1>16, <2>1, <2>3, <2>4 DEF ChannelOK
<1>17. ASSUME Sends PROVE ChannelOK(c, p, q0)'
  <2>1. chan'[p][q0] = <<v>> /\ Head(chan'[p][q0]) = v
    BY <1>3, <1>6, <1>17, OneMessage
  <2>2. /\ runs'[q0] = runs[q0] /\ phase'[q0] = phase[q0] /\ q0 \in N
        /\ runs[q0] = runs[p] /\ phase[q0] \in {"up", "add", "down"}
        /\ Rel(c, q0) = k /\ k \div c.bcast = r /\ r < k
    BY <1>6, <1>8, <1>17 DEF OthersSame
  <2>3. SentDown(c, p, runs[q0], k)'
    BY <1>3, <1>7, <1>17, <2>2 DEF SentDown
  <2>4. ASSUME NEW x \in N PROVE Past(c, x, runs[q0])'
    <3>1. Past(c, x, runs[p])'
      BY <1>1, <1>2, <1>4, <1>8, <1>11, PastKept
    <3>2. QED BY <1>7, <2>2, <3>1 DEF Past
  <2>5. Downward(c, p, q0, v)'
    BY <1>3, <1>5, <1>7, <2>2, <2>3, <2>4 DEF Downward
  <2>6. Downward(c, p, q0, Head(chan[p][q0]))'
    BY <2>1, <2>5 DEF Downward
  <2>7. QED BY <2>1, <2>2, <2>6 DEF ChannelOK
<1>18. ASSUME NEW q \in N \ {p} PROVE ChannelOK(c, q, p)'
  <2>1. ChannelOK(c, q, p) /\ chan'[q][p] = chan[q][p]
    BY <1>1, <1>2, <1>6
  <2>2. runs'[q] = runs[q] /\ phase'[q] = phase[q] /\ level'[q] = level[q]
    BY <1>8 DEF OthersSame
  <2>3. ASSUME NEW j \in Levels(c), NEW y, Upward(c, q, p, j, y) PROVE Upward(c, q, p, j, y)'
    <3>1. SentUp(c, q)'
      BY <2>2, <2>3 DEF Upward, SentUp
    <3>2. runs[p] <= runs[q] /\ runs[p] # runs[q]
      BY <1>2, <2>3 DEF Upward
    <3>3. QED BY <1>1, <1>7, <1>8, <1>11, <2>2, <2>3, <3>1, <3>2, UpwardKept
  <2>4. ASSUME NEW y, Downward(c, q, p, y) PROVE FALSE
    BY <1>2, <2>4 DEF Downward
  <2>5. QED BY <2>1, <2>3, <2>4 DEF ChannelOK
<1>19. ChannelOK(c, p, p)'
  <2>1. chan'[p][p] = chan[p][p] /\ ChannelOK(c, p, p)
    BY <1>1, <1>2, <1>6
  <2>2. ~ (Rel(c, p) < Rel(c, p))
    BY <1>3
  <2>3. QED BY <2>1, <2>2 DEF ChannelOK
<1>20. ASSUME NEW q \in N PROVE ChannelOK(c, p, q)' /\ ChannelOK(c, q, p)'
  <2>1. CASE q = p
    BY <1>19, <2>1
  <2>2. CASE q # p
    <3>1. ChannelOK(c, p, q)'
      BY <1>2, <1>6, <1>16, <1>17, <2>2
    <3>2. QED BY <1>18, <2>2, <3>1
  <2>3. QED BY <2>1, <2>2
<1>21. \A x, y \in N \ {p} : chan'[x][y] = chan[x][y]
  BY <1>2, <1>6
<1>22. QED
  BY <1>1, <1>2, <1>8, <1>9, <1>11, <1>12, <1>13, <1>14, <1>15, <1>20, <1>21, StepOfOne DEF KeptBy

-----------------------------------------------------------------------------
(* The theorem.                                                            *)

\* The configuration is one of those the bounds allow.
ParOK ==
    /\ par \in [n : 1 .. MaxN, sum : OpeningSum, bcast : MaxBroadcast, base : Nat,
                large : Large]
    /\ par.base \in Party

IInv == ParOK /\ \E c \in Config : Inductive(c)

\* The invariant holds at the beginning.
LEMMA InitInv == Init => IInv
<1> SUFFICES ASSUME Init PROVE ParOK
  BY InitInductive DEF IInv
<1>1. PICK n \in 1 .. MaxN, s \in OpeningSum, b \in MaxBroadcast :
         par \in [n : {n}, sum : {s}, bcast : {b}, base : 0 .. n - 1, large : Large]
  BY DEF Init
<1>2. par.n = n /\ par.base \in 0 .. n - 1
  BY <1>1
<1>3. 0 .. n - 1 \subseteq Nat
  BY BoundAssumption
<1>4. par \in [n : 1 .. MaxN, sum : OpeningSum, bcast : MaxBroadcast, base : Nat,
               large : Large]
  BY <1>1, <1>3
<1>5. QED BY <1>2, <1>4 DEF ParOK, Party

\* Every step keeps it.
LEMMA StepInv == IInv /\ [Next]_vars => IInv'
<1> SUFFICES ASSUME IInv, [Next]_vars PROVE IInv'
  OBVIOUS
<1>1. PICK c \in Config : Inductive(c)
  BY DEF IInv
<1>2. par = c /\ Party = Numbers(c)
  BY <1>1 DEF Inductive, Party, Numbers
<1>3. par' = par
  BY DEF Next, vars, Begin, Up, AddOpening, Down, Spread
<1>4. ParOK'
  BY <1>3 DEF IInv, ParOK, Party
<1>5. Inductive(c)'
  <2>1. CASE UNCHANGED vars
    BY <1>1, <2>1 DEF vars, Inductive, TypeInv, PlaceOK, ValuesOK, Counts, Sent, SentAt,
                      Served, SentDown, Known, Past, SentUp, ChannelOK, Upward, Downward
  <2>2. CASE \E p \in Party : Begin(p) \/ Up(p) \/ AddOpening(p) \/ Down(p) \/ Spread(p)
    BY <1>1, <1>2, <2>2, BeginKeeps, UpKeeps, AddKeeps, DownKeeps, SpreadKeeps
  <2>3. QED BY <2>1, <2>2 DEF Next
<1>6. QED BY <1>4, <1>5 DEF IInv

\* Every variable has its type.
LEMMA InvType ==
    ASSUME ParOK, NEW c, Inductive(c)
    PROVE  TypeOK
<1>1. /\ par = c /\ c \in Config /\ TypeInv(c) /\ Party = Numbers(c) /\ par.n = c.n
  BY DEF Inductive, Party, Numbers
<1>2. Value = Values(c)
  BY <1>1 DEF Value, Values
<1>3. /\ runs \in [Party -> 0 .. MaxRuns]
      /\ phase \in [Party -> {"up", "add", "down", "spread", "idle"}]
      /\ level \in [Party -> 0 .. par.n] /\ last \in [Party -> 0 .. par.n]
      /\ next \in [Party -> Nat] /\ value \in [Party -> Value]
  BY <1>1, <1>2 DEF TypeInv
<1>4. \A p \in Party : vals[p] \in Seq(Value)
  BY <1>1, <1>2 DEF TypeInv
<1>5. \A p, q \in Party : chan[p][q] \in Seq(Value)
  BY <1>1, <1>2 DEF TypeInv
<1>6. QED BY <1>3, <1>4, <1>5 DEF ParOK, TypeOK

\* Every opening gives the sum of all shares.
LEMMA InvOpened ==
    ASSUME NEW c, Inductive(c)
    PROVE  Opened
<1>1. Party = Numbers(c)
  BY DEF Inductive, Party, Numbers
<1>2. SUFFICES ASSUME NEW p \in Numbers(c)
               PROVE  /\ \A o \in DOMAIN vals[p] : vals[p][o] = Sum(o)
                      /\ phase[p] = "idle" => Len(vals[p]) = runs[p]
  BY <1>1 DEF Opened
<1>3. ValuesOK(c, p) /\ vals[p] \in Seq(Values(c))
  BY DEF Inductive, TypeInv
<1>4. \A o : Full(c, o) = Sum(o)
  BY <1>1 DEF Full, Sum
<1>5. DOMAIN vals[p] = 1 .. Len(vals[p])
  BY <1>3
<1>6. QED BY <1>3, <1>4, <1>5 DEF ValuesOK

\* Nobody receives a value of another opening than its own.
LEMMA InvInStep ==
    ASSUME NEW c, Inductive(c)
    PROVE  InStep
<1>1. par = c /\ Party = Numbers(c) /\ c \in Config /\ TypeInv(c)
  BY DEF Inductive, Party, Numbers
<1>2. SUFFICES ASSUME NEW p \in Numbers(c), NEW q \in Numbers(c),
                      Awaits(p, q), chan[q][p] # <<>>
               PROVE  Head(chan[q][p]).run = runs[p]
  BY <1>1 DEF InStep, There, Received
<1>3. CASE phase[p] = "add" /\ next[p] < last[p] /\ Player(next[p]) = q
  <2>1. q = Ply(c, next[p])
    BY <1>1, <1>3 DEF Player, Ply
  <2>2. runs[q] = runs[p] /\ Upward(c, q, p, last[p], Head(chan[q][p]))
    BY <1>2, <1>3, <2>1, AddedSum
  <2>3. QED BY <2>2 DEF Upward
<1>4. CASE phase[p] = "down" /\ Relative(p) # 0 /\ SenderOf(Relative(p)) = q
  <2>1. Relative(p) = Rel(c, p)
    BY <1>1 DEF Relative, Rel
  <2>2. q = Ply(c, Rel(c, p) \div c.bcast)
    BY <1>1, <1>4, <2>1 DEF SenderOf, Player, Ply
  <2>3. Rel(c, p) \in Nat
    BY <1>1, Typed
  <2>4. Downward(c, q, p, Head(chan[q][p]))
    BY <1>2, <1>4, <2>1, <2>2, <2>3, ServedSum
  <2>5. QED BY <2>4 DEF Downward, Full
<1>5. QED BY <1>2, <1>3, <1>4 DEF Awaits

\* Whoever has a value knows that all have begun its opening.
LEMMA InvBarrier ==
    ASSUME NEW c, Inductive(c)
    PROVE  Barrier
<1>1. par = c /\ Party = Numbers(c) /\ c \in Config /\ TypeInv(c)
  BY DEF Inductive, Party, Numbers
<1>2. SUFFICES ASSUME NEW p \in Numbers(c), NEW q \in Numbers(c)
               PROVE  Len(vals[p]) <= runs[q]
  BY <1>1 DEF Barrier
<1>3. runs[p] \in Nat /\ runs[q] \in Nat
  BY <1>1, Typed
<1>4. Len(vals[p]) = IF phase[p] \in {"spread", "idle"} THEN runs[p] ELSE runs[p] - 1
  BY DEF Inductive, ValuesOK
<1>5. CASE phase[p] \in {"spread", "idle"}
  <2>1. Past(c, q, runs[p])
    BY <1>5, AllPast
  <2>2. QED BY <1>3, <1>4, <1>5, <2>1 DEF Past
<1>6. CASE ~ (phase[p] \in {"spread", "idle"})
  <2>1. runs[p] > 0
    BY <1>6 DEF Inductive, PlaceOK
  <2>2. Past(c, q, runs[p] - 1)
    BY <2>1 DEF Inductive, Known
  <2>3. QED BY <1>3, <1>4, <1>6, <2>2 DEF Past
<1>7. QED BY <1>5, <1>6

\* Every party opens the sum with every share in it exactly once, opening after
\* opening, although nobody waits for all others in between: for any number of
\* parties, fan-in, fan-out and base player (TreeSum::run, add_openings, start).
THEOREM OpenedTogether == Spec => []OpenedInStep
<1>1. IInv => OpenedInStep
  BY InvType, InvOpened, InvInStep, InvBarrier DEF IInv, OpenedInStep
<1>2. QED BY InitInv, StepInv, <1>1, PTL DEF Spec

=============================================================================
