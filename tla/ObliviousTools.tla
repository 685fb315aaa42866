--------------------------- MODULE ObliviousTools ---------------------------
(***************************************************************************)
(* What the compiler's oblivious data structures are made of: Waksman      *)
(* permutation networks and odd-even merge sort (Compiler/permutation.py), *)
(* the unit vectors, searches and packed entries of the ORAMs              *)
(* (Compiler/oram.py), the placement step of Path ORAM's eviction          *)
(* (path_oram.py) and the comparisons of Circuit ORAM (circuit_oram.py).   *)
(* A secret is its value; a list is a sequence of rows, and None, the      *)
(* padding, is the empty row.  Positions count from 0 as in the code, so   *)
(* networks work on functions from 0..n-1.  A job is one call.             *)
(***************************************************************************)
EXTENDS BitCircuits, FiniteSets, FiniteSetsExt, Computation

CONSTANTS ValueBits,    \* get_value_size: bits in one storage element
          MaxDemuxBits  \* max_demux_bits

None == <<>>
Log2(n) == CeilLog(n)
Even(a) == [i \in 0..(Cardinality(DOMAIN a) \div 2 - 1) |-> a[2 * i]]
Odd(a) == [i \in 0..(Cardinality(DOMAIN a) \div 2 - 1) |-> a[2 * i + 1]]
Size(a) == Cardinality(DOMAIN a)
Join(a, b) == [i \in 0..(Size(a) + Size(b) - 1) |-> IF i < Size(a) THEN a[i] ELSE b[i - Size(a)]]
ZeroBased(s) == [i \in 0..(Len(s) - 1) |-> s[i + 1]]

(***************************************************************************)
(* Waksman networks.  configure_waksman walks the cycles of pairs that     *)
(* share an input or an output switch, sending one element of each pair    *)
(* through the upper half and the other through the lower one.             *)
(***************************************************************************)
Flip(i) == IF i % 2 = 1 THEN i - 1 ELSE i + 1
Set(f, i, v) == [f EXCEPT ![i] = v]
NoBits(h) == [i \in 0..(h - 1) |-> -1]

\* Mutant: the output switch is set like the input switch.
WalkInputBit(perm, inv, s, j) ==
    LET i == inv[j]
    IN  [s EXCEPT !.p0[i \div 2] = j \div 2, !.I[i \div 2] = i % 2, !.O[j \div 2] = i % 2,
                  !.p1[Flip(i) \div 2] = perm[Flip(i)] \div 2]

\* One turn of the inner loop.
Walk(perm, inv, s, j) ==
    LET i == inv[j]
    IN  [s EXCEPT !.p0[i \div 2] = j \div 2, !.I[i \div 2] = i % 2, !.O[j \div 2] = j % 2,
                  !.p1[Flip(i) \div 2] = perm[Flip(i)] \div 2]

ConfigureWaksman(permutation) ==
    LET RECURSIVE Configure(_), Cycle(_, _, _, _, _), Cycles(_, _, _)
        Cycle(perm, inv, s, j, j0) ==
            LET t == Walk(perm, inv, s, j)
                next == Flip(perm[Flip(inv[j])])
            IN  IF next = j0 THEN t ELSE Cycle(perm, inv, t, next, j0)
        Cycles(perm, inv, s) ==
            LET open == {k \in DOMAIN s.O : s.O[k] = -1}
                j == 2 * Min(open)
            IN  IF open = {} THEN s ELSE Cycles(perm, inv, Cycle(perm, inv, s, j, j))
        Configure(perm) ==
            LET n == Size(perm)
                inv == [p \in 0..(n - 1) |-> CHOOSE i \in 0..(n - 1) : perm[i] = p]
                start == [I |-> NoBits(n \div 2), O |-> NoBits(n \div 2),
                          p0 |-> NoBits(n \div 2), p1 |-> NoBits(n \div 2)]
                s == Cycles(perm, inv, start)
                c0 == Configure(s.p0)
                c1 == Configure(s.p1)
            IN  IF n = 2 THEN <<[i \in 0..1 |-> perm[0]]>>
                ELSE <<Join(s.I, s.O)>> \o [d \in DOMAIN c0 |-> Join(c0[d], c1[d])]
    IN  Configure(permutation)

CondSwapBit(x, y, b) == IF x = None THEN <<y, None>> ELSE IF y = None THEN <<x, None>>
                        ELSE IF b = 1 THEN <<y, x>> ELSE <<x, y>>

\* The recursive network: config[depth] holds the input and then the output
\* switches of every sub-network of that depth.
Waksman(list, config, reverse) ==
    LET RECURSIVE Net(_, _, _)
        Net(a, depth, start) ==
            LET n == Size(a)
                h == n \div 2
                into(i) == config[depth][i + start + IF reverse THEN h ELSE 0]
                outof(i) == config[depth][i + start + IF reverse THEN 0 ELSE h]
                split == [i \in 0..(h - 1) |-> CondSwapBit(a[2 * i], a[2 * i + 1], into(i))]
                a0 == Net([i \in 0..(h - 1) |-> split[i][1]], depth + 1, start)
                a1 == Net([i \in 0..(h - 1) |-> split[i][2]], depth + 1, start + h)
                last == CondSwapBit(a[0], a[1], config[depth][start])
            IN  IF n = 2 THEN [i \in 0..1 |-> last[i + 1]]
                ELSE [q \in 0..(n - 1) |->
                        CondSwapBit(a0[q \div 2], a1[q \div 2], outof(q \div 2))[(q % 2) + 1]]
    IN  Net(list, 1, 0)

\* The loop version: log n rounds inwards, then log n - 1 outwards, on
\* blocks of size switches.
Round(a, row, size, inwards, reverse) ==
    LET n == Size(a)
        outwards == 1 - inwards
        moves == {LET j == k % size
                      base == 2 * (k - j)
                      c == row[base + j + IF reverse = (inwards = 1) THEN size ELSE 0]
                      in1 == base + j + j * inwards
                      in2 == in1 + inwards + size * outwards
                      out1 == base + j + j * outwards
                      out2 == out1 + outwards + size * inwards
                      moved == CondSwapBit(a[in1], a[in2], c)
                  IN  <<out1, moved[1], out2, moved[2]>> : k \in 0..(n \div 2 - 1)}
    IN  [q \in 0..(n - 1) |->
            LET m == CHOOSE m \in moves : q \in {m[1], m[3]}
            IN  IF m[1] = q THEN m[2] ELSE m[4]]

IterWaksman(list, config, reverse) ==
    LET logn == Log2(Size(list))
        size(d) == Size(list) \div 2^d
        inward == FoldLeftDomain(LAMBDA a, d : Round(a, config[d], size(d), 1, reverse),
                                 list, [d \in 1..logn |-> d])
    IN  FoldLeftDomain(LAMBDA a, i : Round(a, config[logn - i], size(logn - i), 0, reverse),
                       inward, [i \in 1..(logn - 1) |-> i])

\* config_shuffle pads the permutation with fixed points; shuffle and
\* rec_shuffle run the network twice.
Padded(perm) == LET m == 2^Log2(Size(perm))
                IN  [i \in 0..(m - 1) |-> IF i \in DOMAIN perm THEN perm[i] ELSE i]
Shuffle(list, config, reverse) == IterWaksman(IterWaksman(list, config, reverse), config, reverse)
RecShuffle(list, config, reverse) == Waksman(Waksman(list, config, reverse), config, reverse)

\* sort_zeroes: after a shuffle, the elements whose revealed bit is 0 are
\* kept; each step writes the next place, found or not.
KeepZeroes(b, y, count) ==
    LET step(s, k) == LET found == b[k - 1][1] = 0
                          written == IF found THEN y[k - 1] ELSE s.last
                      IN  [result |-> Set(s.result, s.sz, written),
                           sz |-> s.sz + Truth(found), last |-> written]
        end == FoldLeftDomain(step, [result |-> [i \in 0..Size(y) |-> None], sz |-> 0, last |-> None],
                              [k \in 1..Size(y) |-> k])
    IN  [i \in 0..(count - 1) |-> end.result[i]]
SortZeroesBy(config, bits, x, count) ==
    KeepZeroes(Shuffle([i \in DOMAIN bits |-> <<bits[i]>>], config, FALSE),
               Shuffle(x, config, FALSE), count)
SortZeroes(bits, x, count, perm) == SortZeroesBy(ConfigureWaksman(perm), bits, x, count)

(***************************************************************************)
(* Odd-even merge sort.  None goes to the end whatever the comparator.     *)
(***************************************************************************)
BitwiseListComparator(x, y) == (1 - x[1]) * y[1]
\* Rows are <<empty, level, stash, id>>: first what goes to buckets, then
\* the empty entries, last what goes to the stash.
EvictComparator(x, y) == x[1] * (x[3] - 1 + y[3]) + 1 - x[3]
Compared(comp, x, y) == IF comp = "evict" THEN EvictComparator(x, y) ELSE BitwiseListComparator(x, y)

CondSwap(x, y, comp) == CondSwapBit(x, y, IF x = None \/ y = None THEN 0 ELSE 1 - Compared(comp, x, y))

MergePairs(even, odd, comp) ==
    LET h == Size(even) IN
    [q \in 0..(2 * h - 1) |->
        IF q = 0 THEN even[0] ELSE IF q = 2 * h - 1 THEN odd[h - 1]
        ELSE LET i == (q + 1) \div 2 IN CondSwap(odd[i - 1], even[i], comp)[1 + ((q + 1) % 2)]]

OddEvenMerge(list, comp) ==
    LET RECURSIVE M(_)
        M(a) == LET pair == CondSwap(a[0], a[1], comp)
                IN  IF Size(a) = 1 THEN a ELSE IF Size(a) = 2 THEN [i \in 0..1 |-> pair[i + 1]]
                    ELSE MergePairs(M(Even(a)), M(Odd(a)), comp)
    IN  M(list)

OddEvenMergeSort(list, comp) ==
    LET RECURSIVE S(_)
        S(a) == LET h == Size(a) \div 2
                IN  IF Size(a) = 1 THEN a
                    ELSE OddEvenMerge(Join(S([i \in 0..(h - 1) |-> a[i]]),
                                           S([i \in 0..(h - 1) |-> a[i + h]])), comp)
    IN  S(list)

Pad(a, n) == [i \in 0..(n - 1) |-> IF i \in DOMAIN a THEN a[i] ELSE None]
Prefix(a, n) == [i \in 0..(n - 1) |-> a[i]]
SortList(a, comp) == Prefix(OddEvenMergeSort(Pad(a, 2^Log2(Size(a))), comp), Size(a))

\* merge: the shorter first list is padded to the length of the second.
MergeLists(a, b, comp) ==
    LET n == 2^Log2(Size(b))
    IN  Prefix(OddEvenMerge(Join(Pad(a, n), Pad(b, n)), comp), Size(a) + Size(b))

RecursiveMerge(lists, comp) ==
    LET RECURSIVE Rec(_)
        Rec(ls) ==
            LET t == MergeLists(ls[1], ls[2], comp)
                rest == SubSeq(ls, 3, Len(ls))
                at == Cardinality({i \in DOMAIN rest : \A k \in 1..i : Size(rest[k]) < Size(t)})
            IN  IF Len(ls) = 1 THEN ls[1] ELSE Rec(Take(rest, at) \o <<t>> \o Drop(rest, at))
    IN  Rec(lists)

(***************************************************************************)
(* Path ORAM: shuffle_evict.  Every entry of the path and the stash comes  *)
(* with the bits of the level its path parts from the evicted one; levels  *)
(* are 0..D, and D + 1 is the stash.  bucket_size Z is 2, 3 or 4.          *)
(***************************************************************************)
\* Size bits after n entries, and adding one (adjust_lca).
AddSize(z, s) == IF z = 4 THEN <<BitXor(s[1], 1), BitXor(s[2], s[1]), s[3] + s[1] * s[2]>>
                 ELSE <<BitXor(s[1], 1), s[2] + s[1]>>
IsFull(z, s) == (IF z = 4 THEN s[3] ELSE s[2]) = 1
\* The slots of a bucket that its size bits say are empty.
EmptySlots(z, s) ==
    LET c == s[1] * s[2]
        used == CASE z = 4 -> <<s[1] + s[2] - c + s[3], s[2] + s[3], c + s[3], s[3]>>
                  [] z = 3 -> <<s[1] + s[2] - c, s[2], c>>
                  [] OTHER -> <<s[1] + s[2], s[2]>>
    IN  [i \in 1..z |-> 1 - used[i]]

\* adjust_lca for all entries in order: the level each is assigned to.
AssignLevels(z, d, commons) ==
    LET step(s, k) ==
            LET room == {l \in 0..commons[k] : ~IsFull(z, s.size[l])}
                level == IF commons[k] < 0 THEN 0 ELSE IF room = {} THEN d + 1 ELSE Max(room)
            IN  [size |-> IF commons[k] < 0 \/ room = {} THEN s.size
                          ELSE [s.size EXCEPT ![level] = AddSize(z, @)],
                 level |-> Append(s.level, level)]
    IN  FoldLeftDomain(step, [size |-> [l \in 0..d |-> IF z = 4 THEN <<0, 0, 0>> ELSE <<0, 0>>],
                              level |-> <<>>], commons)


\* Entry e of the merged rows goes to the free slot across from it, if it
\* is empty.
Levels(d, merged, slots) ==
    [i \in DOMAIN merged |->
        LET e == merged[i]
        IN  [id |-> e[4],
             level |-> IF i \in DOMAIN slots THEN (slots[i][2] - e[2]) * e[1] + e[2]
                       ELSE e[2] + (d + 1) * e[1]]]
EvictRows(d, commons, level) ==
    ZeroBased([k \in DOMAIN commons |->
                  <<Truth(commons[k] < 0), level[k], Truth(level[k] = d + 1 /\ commons[k] >= 0), k>>])
FreeSlots(z, d, size) ==
    ZeroBased(FlattenSeq([l \in 1..(d + 1) |->
        LET free == EmptySlots(z, size[l - 1]) IN [i \in 1..z |-> <<free[i], l - 1>>]]))
LevelsOf(z, d, commons, assigned) ==
    Levels(d, SortList(EvictRows(d, commons, assigned.level), "evict"),
           SortList(FreeSlots(z, d, assigned.size), "bits"))

\* The levels of all rows once the empty ones have been spread over the
\* free slots: what is revealed and says where each goes.
ShuffleEvictLevels(z, d, stash, commons) == LevelsOf(z, d, commons, AssignLevels(z, d, commons))

(***************************************************************************)
(* Circuit ORAM: the deepest entry of a bucket.  a and b are               *)
(* [bits, empty] with the bits of a leaf, most significant one first; the  *)
(* arithmetic is that of GF(2^n), so bits are added modulo 2.              *)
(***************************************************************************)
X2(a, b) == (a + b) % 2
If2(c, a, b) == IF c = 1 THEN a ELSE b

\* Where the leaf of an entry parts from the path, from start on.
Parting(x, path, start) == [i \in 1..(Len(path) - start) |-> X2(x.bits[i + start], path[i + start])]
Winner(ad, preor, first) == FoldLeftDomain(LAMBDA v, i : X2(v, ad[i] * X2(preor[i], preor[i + 1])), first, ad)
FirstBit(bits) == [i \in DOMAIN bits |-> X2(bits[i], IF i = 1 THEN 0 ELSE bits[i - 1])]
DeeperLevel(level, start, winner) ==
    [level |-> Zeros(start) \o level \o <<1 - FoldLeft(LAMBDA v, x : v + x, 0, level)>>,
     winner |-> winner]
DeeperOf(ad, bd, start, winner) ==
    DeeperLevel(FirstBit(PreOpL("or", [i \in DOMAIN ad |-> If2(winner, bd[i], ad[i])])), start, winner)

DeeperParting(a, b, ad, bd, start) ==
    DeeperOf(ad, bd, start,
             Winner(ad, PreOpL("or", <<OrOp(a.empty, b.empty, FALSE)>> \o [i \in DOMAIN ad |-> X2(ad[i], bd[i])]),
                    a.empty))
FindDeeper(a, b, path, start) ==
    DeeperParting(a, b, Parting(a, path, start), Parting(b, path, start), start)

\* The index of the winner is a unit number: bit i stands for entry i.
TheDeeper(a, b, l, d) ==
    [level |-> d.level, entry |-> If2(d.winner, b.entry, a.entry),
     index |-> If2(d.winner, b.index * 2^l, a.index)]
FindDeepest(entries, path, start) ==
    LET RECURSIVE F(_)
        Best(a, b, l) == TheDeeper(a, b, l, FindDeeper(a.entry, b.entry, path, start))
        F(s) ==
            LET l == Len(s) \div 2
            IN  IF Len(s) = 1 THEN [level |-> None, entry |-> s[1], index |-> 1]
                ELSE Best(F(Take(s, l)), F(Drop(s, l)), l)
    IN  F(entries)

\* Comparison of numbers by bits, as <<greater, smaller>>.
CompStep(high, low) ==
    LET prod == high[1] * high[2]
        greater == high[1] - prod
        smaller == high[2] - prod
        deferred == 1 - greater - smaller
    IN  <<greater + deferred * low[1], smaller + deferred * low[2]>>
CompBinary(a, b) ==
    LET RECURSIVE C(_, _)
        C(x, y) == LET l == Len(x) \div 2
                   IN  IF Len(x) = 1 THEN <<x[1], y[1]>>
                       ELSE CompStep(C(Drop(x, l), Drop(y, l)), C(Take(x, l), Take(y, l)))
    IN  C(a, b)
UnaryToBinary(l) == Bits(FoldLeftDomain(LAMBDA v, i : v + i * l[i], 0, l), Log2(Len(l) + 1))

(***************************************************************************)
(* Unit vectors and searches.                                              *)
(***************************************************************************)
Demux(bits) ==
    LET RECURSIVE X(_)
        X(x) == LET n == Len(x)
                    a == X(Take(x, n \div 2))
                    b == X(Drop(x, n \div 2))
                IN  IF n = 0 THEN <<1>> ELSE IF n = 1 THEN <<1 - x[1], x[1]>>
                    ELSE [q \in 1..(Len(a) * Len(b)) |->
                            a[((q - 1) % Len(a)) + 1] * b[((q - 1) \div Len(a)) + 1]]
    IN  X(bits)

\* get_first_one, find_first_empty
FirstOne(x) == LET p == <<0>> \o PreOpL("or", x) IN [i \in DOMAIN x |-> p[i + 1] - p[i]]

\* binary_search: products of differences up a tree, then down to the zero.
BinarySearch(indices, index) ==
    LET size == Len(indices)
        n == 2^Log2(size)
        logn == Log2(n)
        tree == LET RECURSIVE T(_)
                    T(t) == IF t >= n - 1 THEN IF t - n + 1 < size THEN indices[t - n + 2] - index ELSE 1
                            ELSE T(2 * t + 1) * T(2 * t + 2)
                IN  [t \in 0..(2 * n - 2) |-> T(t)]
        level(prods, j) ==
            LET first == 2^j - 1
                m == FoldLeftDomain(LAMBDA v, k : v + prods[(first + 2 * k - 3) \div 2] * tree[first + 2 * k - 2],
                                    0, [k \in 1..2^(j - 1) |-> k])
                b == Truth(m # 0)
            IN  [t \in 0..(2^(j + 1) - 2) |->
                    IF t < first THEN prods[t]
                    ELSE LET above == prods[(t - 1) \div 2]
                         IN  IF (t - first) % 2 = 0 THEN above - above * b ELSE above * b]
        found == FoldLeftDomain(level, [t \in 0..0 |-> Truth(tree[0] = 0)], [j \in 1..logn |-> j])
    IN  [found |-> [i \in 1..size |-> found[n - 2 + i]], not_found |-> 1 - found[0]]

(***************************************************************************)
(* Packed entries (PackedIndexStructure).  Several entries of entry_size   *)
(* bits (a tuple, summed up) share an element of storage and several       *)
(* elements a block, or an entry takes several elements.                   *)
(***************************************************************************)
Sum(s) == FoldLeft(LAMBDA v, x : v + x, 0, s)
Min2(a, b) == IF a < b THEN a ELSE b
Max2(a, b) == IF a > b THEN a ELSE b
FloorLog(n, d) == CHOOSE e \in -8..16 :   \* of n / d
    IF e >= 0 THEN 2^e * d <= n /\ n < 2^(e + 1) * d ELSE d <= n * 2^(-e) /\ n * 2^(-e - 1) < d

SplitSizes(sizes) ==
    FoldLeft(LAMBDA acc, s : IF Sum(Last(acc)) + s > ValueBits THEN Append(acc, <<s>>)
                             ELSE [acc EXCEPT ![Len(acc)] = Append(@, s)],
             <<<<>>>>, sizes)

PackedLayout(size, sizes) ==
    LET fit == Min2(Log2(size), FloorLog(ValueBits, Sum(sizes)))
        split == SplitSizes(sizes)
        elements == IF fit < 0 THEN Log2(Len(split))
                    ELSE Max2(0, Min2(MaxDemuxBits, Log2(size) - fit))
    IN  [size |-> size, sizes |-> sizes, split |-> split, multi |-> fit < 0,
         log_entries_per_element |-> IF fit < 0 THEN -elements ELSE fit,
         log_elements_per_block |-> elements,
         log_entries_per_block |-> IF fit < 0 THEN 0 ELSE fit + elements]
EntriesPerBlock(p) == 2^p.log_entries_per_block
BlockCount(p) == ((p.size - 1) \div EntriesPerBlock(p)) + 1

\* <<address of the block, element, position in the element>>
TranslateIndex(p, index) ==
    LET rem == index % EntriesPerBlock(p)
        c == rem % 2^p.log_entries_per_element
    IN  <<IF BlockCount(p) = 1 THEN 0 ELSE (index - rem) \div EntriesPerBlock(p),
          (rem - c) \div 2^p.log_entries_per_element, c>>

Starts(sizes) == [i \in DOMAIN sizes |-> Sum(Take(sizes, i - 1))]
Compose(values, sizes) == FoldLeftDomain(LAMBDA v, i : v + values[i] * 2^Starts(sizes)[i], 0, sizes)
Slices(x, sizes) == [i \in DOMAIN sizes |-> (x \div 2^Starts(sizes)[i]) % 2^sizes[i]]

\* intBlock: the element is cut below, at and above the entry.  get_slice
\* takes an entry of several parts off part by part.
IntBlock(value, start, sizes, entries) ==
    LET length == Sum(sizes)
        shift == 2^(start * length)
        lower == value % shift
        trunc == (value - lower) \div shift
        slice == trunc % 2^length
    IN  [kind |-> "int", lower |-> lower, slice |-> slice, upper |-> (trunc - slice) * shift,
         adjust |-> shift, sizes |-> sizes]
IntSlice(blk) ==
    LET step(s, i) == LET part == s.rest % 2^blk.sizes[i]
                      IN  [parts |-> Append(s.parts, part), rest |-> (s.rest - part) \div 2^blk.sizes[i]]
        most == FoldLeftDomain(step, [parts |-> <<>>, rest |-> blk.slice],
                               Take(blk.sizes, Len(blk.sizes) - 1))
    IN  Append(most.parts, most.rest)

\* gf2nBlock: the same on bits.  With two entries in the element the start
\* bit moves the bits; with more, the power of the start divides them out.
Gf2nBlock(value, start, sizes, entries) ==
    LET length == Sum(sizes)
        bits == Bits(value, entries * length)
        prod == [i \in DOMAIN bits |-> start * bits[i]]
        anti == [i \in DOMAIN bits |-> bits[i] - prod[i]]
        choice == Demux(Bits(start, Log2(entries)))
        below == PreOpL("or", choice)
        lower_bits == [i \in DOMAIN bits |-> bits[i] * (1 - below[((i - 1) \div length) + 1])]
        adjust == FoldLeftDomain(LAMBDA v, i : v + choice[i] * 2^((i - 1) * length), 0, choice)
    IN  CASE entries = 2 ->
               [kind |-> "gf2n", lower |-> BitCompose(Take(prod, length)), sizes |-> sizes,
                bits |-> [i \in 1..length |-> anti[i] + prod[i + length]] \o Drop(anti, length),
                adjust |-> IF start = 1 THEN 2^length ELSE 1]
          [] entries < 4 ->
               [kind |-> "gf2n", lower |-> BitCompose(lower_bits), sizes |-> sizes,
                bits |-> [i \in 1..length |-> FoldLeftDomain(LAMBDA v, k :
                            v + choice[k] * bits[(k - 1) * length + i], 0, choice)],
                adjust |-> adjust]
          [] OTHER ->
               [kind |-> "gf2n", lower |-> BitCompose(lower_bits), sizes |-> sizes,
                bits |-> Bits((value - BitCompose(lower_bits)) \div adjust, entries * length),
                adjust |-> adjust]
GetSlice(blk) == IF blk.kind = "int" THEN IntSlice(blk)
                 ELSE Slices(BitCompose(Take(blk.bits, Sum(blk.sizes))), blk.sizes)
SetSlice(blk, values) ==
    LET v == Compose(values, blk.sizes)
        length == Sum(blk.sizes)
    IN  IF blk.kind = "int" THEN blk.upper + blk.lower + v * blk.adjust
        ELSE blk.lower + v * blk.adjust + BitCompose(Drop(blk.bits, length)) * blk.adjust * 2^length

GetBlock(type, value, start, sizes, entries) ==
    IF type = "sint" THEN IntBlock(value, start, sizes, entries)
    ELSE Gf2nBlock(value, start, sizes, entries)

\* Slicer: the element is chosen by a unit vector, the entry by its place.
SlicerRead(type, p, block, index) ==
    LET t == TranslateIndex(p, index)
        unit == Demux(Bits(t[2], p.log_elements_per_block))
        chosen == FoldLeftDomain(LAMBDA v, i : v + unit[i] * block[i], 0, block)
    IN  [unit |-> unit, element |-> GetBlock(type, chosen, t[3], p.sizes, 2^p.log_entries_per_element)]
SlicerWrite(block, read, values) ==
    [i \in DOMAIN block |-> block[i] - read.unit[i] * block[i]
                            + SetSlice(read.element, values) * read.unit[i]]

\* MultiSlicer: the parts of an entry from the top of each element down.
MultiRead(p, block) ==
    FlattenSeq([e \in DOMAIN p.split |-> Reverse(Slices(block[e], Reverse(p.split[e])))])
MultiWrite(p, values) ==
    LET offset(e) == Sum([k \in 1..(e - 1) |-> Len(p.split[k])])
    IN  [e \in DOMAIN p.split |->
            FoldLeftDomain(LAMBDA v, i : v * 2^p.split[e][i] + values[offset(e) + i], 0, p.split[e])]

\* access: the entry read, and the storage after the write.
Replaced(p, storage, a, read, old, new) ==
    [value |-> old,
     storage |-> [storage EXCEPT ![a] = IF p.multi THEN MultiWrite(p, new) ELSE SlicerWrite(@, read, new)]]
AccessRead(p, storage, a, read, old, values, write) ==
    Replaced(p, storage, a, read, old, IF write THEN values ELSE old)
AccessBlock(p, storage, a, read, values, write) ==
    AccessRead(p, storage, a, read,
               IF p.multi THEN MultiRead(p, storage[a]) ELSE GetSlice(read.element), values, write)
AccessAt(type, p, storage, a, index, values, write) ==
    AccessBlock(p, storage, a, SlicerRead(type, p, storage[a], index), values, write)
PackedAccess(type, p, storage, index, values, write) ==
    AccessAt(type, p, storage, IF p.multi THEN index ELSE TranslateIndex(p, index)[1], index, values, write)

(***************************************************************************)
(* Jobs.                                                                   *)
(***************************************************************************)
PermutationsOf(n) == {f \in [0..(n - 1) -> 0..(n - 1)] : \A i, j \in 0..(n - 1) : f[i] = f[j] => i = j}
\* Of eight elements: affine ones, with two images exchanged.
Perms8 == {[i \in 0..7 |-> LET q == (a * i + b) % 8 IN IF q = 0 THEN k ELSE IF q = k THEN 0 ELSE q] :
             a \in {1, 3, 5, 7}, b \in {0, 1, 6}, k \in {0, 3, 6, 7}}
Perms == PermutationsOf(2) \cup PermutationsOf(3) \cup PermutationsOf(4) \cup Perms8

Rows(keys) == ZeroBased([i \in DOMAIN keys |-> <<keys[i], i>>])
SortedKeys(n) == {[i \in 1..n |-> Truth(i > k)] : k \in 0..n}
RowsFrom(keys, first) == ZeroBased([i \in DOMAIN keys |-> <<keys[i], i + first>>])

PackedLayouts == {PackedLayout(size, sizes) : size \in {2, 4, 16}, sizes \in {<<1>>, <<2>>, <<1, 1>>, <<2, 1>>, <<3, 2>>, <<2, 2, 3>>}}
Extremes(p) == {[i \in DOMAIN p.sizes |-> 0], [i \in DOMAIN p.sizes |-> 2^p.sizes[i] - 1],
                [i \in DOMAIN p.sizes |-> IF i = 1 THEN 1 ELSE 0]}
EmptyStorage(p) == [a \in 0..(BlockCount(p) - 1) |->
                      IF p.multi THEN [e \in DOMAIN p.split |-> 0] ELSE Zeros(2^p.log_elements_per_block)]

LeafBits == [1..3 -> {0, 1}]
SomePaths == {<<0, 0, 0>>, <<1, 0, 1>>}
SlotEntries(path, start) == {[bits |-> b, empty |-> e] : e \in {0, 1},
                               b \in {x \in LeafBits : \A i \in 1..start : x[i] = path[i]}}

\* Entries in rising or falling order of the level they may go to.
Counts(n, d) == {c \in [-1..d -> 0..n] : FoldFunction(LAMBDA x, y : x + y, 0, c) = n}
Rising(n, c) == [k \in 1..n |-> Min({l \in DOMAIN c : k <= FoldSet(LAMBDA i, v : v + c[i], 0, {i \in DOMAIN c : i <= l})})]
Monotone(n, d) == UNION {{Rising(n, c), Reverse(Rising(n, c))} : c \in Counts(n, d)}

ToolCalls == [alg : {"permute"}, perm : Perms, reverse : BOOLEAN]
   \cup [alg : {"zeroes"}, bits : [0..3 -> {0, 1}], perm : PermutationsOf(4)]
   \cup UNION {[alg : {"sort"}, keys : [1..n -> {0, 1}]] : n \in 1..7}
   \cup UNION {[alg : {"merge"}, lists : SortedKeys(n[1]) \X SortedKeys(n[2]) \X SortedKeys(n[3])] :
                n \in {<<1, 1, 1>>, <<1, 2, 3>>, <<2, 2, 4>>, <<1, 3, 4>>}}
   \cup UNION {[alg : {"evict"}, z : {c[1]}, d : {c[2]}, stash : {c[3]},
                 commons : [1..(c[1] * (c[2] + 1) + c[3]) -> -1..c[2]]] :
                c \in {<<2, 0, 2>>, <<3, 0, 2>>, <<4, 0, 2>>, <<2, 1, 2>>}}
   \cup UNION {[alg : {"evict"}, z : {c[1]}, d : {c[2]}, stash : {c[3]},
                 commons : Monotone(c[1] * (c[2] + 1) + c[3], c[2])] :
                c \in {<<3, 1, 2>>, <<4, 1, 2>>, <<4, 2, 4>>}}
   \cup UNION {UNION {[alg : {"deepest"}, path : {path}, start : {start},
                        entries : [1..n -> SlotEntries(path, start)]] :
                       path \in SomePaths, n \in 2..(2 + start)} : start \in {0, 1}}
   \cup [alg : {"compare"}, a : LeafBits, b : LeafBits]
   \cup UNION {[alg : {"demux"}, bits : [1..n -> {0, 1}]] : n \in 0..4}
   \cup UNION {[alg : {"search"}, indices : PermutationsOf(n), index : 0..n] : n \in 2..5}
   \cup UNION {[alg : {"packed"}, type : {"sint", "sgf2n"}, layout : {p},
                 i : 0..(p.size - 1), j : 0..(p.size - 1), v : Extremes(p), w : Extremes(p)] : p \in PackedLayouts}

AfterWrites(q, second) ==
    [old |-> second.value,
     all |-> [k \in 0..(q.layout.size - 1) |->
                PackedAccess(q.type, q.layout, second.storage, k, q.v, FALSE).value]]

NetworkResult(q) ==
    CASE q.alg = "permute" ->
           LET config == ConfigureWaksman(Padded(q.perm))
               list == [i \in 0..(2^Log2(Size(q.perm)) - 1) |-> <<i>>]
           IN  [recursive |-> Waksman(list, config, q.reverse),
                iterative |-> IterWaksman(list, config, q.reverse),
                back |-> RecShuffle(Shuffle(list, config, q.reverse), config, ~q.reverse)]
      [] q.alg = "zeroes" ->
           SortZeroes(q.bits, [i \in 0..3 |-> <<i>>], Cardinality({i \in 0..3 : q.bits[i] = 0}), q.perm)

OrderResult(q) ==
    CASE q.alg = "sort" -> SortList(Rows(q.keys), "bits")
      [] q.alg = "merge" ->
           RecursiveMerge([k \in 1..3 |-> RowsFrom(q.lists[k], 10 * k)], "bits")
      [] q.alg = "evict" -> ShuffleEvictLevels(q.z, q.d, q.stash, q.commons)

SearchResult(q) ==
    CASE q.alg = "deepest" -> FindDeepest(q.entries, q.path, q.start)
      [] q.alg = "compare" -> CompBinary(q.a, q.b)
      [] q.alg = "demux" -> [unit |-> Demux(q.bits), first |-> IF q.bits = <<>> THEN <<>> ELSE FirstOne(q.bits)]
      [] q.alg = "search" -> BinarySearch([k \in 1..Size(q.indices) |-> q.indices[k - 1]], q.index)

PackedResult(q) ==
    AfterWrites(q, PackedAccess(q.type, q.layout,
                     PackedAccess(q.type, q.layout, EmptyStorage(q.layout), q.i, q.v, TRUE).storage,
                     q.j, q.w, TRUE))

ToolsInit == Called("tools", ToolCalls)
RunNetwork == Computing("tools") /\ job.alg \in {"permute", "zeroes"} /\ Gives(NetworkResult(job))
Order == Computing("tools") /\ job.alg \in {"sort", "merge", "evict"} /\ Gives(OrderResult(job))
Search == Computing("tools") /\ job.alg \in {"deepest", "compare", "demux", "search"} /\ Gives(SearchResult(job))
UsePacked == Computing("tools") /\ job.alg = "packed" /\ Gives(PackedResult(job))
UseTool == RunNetwork \/ Order \/ Search \/ UsePacked

(***************************************************************************)
(* Properties.                                                             *)
(***************************************************************************)
Used(alg) == Ended("tools") /\ job.alg = alg

\* A network configured for a permutation moves every element to its image,
\* the loop version does the same as the recursive one, and running in
\* reverse undoes it (configure_waksman, waksman, iter_waksman).
NetworksPermute ==
    Used("permute") =>
        LET p == Padded(job.perm)
        IN  /\ \A i \in DOMAIN p : IF job.reverse THEN out[1].recursive[i] = <<p[i]>>
                                   ELSE out[1].recursive[p[i]] = <<i>>
            /\ out[1].iterative = out[1].recursive
            /\ \A i \in DOMAIN p : out[1].back[i] = <<i>>

\* Exactly the elements with a 0 come out of sort_zeroes.
ZeroesKept ==
    Used("zeroes") => /\ {out[1][i] : i \in DOMAIN out[1]} = {<<i>> : i \in {k \in 0..3 : job.bits[k] = 0}}
                      /\ \A i, j \in DOMAIN out[1] : i # j => out[1][i] # out[1][j]

\* Sorting and merging lists of any length, padded with None, keep every
\* row and leave the keys in order.
Sorted ==
    Used("sort") \/ Used("merge") =>
        LET rows == IF job.alg = "sort" THEN {Rows(job.keys)[i] : i \in DOMAIN Rows(job.keys)}
                    ELSE UNION {{<<job.lists[k][i], i + 10 * k>> : i \in DOMAIN job.lists[k]} : k \in 1..3}
        IN  /\ {out[1][i] : i \in DOMAIN out[1]} = rows
            /\ Size(out[1]) = Cardinality(rows)
            /\ \A i \in 1..(Size(out[1]) - 1) : out[1][i - 1][1] <= out[1][i][1]

\* The levels revealed in a Path ORAM eviction fill every bucket of the
\* path and the stash to the slot, as long as the stash suffices, and no
\* entry lies deeper than where its path parts from the evicted one
\* (shuffle_evict "Incorrect bucket sizes").
EveryBucketFull ==
    Used("evict") =>
        LET levels == out[1]
            stashed == Cardinality({k \in DOMAIN job.commons : job.commons[k] >= 0})
            full(l) == Cardinality({i \in DOMAIN levels : levels[i].level = l})
        IN  /\ {levels[i].id : i \in DOMAIN levels} = DOMAIN job.commons
            /\ \A i \in DOMAIN levels :
                  LET common == job.commons[levels[i].id]
                  IN  common >= 0 => levels[i].level <= common \/ levels[i].level = job.d + 1
            /\ stashed <= job.stash => \A l \in 0..job.d : full(l) = job.z

\* The winner of a bucket is the entry that follows the path furthest, and
\* its level and index say so, unless the bucket is empty (find_deepest);
\* comp_binary tells the greater of two numbers.
DeepestFound ==
    /\ Used("deepest") =>
          LET full == {k \in DOMAIN job.entries : job.entries[k].empty = 0}
              depth(k) == Cardinality({d \in 1..3 : \A i \in 1..d : job.entries[k].bits[i] = job.path[i]})
          IN  full # {} => \E k \in full :
                 /\ out[1].entry = job.entries[k] /\ out[1].index = 2^(k - 1)
                 /\ out[1].level = [i \in 1..4 |-> Truth(i = depth(k) + 1)]
                 /\ BitCompose(UnaryToBinary(out[1].level)) = depth(k) + 1
                 /\ \A o \in full : depth(o) <= depth(k)
    /\ Used("compare") =>
          /\ (out[1] = <<1, 0>>) = (BitCompose(job.a) > BitCompose(job.b))
          /\ (out[1] = <<0, 1>>) = (BitCompose(job.a) < BitCompose(job.b))

\* Demultiplexing gives the unit vector of a number, the search finds the
\* one place of an index, and the first one of a vector is unique.
UnitVectors ==
    /\ Used("demux") =>
          /\ out[1].unit = [i \in 1..2^Len(job.bits) |-> Truth(i = BitCompose(job.bits) + 1)]
          /\ \A i \in DOMAIN job.bits :
                (out[1].first[i] = 1) = (job.bits[i] = 1 /\ \A k \in 1..(i - 1) : job.bits[k] = 0)
    /\ Used("search") =>
          /\ \A k \in DOMAIN out[1].found : out[1].found[k] = Truth(job.indices[k - 1] = job.index)
          /\ out[1].not_found = Truth(job.index \notin DOMAIN job.indices)

\* Packed storage is an array: an update returns what was written before
\* and leaves every other entry alone, whichever way entries and elements
\* share blocks (PackedIndexStructure.update).
PackedIsArray ==
    Used("packed") =>
        LET zero == [k \in DOMAIN job.layout.sizes |-> 0]
        IN  /\ out[1].old = IF job.i = job.j THEN job.v ELSE zero
            /\ \A k \in 0..(job.layout.size - 1) :
                  out[1].all[k] = IF k = job.j THEN job.w ELSE IF k = job.i THEN job.v ELSE zero
=============================================================================
