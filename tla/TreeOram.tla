------------------------------ MODULE TreeOram ------------------------------
(***************************************************************************)
(* The compiler's oblivious RAMs (Compiler/oram.py, path_oram.py,          *)
(* circuit_oram.py): a list that is searched whole, a list indexed by a    *)
(* secret unit vector, and three tree ORAMs that keep every entry in a     *)
(* bucket on the path to a random leaf and differ in how they move entries *)
(* down the tree: Shi et al. ("tree"), Path ORAM and Circuit ORAM.         *)
(*                                                                         *)
(* A bucket is the set of its non-empty entries, with a capacity: searching*)
(* and removing treat the slots of a bucket alike, and where the order of  *)
(* the slots matters, every order is tried.  Node 0 stands for the stash   *)
(* (or for the whole list), node 1 for the root, and the children of n are *)
(* 2n and 2n + 1.  The position map, itself a packed ORAM, is the array it *)
(* promises to be.                                                         *)
(***************************************************************************)
EXTENDS BitCircuits, FiniteSets, FiniteSetsExt

CONSTANTS Shapes    \* the ORAMs to try: kind, D, bucket_size, stash, items, values

VARIABLES shape,          \* the ORAM at hand
          bucket,         \* entries of every node
          index,          \* position map: the leaf of every item
          eviction_count, \* eviction_count of Path ORAM, t of Circuit ORAM
          request,        \* the access under way
          read,           \* what read_and_remove has found for it
          todo,           \* evictions left to do for it
          result          \* what the last access has returned

vars == <<shape, bucket, index, eviction_count, request, read, todo, result>>

Nothing == "nothing"
None == <<>>      \* no request, nothing read

D == shape.D
Items == shape.items
Leaves == 0..(2^D - 1)
Nodes == 0..(2^(D + 1) - 1)
Capacity(n) == IF n = 0 THEN shape.stash ELSE shape.bucket_size
Flat == shape.kind \in {"trivial", "linear"}

Entry(v, leaf, x) == [v |-> v, leaf |-> leaf, x |-> x]

(***************************************************************************)
(* Paths.  Level 0 is the root.  Path ORAM takes the bits of a leaf from   *)
(* the least significant one, the others from the most significant one.    *)
(***************************************************************************)
PathIndex(leaf, level) ==
    LET node[l \in 0..level] ==
            IF l = 0 THEN 1 ELSE 2 * node[l - 1] + ((leaf \div 2^(l - 1)) % 2)
    IN  node[level]

NodeOn(leaf, level) ==
    IF shape.kind = "path" THEN PathIndex(leaf, level)
    ELSE (2^D + leaf) \div 2^(D - level)

Path(leaf) == {NodeOn(leaf, level) : level \in 0..D}

\* The level where the paths to two leaves part.
CommonLevel(a, b) == Max({l \in 0..D : NodeOn(a, l) = NodeOn(b, l)})

(***************************************************************************)
(* Buckets (RefTrivialORAM): an entry added to a full one is lost.         *)
(***************************************************************************)
HasEmptyEntry(b, n) == Cardinality(b[n]) < Capacity(n)
AddTo(b, n, e) == IF HasEmptyEntry(b, n) THEN [b EXCEPT ![n] = @ \cup {e}] ELSE b
AddAll(b, n, entries) == FoldSet(LAMBDA e, acc : AddTo(acc, n, e), b, entries)
RemoveFrom(b, n, e) == [b EXCEPT ![n] = @ \ {e}]
Found(b, n, u) == {e \in b[n] : e.v = u}
ValueOf(found) == IF found = {} THEN Nothing ELSE (CHOOSE e \in found : TRUE).x

(***************************************************************************)
(* An access: AbstractORAM._access of the tree ORAMs.                      *)
(***************************************************************************)
Requests == [v : Items, write : BOOLEAN, x : shape.values \cup {Nothing}]

\* if_else(write, ...) on value and empty bit.
Written(r, old) == IF r.write THEN r.x ELSE old

\* Mutant: the stash is not searched.
ReadAndRemoveNoStash(r, l_star) ==
    /\ index' = [index EXCEPT ![r.v] = l_star]
    /\ LET places == Path(index[r.v])
       IN  /\ read' = <<[x |-> ValueOf(UNION {Found(bucket, n, r.v) : n \in places}),
                         leaf |-> l_star]>>
           /\ bucket' = [n \in Nodes |-> IF n \in places THEN bucket[n] \ Found(bucket, n, r.v)
                                         ELSE bucket[n]]

\* read_and_renew_index and read_and_remove_levels: the item gets a new
\* leaf, and the buckets on the old path and the stash give it up.
ReadAndRemove(r, l_star) ==
    /\ index' = [index EXCEPT ![r.v] = l_star]
    /\ LET places == Path(index[r.v]) \cup {0}
       IN  /\ read' = <<[x |-> ValueOf(UNION {Found(bucket, n, r.v) : n \in places}),
                         leaf |-> l_star]>>
           /\ bucket' = [n \in Nodes |-> IF n \in places THEN bucket[n] \ Found(bucket, n, r.v)
                                         ELSE bucket[n]]

Begin ==
    /\ ~Flat /\ request = None
    /\ \E r \in Requests, l_star \in Leaves :
          /\ ReadAndRemove(r, l_star)
          /\ request' = <<r>>
    /\ UNCHANGED <<shape, eviction_count, todo, result>>

\* Paths of the two evictions of Circuit ORAM: 2t and 2t + 1 bit-reversed.
ReversedBits(x) == BitCompose(Reverse(Bits(x, D)))
Distinct(level) == {p \in (0..(2^level - 1)) \X (0..(2^level - 1)) : p[1] # p[2]}

\* The evictions after an add: for "tree" the nodes to pop from, for "path"
\* and "circuit" the leaves whose paths are tidied.
EvictionPlans ==
    CASE shape.kind = "tree" ->
           {<<1>> \o (IF D > 1 THEN <<2, 3>> ELSE <<>>)
                  \o FoldLeft(LAMBDA s, d : s \o <<pick[d][1] + 2^d, pick[d][2] + 2^d>>,
                              <<>>, [i \in 1..(D - 2) |-> i + 1]) :
              pick \in {f \in [2..(D - 1) -> UNION {Distinct(d) : d \in 2..(D - 1)}] :
                           \A d \in 2..(D - 1) : f[d] \in Distinct(d)}}
      [] shape.kind = "path" -> {<<eviction_count>>}
      [] shape.kind = "circuit" ->
           {<<ReversedBits(2 * eviction_count), ReversedBits(2 * eviction_count + 1)>>}

NextCount ==
    CASE shape.kind = "path" -> (eviction_count + 1) % 2^D
      [] shape.kind = "circuit" -> (eviction_count + 1) % 2^(D - 1)
      [] OTHER -> eviction_count

\* add: to the root or, with a stash, to the stash.  This is where an
\* access takes effect.
Add ==
    /\ read # None
    /\ LET r == request[1]
           x == Written(r, read[1].x)
           home == IF shape.kind = "tree" THEN 1 ELSE 0
       IN  bucket' = IF x = Nothing THEN bucket
                     ELSE AddTo(bucket, home, Entry(r.v, read[1].leaf, x))
    /\ result' = read[1].x
    /\ read' = None
    /\ \E plan \in EvictionPlans : todo' = plan
    /\ eviction_count' = NextCount
    /\ UNCHANGED <<shape, index, request>>

(***************************************************************************)
(* Shi et al.: a bucket gives one entry to the child its leaf leads to.    *)
(***************************************************************************)
LevelOf(n) == CHOOSE d \in 0..D : 2^d <= n /\ n < 2^(d + 1)

\* get_bit(entry.x[0], D - 1 - d, D)
Child(n, leaf) == 2 * n + ((leaf \div 2^(D - 1 - LevelOf(n))) % 2)

\* An empty bucket pops an empty entry; which entry a full one pops depends
\* on its slots.
EvictBucket(n, b) ==
    IF bucket[n] = {} THEN b = bucket
    ELSE \E e \in bucket[n] : b = AddTo(RemoveFrom(bucket, n, e), Child(n, e.leaf), e)

(***************************************************************************)
(* Path ORAM: every entry of the path and the stash, in this order, goes   *)
(* to the deepest bucket its path shares with the evicted one that has     *)
(* room, and to the stash if none has (compute_lca, adjust_lca).  The size *)
(* bits count two entries in a bucket of three slots.                      *)
(***************************************************************************)
EvictRoom == IF shape.bucket_size = 3 THEN 2 ELSE shape.bucket_size

Rank(n) == IF n = 0 THEN D + 1 ELSE LevelOf(n)

\* All orders of the entries that keep the order of the buckets.
Orders(entries) ==
    {s \in [1..Cardinality(entries) -> entries] :
        /\ \A i, j \in DOMAIN s : i # j => s[i] # s[j]
        /\ \A i \in 1..(Len(s) - 1) : \A m, n \in Nodes :
               s[i] \in bucket[m] /\ s[i + 1] \in bucket[n] => Rank(m) <= Rank(n)}

\* Mutant: the first bucket with room is taken.
AdjustShallow(b, leaf, e) ==
    LET room == {l \in 0..CommonLevel(leaf, e.leaf) : Cardinality(b[NodeOn(leaf, l)]) < EvictRoom}
    IN  IF room = {} THEN 0 ELSE NodeOn(leaf, Min(room))

\* The node an entry is assigned to.
Adjust(b, leaf, e) ==
    LET room == {l \in 0..CommonLevel(leaf, e.leaf) : Cardinality(b[NodeOn(leaf, l)]) < EvictRoom}
    IN  IF room = {} THEN 0 ELSE NodeOn(leaf, Max(room))

ShuffleEvict(leaf, b) ==
    LET places == Path(leaf) \cup {0}
        emptied == [n \in Nodes |-> IF n \in places THEN {} ELSE bucket[n]]
    IN  \E order \in Orders(UNION {bucket[n] : n \in places}) :
           b = FoldLeft(LAMBDA acc, e : AddTo(acc, Adjust(acc, leaf, e), e), emptied, order)

(***************************************************************************)
(* Circuit ORAM.  Levels count from the stash, level 0, over the root,     *)
(* level 1, to the leaf, level L.  A goal is the deepest level an entry    *)
(* can go to on the path at hand.                                          *)
(***************************************************************************)
L == D + 1
NodeAt(path, level) == IF level = 0 THEN 0 ELSE NodeOn(path, level - 1)
BucketAt(path, level) == bucket[NodeAt(path, level)]
Goal(path, e) == CommonLevel(path, e.leaf) + 1
Goals(path, level) == {Goal(path, e) : e \in BucketAt(path, level)}

\* What find_deepest says of a bucket: the goal of its deepest entry.  The
\* slots of an empty bucket hold the leaves of what has been deleted, so it
\* may say anything from its own level on.
DeepestGoals(path) ==
    LET goals == [i \in 0..(L - 1) |-> Goals(path, i)]
        any == {i \in 1..(L - 1) : goals[i] = {}}
    IN  {[i \in 0..(L - 1) |-> IF goals[i] # {} THEN Max(goals[i]) ELSE IF i = 0 THEN 0 ELSE a[i]] :
           a \in {f \in [any -> 1..L] : \A i \in any : f[i] >= i}}

\* Levels as seen by the code: -1 is the empty Value().
NoLevel == -1

\* deepest[i]: the level above i whose deepest entry can go to i or deeper.
\* The prefix operation replaces what comes from the left when the right
\* goal is higher and the last bucket of the right is not empty.
PrepareDeepest(path, g) ==
    LET items == [k \in 1..L |->
                    [goal |-> g[k - 1], i |-> k - 1, full |-> BucketAt(path, k - 1) # {},
                     src |-> IF k = 1 /\ BucketAt(path, 0) = {} THEN NoLevel ELSE k - 1]]
        prefix == PreOpL("replace", items)
    IN  [i \in 1..L |-> IF prefix[i].goal >= i THEN prefix[i].src ELSE NoLevel]

\* Mutant: room is not asked for.
PrepareTargetNoRoom(path, deepest) ==
    LET step[i \in 0..(L + 1)] ==
            IF i = L + 1 THEN [dest |-> NoLevel, src |-> NoLevel, target |-> <<>>]
            ELSE LET s == step[i + 1]
                     here == s.src = i
                     target == IF here THEN s.dest ELSE NoLevel
                     dest == IF here THEN NoLevel ELSE s.dest
                     src == IF here THEN NoLevel ELSE s.src
                     move == i > 0 /\ deepest[i] # NoLevel
                 IN  [dest |-> IF move THEN i ELSE dest,
                      src |-> IF move THEN deepest[i] ELSE src,
                      target |-> <<target>> \o s.target]
    IN  [i \in 0..L |-> step[0].target[i + 1]]

\* target[i]: where the deepest entry of level i goes, from the leaf up.
PrepareTarget(path, deepest) ==
    LET step[i \in 0..(L + 1)] ==
            IF i = L + 1 THEN [dest |-> NoLevel, src |-> NoLevel, target |-> <<>>]
            ELSE LET s == step[i + 1]
                     here == s.src = i
                     target == IF here THEN s.dest ELSE NoLevel
                     dest == IF here THEN NoLevel ELSE s.dest
                     src == IF here THEN NoLevel ELSE s.src
                     move == /\ i > 0 /\ deepest[i] # NoLevel
                             /\ \/ dest = NoLevel /\ HasEmptyEntry(bucket, NodeAt(path, i))
                                \/ target # NoLevel
                 IN  [dest |-> IF move THEN i ELSE dest,
                      src |-> IF move THEN deepest[i] ELSE src,
                      target |-> <<target>> \o s.target]
    IN  [i \in 0..L |-> step[0].target[i + 1]]

\* The entries find_deepest may have picked from the buckets that give one.
Picks(path, target) ==
    LET givers == {i \in 0..(L - 1) : target[i] # NoLevel /\ BucketAt(path, i) # {}}
    IN  {f \in [givers -> UNION {BucketAt(path, i) : i \in givers}] :
            \A i \in givers : /\ f[i] \in BucketAt(path, i)
                              /\ Goal(path, f[i]) = Max(Goals(path, i))}

\* evict_once_fast and add_evicted: one entry at a time is held on the way
\* down; all are removed before any is added.
EvictOnce(path, b) ==
    \E target \in {PrepareTarget(path, PrepareDeepest(path, g)) : g \in DeepestGoals(path)} :
          \E pick \in Picks(path, target) :
            LET step(s, k) ==
                    LET i == k - 1
                        arrives == s.hold # {} /\ s.dest = i
                        hold == IF arrives THEN {} ELSE s.hold
                        dest == IF arrives THEN NoLevel ELSE s.dest
                        gives == i # L /\ target[i] # NoLevel
                        taken == IF i \in DOMAIN pick THEN {pick[i]} ELSE {}
                    IN  [hold |-> IF gives THEN taken ELSE hold,
                         dest |-> IF gives THEN target[i] ELSE dest,
                         from |-> IF gives /\ taken # {}
                                  THEN RemoveFrom(s.from, NodeAt(path, i), pick[i]) ELSE s.from,
                         towrite |-> Append(s.towrite, IF arrives THEN s.hold ELSE {})]
                end == FoldLeftDomain(step,
                           [hold |-> {}, dest |-> NoLevel, from |-> bucket, towrite |-> <<>>],
                           [k \in 1..(L + 1) |-> k])
            IN  b = FoldLeftDomain(
                        LAMBDA acc, k : AddAll(acc, NodeAt(path, k), end.towrite[k + 1]),
                        end.from, [k \in 1..L |-> k])

Evict ==
    /\ todo # <<>>
    /\ CASE shape.kind = "tree" -> EvictBucket(todo[1], bucket')
         [] shape.kind = "path" -> ShuffleEvict(todo[1], bucket')
         [] OTHER -> EvictOnce(todo[1], bucket')
    /\ todo' = Tail(todo)
    /\ request' = IF Len(todo) = 1 THEN None ELSE request
    /\ UNCHANGED <<shape, index, eviction_count, read, result>>

(***************************************************************************)
(* The lists: an access is one pass over all entries.                      *)
(***************************************************************************)
\* TrivialORAM: a write goes to where the index was found or else to the
\* first empty slot.
AccessTrivial(r) ==
    LET found == Found(bucket, 0, r.v)
    IN  /\ result' = ValueOf(found)
        /\ bucket' = IF ~r.write THEN bucket
                     ELSE IF r.x = Nothing THEN [bucket EXCEPT ![0] = @ \ found]
                     ELSE AddTo([bucket EXCEPT ![0] = @ \ found], 0, Entry(r.v, 0, r.x))

\* LinearORAM: slot i belongs to index i, and the secret unit vector
\* index_vector selects it (demux).
AccessLinear(r) ==
    LET selected == {e \in bucket[0] : e.v = r.v}
        kept == {e \in bucket[0] : e.v # r.v}
    IN  /\ result' = ValueOf(selected)
        /\ bucket' = [bucket EXCEPT ![0] =
                         kept \cup (IF ~r.write THEN selected
                                   ELSE IF r.x = Nothing THEN {} ELSE {Entry(r.v, 0, r.x)})]

AccessFlat ==
    /\ Flat
    /\ \E r \in Requests : IF shape.kind = "trivial" THEN AccessTrivial(r) ELSE AccessLinear(r)
    /\ UNCHANGED <<shape, index, eviction_count, request, read, todo>>

(***************************************************************************)
(* All entries are empty at first, and the position map is random.         *)
(***************************************************************************)
Init ==
    /\ shape \in Shapes
    /\ bucket = [n \in Nodes |-> {}]
    /\ index \in [Items -> IF Flat THEN {0} ELSE Leaves]
    /\ eviction_count = 0
    /\ request = None /\ read = None /\ todo = <<>> /\ result = Nothing

Next == Begin \/ Add \/ Evict \/ AccessFlat

Spec == Init /\ [][Next]_vars

(***************************************************************************)
(* Properties                                                              *)
(***************************************************************************)
Stored == UNION {bucket[n] : n \in Nodes}
Idle == request = None

TypeOK ==
    /\ shape \in Shapes
    /\ \A n \in Nodes : /\ bucket[n] \subseteq [v : Items, leaf : Leaves, x : shape.values]
                         /\ Cardinality(bucket[n]) <= Capacity(n)
    /\ index \in [Items -> Leaves]
    /\ eviction_count \in Leaves
    /\ result \in shape.values \cup {Nothing}

\* Where the next access looks: an entry that is stored lies in the stash
\* or in a bucket on the path to the leaf the position map has for it
\* (read_and_remove_levels reads nothing else).
OnPath ==
    ~Flat => \A n \in Nodes, e \in Stored :
                e \in bucket[n] => /\ e.leaf = index[e.v]
                                  /\ (n = 0 \/ n \in Path(e.leaf))

\* "at most one 1 in found": an item is stored once in all buckets.
StoredOnce ==
    \A m, n \in Nodes : \A d \in bucket[m], e \in bucket[n] :
        d.v = e.v => m = n /\ d = e

\* Every stored entry is in a bucket of its path or in the stash, and no
\* entry is stored twice (oram.py, path_oram.py, circuit_oram.py).
WellStored == TypeOK /\ OnPath /\ StoredOnce

\* After an eviction of Path ORAM nothing on the path could lie deeper: the
\* deeper buckets an entry shares with the path are full.
Settled ==
    [][shape.kind = "path" /\ todo # <<>> =>
         \A level \in 0..D : \A n \in {0, NodeOn(todo[1], level)} : \A e \in bucket'[n] :
            \A l \in (IF n = 0 THEN 0 ELSE level + 1)..CommonLevel(todo[1], e.leaf) :
               Cardinality(bucket'[NodeOn(todo[1], l)]) >= EvictRoom]_vars

\* Every ORAM is the array that it hides: what the stored entries and the
\* one being moved say is what AbstractORAM.access promises.
AllItems == UNION {s.items : s \in Shapes}
Cells == [u \in AllItems |->
            IF read # None /\ request[1].v = u THEN read[1].x
            ELSE ValueOf({e \in Stored : e.v = u})]
AllValues == UNION {s.values : s \in Shapes}
Array == INSTANCE ObliviousArray WITH cells <- Cells, Items <- AllItems, Values <- AllValues
IsArray == Array!Spec

(***************************************************************************)
(* For TLC: heights one to three, and items that compete for buckets.      *)
(***************************************************************************)
Oram(kind, d, size, stash, items, values) ==
    [kind |-> kind, D |-> d, bucket_size |-> size, stash |-> stash,
     items |-> items, values |-> values]

SmallOrams == {
    Oram("trivial", 0, 2, 2, 1..2, {"x", "y"}),
    Oram("linear", 0, 2, 2, 1..2, {"x", "y"}),
    Oram("tree", 1, 3, 0, 1..2, {"x", "y"}),
    Oram("tree", 2, 2, 0, 1..2, {"x"}),
    Oram("tree", 3, 2, 0, 1..1, {"x", "y"}),
    Oram("path", 1, 2, 3, 1..4, {"x"}),
    Oram("path", 1, 3, 3, 1..3, {"x"}),
    Oram("path", 2, 2, 2, 1..2, {"x", "y"}),
    Oram("circuit", 1, 2, 3, 1..5, {"x"}),
    Oram("circuit", 2, 2, 2, 1..2, {"x", "y"}),
    Oram("circuit", 3, 2, 2, 1..2, {"x"})}

=============================================================================
