--------------------------- MODULE TapeOptimizer ---------------------------
(***************************************************************************)
(* From basic blocks to code: Tape.optimize of Compiler/program.py and the *)
(* passes it calls in Compiler/allocator.py - the dependency graph, the    *)
(* merging of instructions that communicate, dead code elimination,        *)
(* expansion of merged CISC instructions, jumps, register allocation and   *)
(* the count of the preprocessing a tape needs.                            *)
(*                                                                         *)
(* A register is the part of a vector (k = its first element, n = its      *)
(* length) of a base b; scalars have n = 1.  An element taken from a       *)
(* vector exists as a register once its base is in "split".  Registers in  *)
(* one class of "dup" are linked: they share an address.                   *)
(***************************************************************************)
EXTENDS Integers, Sequences, FiniteSets, FiniteSetsExt, SequencesExt, TLC

\* FoldLeft that works out each value before it goes on (a \in {} looks at a).
\* The state a step leaves, under a name.
Then(t, Op(_)) == Op(t)
Through(Op(_, _), start, s) ==
    LET RECURSIVE Go(_, _)
        Go(a, n) == IF a \in {} \/ n > Len(s) THEN a ELSE Go(Op(a, s[n]), n + 1)
    IN  Go(start, 1)

\* A set as a sequence, the first by Before first.
InOrder(S, Before(_, _)) ==
    LET Least(R) == CHOOSE x \in R : \A y \in R \ {x} : Before(x, y)
        RECURSIVE Sort(_, _)
        Sort(R, s) == IF R = {} THEN s ELSE Sort(R \ {Least(R)}, Append(s, Least(R)))
    IN  Sort(S, <<>>)

CONSTANT IntLimit   \* immediate integers are smaller (2^31)

Register(b, k, n) == [b |-> b, k |-> k, n |-> n]
Whole(t, b) == Register(b, 0, t.regs[b].n)
Instr(op, d, u, imm, n) == [op |-> op, d |-> d, u |-> u, imm |-> imm, n |-> n]
NoIns == Instr("none", <<>>, <<>>, 0, 0)
Type(t, r) == t.regs[r.b].type
IsVec(i) == i.n > 1
ElementsOf(r) == {Register(r.b, k, 1) : k \in r.k..(r.k + r.n - 1)}
Vector(t, r) == IF r.n > 1 /\ r.b \in t.split THEN ElementsOf(r) ELSE {}
\* The registers an instruction touches through r.
Parts(t, i, r) == IF IsVec(i) /\ Vector(t, r) # {} THEN Vector(t, r) ELSE {r}
Touched(t, i, rs) == UNION {Parts(t, i, rs[m]) : m \in DOMAIN rs}
Link(t, a, b) == LET all == t.dup[a.b] \cup t.dup[b.b]
                 IN  [t EXCEPT !.dup = [c \in all |-> all] @@ @]
NewReg(t, type, n) == [t EXCEPT !.regs = Append(@, [type |-> type, n |-> n]),
                                !.dup = Append(@, {Len(t.regs) + 1})]
Newest(t) == Whole(t, Len(t.regs))
Lookup(f, k, otherwise) == IF k \in DOMAIN f THEN f[k] ELSE otherwise
Put(f, k, v) == (k :> v) @@ f
NoMap == [x \in {} |-> 0]

-----------------------------------------------------------------------------
(***************************************************************************)
(* Classes of instructions.                                                *)
(***************************************************************************)
Stack(op) == op \in {"pushint", "popint"}
ReadMemory(op) == op \in {"ldms", "ldmsi", "ldmint", "ldminti"}
WriteMemory(op) == op \in {"stms", "stmsi", "stmint", "stminti"}
Indirect(op) == op \in {"ldmsi", "ldminti", "stmsi", "stminti"}
Mergeable(op) == op \in {"asm_open", "muls", "input", "cisc"}
TextInput(op) == op = "input"
Output(op) == op = "print_int"
DoNotEliminate(op) == Stack(op) \/ Output(op) \/ TextInput(op) \/ op = "crash"
MergeId(i) == <<i.op, IF i.op = "cisc" THEN 0 ELSE i.n>>
ArgCount(i) == Len(i.d) + Len(i.u)

(***************************************************************************)
(* determine_scope: what a block reads that was not written in it.         *)
(***************************************************************************)
UsedFromScope(t, ins) ==
    UNION {Touched(t, ins[n], ins[n].u) \ UNION {Touched(t, ins[m], ins[m].d) : m \in 1..(n - 1)}
           : n \in DOMAIN ins}

-----------------------------------------------------------------------------
(***************************************************************************)
(* The dependency graph.  edges: pairs of positions; depth: the round an   *)
(* instruction that communicates is put in; the rest remembers who has to  *)
(* come first.                                                             *)
(***************************************************************************)
StartGraph(n) == [edges |-> {}, depth |-> [m \in 1..n |-> 0], def |-> NoMap, reads |-> NoMap,
                  writes |-> NoMap, last |-> NoMap, input |-> <<0, 0>>, round |-> NoMap,
                  open |-> NoMap, nodes |-> {}]
AddEdges(g, froms, n) ==
    [g EXCEPT !.edges = @ \cup {<<m, n>> : m \in froms},
              !.depth[n] = Max({@} \cup {g.depth[m] : m \in froms})]
KeepOrder(g, n, class) ==
    LET before == Lookup(g.last, class, 0)
    IN  [AddEdges(g, {before} \ {0}, n) EXCEPT !.last = Put(@, class, n)]

\* Inputs of another size may not be merged: they wait for the last such one.
KeepMergedOrder(g, ins, n) ==
    LET prev == g.input[1]
        other == prev # 0 /\ MergeId(ins[n]) # MergeId(ins[prev])
        barrier == IF other THEN prev ELSE g.input[2]
    IN  [AddEdges(g, {barrier} \ {0}, n) EXCEPT !.input = <<n, barrier>>]

\* One access to one cell (or to everything): mine and others are the lists
\* of accesses of the same and of the other kind.
AfterOthers(g, n, key, mine, others) ==
    LET this == Lookup(g[mine], key, <<>>)
        other == Lookup(g[others], key, <<>>)
        stale == this # <<>> /\ other # <<>> /\ Last(this) < other[1]
    IN  [AddEdges(g, Range(other), n) EXCEPT
            ![mine] = Put(@, key, Append(IF stale THEN <<>> ELSE this, n))]

\* Addresses are compared as written: cells by number, registers by name.
MemAccess(t, g, i, n, strict) ==
    LET mine == IF ReadMemory(i.op) THEN "reads" ELSE "writes"
        others == IF ReadMemory(i.op) THEN "writes" ELSE "reads"
        type == Type(t, IF ReadMemory(i.op) THEN i.d[1] ELSE i.u[1])
        keys == IF Indirect(i.op) THEN << <<"reg", Last(i.u).b, type>> >>
                ELSE [c \in 1..i.n |-> <<"cell", i.imm + c - 1, type>>]
    IN  IF strict THEN AfterOthers(g, n, <<"all">>, mine, others)
        ELSE Through(LAMBDA h, key: AfterOthers(h, n, key, mine, others), g, keys)

\* The first round that has the right kind and room.  (The code remembers
\* the rounds it skipped so as not to try them again.)
RoundOf(g, i, parallel, from) ==
    Min({d \in from..(from + Len(g.depth)) :
            /\ Lookup(g.round, d, MergeId(i)) = MergeId(i)
            /\ parallel = 0 \/ Lookup(g.open, d, 0) < parallel})
PutInRound(g, i, n, parallel) ==
    LET d == RoundOf(g, i, parallel, g.depth[n] + 1)
    IN  [g EXCEPT !.depth[n] = d, !.nodes = @ \cup {n}, !.round = Put(@, d, MergeId(i)),
                  !.open = Put(@, d, Lookup(@, d, 0) + ArgCount(i) * i.n)]

DependencyGraph(t, ins, opts) ==
    LET Reads(g, i, n) == AddEdges(g, {Lookup(g.def, r, 0) : r \in Touched(t, i, i.u)} \ {0}, n)
        Writes(g, i, n) == [g EXCEPT !.def = [r \in Touched(t, i, i.d) |-> n] @@ @]
        Inputs(g, i, n) == IF TextInput(i.op) THEN KeepMergedOrder(g, ins, n) ELSE g
        Merges(g, i, n) == IF Mergeable(i.op) THEN PutInRound(g, i, n, opts.parallel) ELSE g
        Ordered(g, i, n) == IF ReadMemory(i.op) \/ WriteMemory(i.op) THEN MemAccess(t, g, i, n, opts.strict)
                            ELSE IF Output(i.op) THEN KeepOrder(g, n, "io")
                            ELSE IF Stack(i.op) THEN KeepOrder(g, n, "stack") ELSE g
        Next(g, n) == LET i == ins[n]
                      IN  Ordered(Merges(Inputs(Writes(Reads(g, i, n), i, n), i, n), i, n), i, n)
    IN  Through(Next, StartGraph(Len(ins)), [n \in DOMAIN ins |-> n])

-----------------------------------------------------------------------------
(***************************************************************************)
(* Merging.  w holds the graph, whose pred forgets a removed node at once  *)
(* while its own successors stay listed, and the instructions.             *)
(***************************************************************************)
Succ(w, n) == {e[2] : e \in {e \in w.edges : e[1] = n}}
Pred(w, n) == {e[1] : e \in {e \in w.edges : e[2] = n}}
RemoveNode(w, n) == [w EXCEPT !.edges = {e \in @ : n \notin {e[1], e[2]}},
                              !.left = @ \cup {e \in w.edges : e[1] = n}]

MergeNodes(w, i, j) ==
    LET edges == w.edges \ {<<i, j>>, <<j, i>>}
        moved == {<<i, k>> : k \in Succ([edges |-> edges], j)}
                    \cup {<<k, i>> : k \in Pred([edges |-> edges], j)}
    IN  RemoveNode([w EXCEPT !.edges = edges \cup moved], j)
MergeInstructions(a, b) == [a EXCEPT !.d = @ \o b.d, !.u = @ \o b.u]
DoMerge(w, merge) ==
    LET first == Min(merge)
        One(v, i) == [MergeNodes(v, first, i) EXCEPT
                          !.ins[first] = MergeInstructions(@, v.ins[i]), !.ins[i] = NoIns]
    IN  Through(One, w, InOrder(merge \ {first}, LAMBDA a, b: a < b))

\* Depth first from the last node; the children with the highest positions
\* first.  Without merges this is the original order.
TopologicalSort(w) ==
    LET next == [n \in DOMAIN w.ins |-> {e[2] : e \in {e \in w.edges \cup w.left : e[1] = n}}]
        RECURSIVE Visit(_, _)
        Visit(done, n) == IF n \in Range(done) THEN done
                          ELSE Append(Through(Visit, done, InOrder(next[n], LAMBDA a, b: a > b)), n)
    IN  Reverse(Through(Visit, <<>>, Reverse([n \in DOMAIN w.ins |-> n])))

LongestPathsMerge(w) ==
    LET depths == {w.depth[n] : n \in w.nodes}
        Next(v, d) == DoMerge(v, {n \in w.nodes : w.depth[n] = d})
        merged == Through(Next, w, InOrder(depths, LAMBDA a, b: a < b))
        order == TopologicalSort(merged)
    IN  IF w.nodes = {} THEN w
        ELSE [merged EXCEPT !.ins = SelectSeq([m \in DOMAIN order |-> merged.ins[order[m]]],
                                              LAMBDA i: i # NoIns)]

Unused(t, w, n) ==
    /\ w.ins[n] # NoIns /\ Succ(w, n) = {} /\ w.ins[n].d # <<>> /\ ~DoNotEliminate(w.ins[n].op)
    /\ \A r \in Range(w.ins[n].d) : r \notin t.kept /\ \A b \in t.dup[r.b] : Whole(t, b) \notin t.kept
\* A pop nobody needs right after its push.
UselessPop(t, w, n) ==
    /\ w.ins[n].op = "popint" /\ w.ins[n].d[1] \notin t.kept
    /\ \/ Succ(w, n) = {}
       \/ Cardinality(Succ(w, n)) = 1 /\ \A m \in Succ(w, n) : Stack(w.ins[m].op)
    /\ Cardinality(Pred(w, n)) = 1 /\ \A m \in Pred(w, n) : w.ins[m].op = "pushint"
Eliminate(w, n) == [RemoveNode(w, n) EXCEPT !.ins[n] = NoIns, !.nodes = @ \ {n}]
EliminateDeadCode(t, w) ==
    LET One(v, n) == IF v.ins[n] = NoIns THEN v
                     ELSE IF Unused(t, v, n) THEN Eliminate(v, n)
                     ELSE IF UselessPop(t, v, n) THEN Eliminate(Eliminate(v, Max(Pred(v, n))), n)
                     ELSE v
    IN  Through(One, w, Reverse([n \in DOMAIN w.ins |-> n]))

\* The passes on one block: its instructions, and the rounds they take.
Cleaned(t, block, opts, g) ==
    LET w == [edges |-> g.edges, left |-> {}, ins |-> block.ins, nodes |-> g.nodes, depth |-> g.depth]
    IN  IF opts.dce THEN EliminateDeadCode(t, w) ELSE w
Scheduled(block, opts, w) ==
    LET ins == IF opts.merge THEN LongestPathsMerge(w).ins ELSE w.ins
    IN  [block EXCEPT !.ins = SelectSeq(ins, LAMBDA i: i # NoIns),
                      !.rounds = IF opts.merge THEN Cardinality({w.depth[n] : n \in w.nodes}) ELSE 0]
Merged(t, block, opts) ==
    Scheduled(block, opts, Cleaned(t, block, opts, DependencyGraph(t, block.ins, opts)))

-----------------------------------------------------------------------------
(***************************************************************************)
(* RegintOptimizer: constants are propagated, x + 0 becomes x itself and   *)
(* indirect accesses become direct.                                        *)
(***************************************************************************)
IntegerOp(op, a, b) == CASE op = "addint" -> a + b [] op = "mulint" -> a * b
                         [] op = "ltc" -> IF a < b THEN 1 ELSE 0
                         [] op = "lec" -> IF a <= b THEN 1 ELSE 0
IsIntegerOp(op) == op \in {"addint", "mulint", "ltc", "lec"}
Direct(op) == CASE op = "ldmsi" -> "ldms" [] op = "stmsi" -> "stms"
                [] op = "ldminti" -> "ldmint" [] op = "stminti" -> "stmint"
Small(v) == -IntLimit < v /\ v < IntLimit
Regint(s, i) ==
    LET Known(m) == i.u[m] \in DOMAIN s.cache
        Value(m) == s.cache[i.u[m]]
        Keep(j) == [s EXCEPT !.ins = Append(@, j)]
        Becomes(op, v, remember) ==
            [s EXCEPT !.ins = Append(@, IF Small(v) THEN [i EXCEPT !.op = op, !.u = <<>>, !.imm = v] ELSE i),
                      !.cache = IF remember THEN Put(@, i.d[1], v) ELSE @]
        Drop(other) == [s EXCEPT !.t = Link(@, i.d[1], other)]
    IN  CASE i.op = "ldint" -> [Keep(i) EXCEPT !.cache = Put(@, i.d[1], i.imm)]
          [] IsIntegerOp(i.op) /\ Known(1) /\ Known(2) ->
                LET v == IntegerOp(i.op, Value(1), Value(2)) IN Becomes("ldint", v, Small(v))
          [] i.op = "addint" /\ Known(1) /\ ~Known(2) /\ Value(1) = 0 -> Drop(i.u[2])
          [] i.op = "addint" /\ ~Known(1) /\ Known(2) /\ Value(2) = 0 -> Drop(i.u[1])
          [] Indirect(i.op) /\ Last(i.u) \in DOMAIN s.cache ->
                Keep([i EXCEPT !.op = Direct(@), !.imm = s.cache[Last(i.u)], !.u = Front(@)])
          [] i.op = "convint" /\ Known(1) -> Becomes("ldi", Value(1), TRUE)
          [] i.op = "mulm" /\ Known(2) /\ Value(2) = 0 -> Keep([i EXCEPT !.op = "ldsi", !.u = <<>>, !.imm = 0])
          [] i.op = "mulm" /\ Known(2) /\ Value(2) = 1 -> Drop(i.u[1])
          [] OTHER -> Keep(i)
\* The tape with the links made, and the new instructions.
RegintOptimizer(t, ins) == Through(Regint, [t |-> t, cache |-> NoMap, ins |-> <<>>], ins)

(***************************************************************************)
(* expand_merged: the calls merged into one CISC instruction run as one on *)
(* longer vectors, copied from and to the registers of the calls.  The     *)
(* function here is x -> x * x + x, a multiplication and an addition.      *)
(***************************************************************************)
Expand(t, i) ==
    LET size == Through(LAMBDA n, r: n + r.n, 0, i.d)
        start(m) == Through(LAMBDA n, r: n + r.n, 0, SubSeq(i.d, 1, m - 1))
        b == Len(t.regs)
        t1 == NewReg(NewReg(NewReg(t, "s", size), "s", size), "s", size)
        t2 == IF Len(i.d) > 1 THEN [t1 EXCEPT !.split = @ \cup {b + 1, b + 2}] ELSE t1
        res == Register(b + 1, 0, size)
        arg == Register(b + 2, 0, size)
        square == Register(b + 3, 0, size)
        Into(m) == Instr("movs", <<Register(b + 2, start(m), i.u[m].n)>>, <<i.u[m]>>, 0, i.u[m].n)
        From(m) == Instr("movs", <<i.d[m]>>, <<Register(b + 1, start(m), i.d[m].n)>>, 0, i.d[m].n)
    IN  [t |-> t2, ins |-> [m \in DOMAIN i.d |-> Into(m)]
                              \o <<Instr("muls", <<square>>, <<arg, arg>>, 0, size),
                                   Instr("adds", <<res>>, <<square, arg>>, 0, size)>>
                              \o [m \in DOMAIN i.d |-> From(m)]]
ExpandCisc(t, b) ==
    LET Next(s, i) == IF i.op # "cisc" THEN [s EXCEPT !.ins = Append(@, i)]
                      ELSE LET e == Expand(s.t, i) IN [t |-> e.t, ins |-> s.ins \o e.ins]
        s == Through(Next, [t |-> t, ins |-> <<>>], t.blocks[b].ins)
    IN  [s.t EXCEPT !.blocks[b].ins = s.ins]

-----------------------------------------------------------------------------
(***************************************************************************)
(* Jumps are relative to the instruction after them; a function block      *)
(* returns by the offset its caller stored.                                *)
(***************************************************************************)
WithJumps(t) ==
    LET blocks == [b \in DOMAIN t.blocks |->
                      IF t.blocks[b].exit = NoIns THEN t.blocks[b]
                      ELSE [t.blocks[b] EXCEPT !.ins = Append(@, t.blocks[b].exit)]]
        offset == [b \in DOMAIN blocks |-> Through(LAMBDA n, x: n + Len(x.ins), 0, SubSeq(blocks, 1, b - 1))]
        Offset(from, to) == offset[to] - (offset[from] + Len(blocks[from].ins))
        Jump(b) == IF blocks[b].to = 0 THEN blocks[b]
                   ELSE [blocks[b] EXCEPT !.ins[Len(blocks[b].ins)].imm = Offset(b, blocks[b].to)]
        Returning(b, ins) ==
            LET back == {c \in DOMAIN blocks : blocks[c].prev = b}
            IN  [m \in DOMAIN ins |-> IF ins[m].op = "ldret"
                                      THEN [ins[m] EXCEPT !.imm = Offset(blocks[Max(back)].sub, Max(back))]
                                      ELSE ins[m]]
    IN  [t EXCEPT !.blocks = [b \in DOMAIN blocks |->
                                 [Jump(b) EXCEPT !.ins = Returning(b, @)]]]

(***************************************************************************)
(* Registers are allocated backwards: a register gets an address at its    *)
(* last use and gives it back at its definition, once all parts of it and  *)
(* of the registers linked to it are defined.                              *)
(***************************************************************************)
StartAlloc(t) == [addr |-> NoMap, usage |-> [y \in {"ci", "c", "s"} |-> 0], free |-> NoMap,
                  dealloc |-> {}, defined |-> {}, double |-> FALSE]
AllocReg(t, a, r, pool) ==
    LET size == t.regs[r.b].n
        key == <<pool, Type(t, r), size>>
        free == Lookup(a.free, key, {})
        at == IF free # {} THEN Min(free) ELSE a.usage[Type(t, r)]
        same == t.dup[r.b]
    IN  IF r.b \in DOMAIN a.addr THEN a
        ELSE [a EXCEPT !.addr = [b \in same |-> at] @@ @,
                       !.free = IF free # {} THEN Put(@, key, free \ {at}) ELSE @,
                       !.usage[Type(t, r)] = IF free # {} THEN @ ELSE @ + size]

Ready(t, dealloc, b) ==
    \A c \in t.dup[b] : IF Vector(t, Whole(t, c)) # {} THEN Vector(t, Whole(t, c)) \subseteq dealloc
                        ELSE Whole(t, c) \in dealloc
DeallocReg(t, a, r, i, pool) ==
    LET dealloc == a.dealloc \cup (IF Vector(t, r) # {} THEN Vector(t, r) ELSE {r})
        base == Whole(t, r.b)
        key == <<pool, Type(t, r), base.n>>
    IN  IF ~Ready(t, dealloc, r.b) THEN [a EXCEPT !.dealloc = dealloc]
        ELSE [a EXCEPT !.dealloc = dealloc,
                       !.free = Put(@, key, Lookup(@, key, {}) \cup {a.addr[r.b]}),
                       !.defined = @ \cup (IF IsVec(i) /\ Vector(t, base) # {}
                                           THEN {base} \cup Vector(t, base) ELSE {r})]

AllocInstruction(t, a, i, pool) ==
    LET Def(b, r) == IF r.b \in DOMAIN b.addr THEN [b EXCEPT !.double = @ \/ r \in b.defined]
                     ELSE AllocReg(t, b, r, pool)
        Use(b, r) == AllocReg(t, b, r, pool)
        Free(b, r) == DeallocReg(t, b, r, i, pool)
    IN  Through(Free, Through(Use, Through(Def, a, i.d), i.u), i.d)

\* alloc_loop: what is read from before a loop keeps its address in all of it.
AllocLoop(t, a, scope) ==
    LET kids(c) == {k \in DOMAIN t.blocks : t.blocks[k].scope = c /\ t.blocks[k].ins # <<>>}
        RECURSIVE Below(_)
        Below(c) == {c} \cup UNION {Below(k) : k \in kids(c)}
        BySorted(x, y) == x.b < y.b \/ (x.b = y.b /\ x.k < y.k)
        One(b, c) == Through(LAMBDA d, r: AllocReg(t, d, r, t.blocks[c].pool), b,
                              InOrder(t.blocks[c].used, BySorted))
    IN  Through(One, a, InOrder(Below(scope), LAMBDA x, y: x < y))

AllocBlock(t, a, b) ==
    LET block == t.blocks[b]
        back == block.to # 0 /\ Last(block.ins).imm < 0 /\ t.blocks[block.to].scope # 0
        a1 == IF block.ins # <<>> /\ back THEN AllocLoop(t, a, t.blocks[block.to].scope) ELSE a
    IN  Through(LAMBDA c, i: AllocInstruction(t, c, i, block.pool), a1, Reverse(block.ins))
Allocate(t) == Through(LAMBDA a, b: AllocBlock(t, a, b), StartAlloc(t), Reverse([b \in DOMAIN t.blocks |-> b]))

-----------------------------------------------------------------------------
(***************************************************************************)
(* The preprocessing a tape needs, summed up along the tree of scopes.     *)
(* Unknown stands for a loop whose count is not known.                     *)
(***************************************************************************)
Unknown == 1000
Cap(v) == IF v > Unknown THEN Unknown ELSE v
ReqKinds == {"triple", "input", "round"}
Req(f) == [k \in ReqKinds |-> Cap(f[k])]
NoReq == Req([k \in ReqKinds |-> 0])
PlusReq(x, y) == Req([k \in ReqKinds |-> x[k] + y[k]])
UsageOf(i) == [NoReq EXCEPT !.triple = IF i.op = "muls" THEN Len(i.d) * i.n ELSE 0,
                            !.input = IF TextInput(i.op) THEN Len(i.d) * i.n ELSE 0]
BlockUsage(block) == [Through(LAMBDA r, i: PlusReq(r, UsageOf(i)), NoReq, block.ins) EXCEPT !.round = block.rounds]

Combine(agg, reqs) ==
    CASE agg[1] = "first" -> reqs[1]
      [] agg[1] = "times" -> Req([k \in ReqKinds |-> agg[2] * reqs[1][k]])
      [] agg[1] = "unknown" -> Req([k \in ReqKinds |-> IF reqs[1][k] = 0 THEN 0 ELSE Unknown])
      [] agg[1] = "max" -> Req([k \in ReqKinds |-> Max({reqs[1][k], reqs[2][k]})])
Aggregate(t) ==
    LET RECURSIVE Node(_)
        Child(c) == IF c[1] = "node" THEN Node(c[2])
                    ELSE Combine(t.childs[c[2]].agg, [m \in DOMAIN t.childs[c[2]].nodes |-> Node(t.childs[c[2]].nodes[m])])
        Node(n) == Through(LAMBDA r, c: PlusReq(r, Child(c)),
                            Through(LAMBDA r, b: PlusReq(r, BlockUsage(t.blocks[b])), NoReq, t.nodes[n].blocks),
                            t.nodes[n].children)
    IN  Node(1)

(***************************************************************************)
(* Tape.optimize.                                                          *)
(***************************************************************************)
KeepUsed(t) ==
    LET used == [b \in DOMAIN t.blocks |-> UsedFromScope(t, t.blocks[b].ins)]
    IN  [t EXCEPT !.kept = @ \cup UNION {used[b] : b \in DOMAIN used},
                  !.blocks = [b \in DOMAIN @ |-> [@[b] EXCEPT !.used = used[b]]]]
MergeAll(t, opts) ==
    IF opts.merge \/ opts.dce
    THEN [t EXCEPT !.blocks = [b \in DOMAIN @ |-> Merged(t, @[b], opts)]] ELSE t
ExpandAll(t, opts) ==
    IF opts.cisc THEN Through(ExpandCisc, t, [b \in DOMAIN t.blocks |-> b]) ELSE t
Finished(t) ==
    [tape |-> t, alloc |-> Allocate(t), req |-> Aggregate(t),
     code |-> FlattenSeq([b \in DOMAIN t.blocks |-> t.blocks[b].ins])]
Optimize(t, opts) ==
    Finished(WithJumps(ExpandAll(MergeAll(KeepUsed(t), opts), opts)))
=============================================================================
