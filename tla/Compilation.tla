---------------------------- MODULE Compilation ----------------------------
(***************************************************************************)
(* Compiling and running small programs: what the code printed and left in *)
(* memory and on the stack is what the program says.  A job is one program *)
(* with one choice of compiler options, or a sequence of memory requests,  *)
(* or a loop split over threads.                                           *)
(***************************************************************************)
EXTENDS ControlFlow, Computation

CONSTANTS Modulus,    \* of secret and clear values
          InputSeed,  \* the party inputs InputSeed, InputSeed + 3, ...
          Steps       \* instructions of one run at most

-----------------------------------------------------------------------------
(***************************************************************************)
(* What a statement means.  A value is a sequence, of length one for       *)
(* scalars; w is the state of the world: memory by type, the stack, what   *)
(* was printed and how much was used.                                      *)
(***************************************************************************)
Input(n) == (InputSeed + 3 * n) % Modulus
World == [s |-> [a \in 0..3 |-> 0], ci |-> NoMap, stack |-> <<>>, out |-> <<>>,
          input |-> 0, triple |-> 0, round |-> 0, arg |-> 0]
Pure(op, a, imm, n) ==
    LET A(m) == a[1][m]
        B(m) == a[2][m]
    IN  [m \in 1..n |->
            CASE op \in {"ldint", "ldi", "ldsi", "ldret"} -> imm
              [] IsIntegerOp(op) -> IntegerOp(op, A(m), B(m))
              [] op = "adds" -> (A(m) + B(m)) % Modulus
              [] op \in {"muls", "mulm"} -> (A(m) * B(m)) % Modulus
              [] op = "cisc" -> (A(m) * A(m) + A(m)) % Modulus
              [] op = "convint" -> A(m) % Modulus
              [] op \in {"convmodp", "asm_open", "movs"} -> A(m)]
Space(op) == IF op \in {"ldms", "stms", "ldmsi", "stmsi"} THEN "s" ELSE "ci"
ReadCells(w, op, at, n) == [m \in 1..n |-> Lookup(w[Space(op)], at + m - 1, 0)]
WriteCells(w, op, at, v) ==
    [w EXCEPT ![Space(op)] = [c \in at..(at + Len(v) - 1) |-> v[c - at + 1]] @@ @]
\* One instruction (or statement) with the values a of what it reads: the
\* world after it and what it computes.
Effect(w, op, a, imm, n) ==
    LET Outcome(v) == [w |-> w, v |-> v]
        Does(u) == [w |-> u, v |-> <<>>]
    IN  CASE op \in {"ldms", "ldmint"} -> Outcome(ReadCells(w, op, imm, n))
          [] op \in {"ldmsi", "ldminti"} -> Outcome(ReadCells(w, op, a[1][1], n))
          [] op \in {"stms", "stmint"} -> Does(WriteCells(w, op, imm, a[1]))
          [] op \in {"stmsi", "stminti"} -> Does(WriteCells(w, op, a[2][1], a[1]))
          [] op = "pushint" -> Does([w EXCEPT !.stack = Append(@, a[1][1])])
          [] op = "popint" -> [w |-> [w EXCEPT !.stack = Front(@)], v |-> <<Last(w.stack)>>]
          [] op = "print_int" -> Does([w EXCEPT !.out = Append(@, a[1][1])])
          [] op = "starg" -> Does([w EXCEPT !.arg = a[1][1]])
          [] op = "ldarg" -> Outcome(<<w.arg>>)
          [] op = "input" -> [w |-> [w EXCEPT !.input = @ + n], v |-> [m \in 1..n |-> Input(w.input + m - 1)]]
          [] OTHER -> [w |-> [w EXCEPT !.triple = @ + IF op \in {"muls", "cisc"} THEN n ELSE 0], v |-> Pure(op, a, imm, n)]

(***************************************************************************)
(* The program, run as it is written.  e: the values of variables.         *)
(***************************************************************************)
Meaning(program) ==
    LET RECURSIVE Run(_, _), While(_, _, _)
        Iterate(s, v, values, body) == Through(LAMBDA x, n: Run([x EXCEPT !.e = Put(@, v, <<n>>)], body), s, values)
        While(s, body, cond) == LET u == Run(s, body) IN IF u.e[cond] = <<0>> THEN u ELSE While(u, body, cond)
        Count(n) == [m \in 1..n |-> m - 1]
        Carry(s, x) ==
            LET V(m) == s.e[x[m]]
                Set(w, v) == [s EXCEPT !.w = w, !.e = Put(@, x[2], v)]
                Of(a, imm, n) == LET r == Effect(s.w, x[1], a, imm, n) IN Set(r.w, r.v)
                Do(a, imm) == [s EXCEPT !.w = Effect(@, x[1], a, imm, 1).w]
                \* the values of i a loop runs through
                Turns(v, stop, step) == [m \in 1..((Max({0, IF step > 0 THEN stop - v ELSE v - stop})
                                                      + (IF step > 0 THEN step ELSE -step) - 1)
                                                        \div (IF step > 0 THEN step ELSE -step)) |-> v + (m - 1) * step]
            IN  CASE x[1] \in {"ldint", "ldi", "ldsi", "ldms", "ldmint", "popint"} -> Of(<<>>, x[3], 1)
                  [] x[1] = "input" -> Of(<<>>, 0, x[3])
                  [] IsIntegerOp(x[1]) \/ x[1] \in {"adds", "muls", "mulm"} -> Of(<<V(3), V(4)>>, 0, Len(V(3)))
                  [] x[1] \in {"convint", "cisc", "ldmsi", "ldminti"} -> Of(<<V(3)>>, 0, Len(V(3)))
                  [] x[1] = "open" -> Set(s.w, V(3))
                  [] x[1] = "element" -> Set(s.w, <<V(3)[x[4] + 1]>>)
                  [] x[1] \in {"print_int", "pushint"} -> Do(<<V(2)>>, 0)
                  [] x[1] \in {"stms", "stmint"} -> Do(<<V(2)>>, x[3])
                  [] x[1] \in {"stmsi", "stminti"} -> Do(<<V(2), V(3)>>, 0)
                  [] x[1] = "break" -> s
                  [] x[1] = "if" -> IF s.e[x[2]] # <<0>> THEN Run(s, x[3]) ELSE s
                  [] x[1] = "ife" -> IF s.e[x[2]] # <<0>> THEN Run(s, x[3]) ELSE Run(s, x[4])
                  [] x[1] = "dowhile" -> While(s, x[2], x[3])
                  [] x[1] = "range" -> Iterate(s, x[2], Turns(x[3], x[4], x[5]), x[6])
                  [] x[1] = "upto" -> Iterate(s, x[2], Count(V(3)[1]), x[4])
                  [] x[1] = "parallel" -> Iterate(s, "i", Count(x[2]), x[4])
                  [] x[1] = "budget" -> Iterate(s, "i", Count(x[2]), x[4])
                  [] x[1] = "call" -> Run([s EXCEPT !.e = Put(@, "#arg", V(3))], x[4])
        Run(s, ss) == Through(Carry, s, ss)
    IN  Run([e |-> NoMap, w |-> World], program).w

(***************************************************************************)
(* The code, run by the virtual machine: registers by type and address.    *)
(* A merged instruction reads everything before it writes.                 *)
(***************************************************************************)
Communicates(op) == op \in {"asm_open", "muls", "input"}
Arity(op) == IF op \in {"adds", "muls", "mulm"} \/ IsIntegerOp(op) THEN 2
             ELSE IF op \in {"asm_open", "convmodp", "convint", "movs", "ldmsi", "ldminti"} THEN 1 ELSE 0
RunInstruction(t, addr, code) ==
    LET Cell(r, m) == <<Type(t, r), addr[r.b] + r.k + m - 1>>
        Value(regs, r) == [m \in 1..r.n |-> Lookup(regs, Cell(r, m), 0)]
        Store(regs, r, v) == Through(LAMBDA f, m: Put(f, Cell(r, m), v[m]), regs, [m \in 1..r.n |-> m])
        \* one group of arguments of a merged instruction after the other
        Groups(c, i) ==
            Through(LAMBDA x, g:
                        LET e == Effect(x.w, i.op, [m \in 1..Arity(i.op) |-> Value(c.regs, i.u[Arity(i.op) * (g - 1) + m])],
                                        i.imm, i.n)
                        IN  [w |-> e.w, regs |-> Store(x.regs, i.d[g], e.v)],
                     [w |-> c.w, regs |-> c.regs], [g \in DOMAIN i.d |-> g])
        Step(c, i) ==
            LET V(m) == Value(c.regs, i.u[m])
                next == [c EXCEPT !.pc = @ + 1]
                jump == [c EXCEPT !.pc = @ + 1 + i.imm]
                g == Groups(c, i)
            IN  CASE i.op = "jmp" -> jump
                  [] i.op = "jmpnz" -> IF V(1) # <<0>> THEN jump ELSE next
                  [] i.op = "jmpeqz" -> IF V(1) = <<0>> THEN jump ELSE next
                  [] i.op = "jmpi" -> [c EXCEPT !.pc = @ + 1 + V(1)[1]]
                  [] i.d = <<>> -> [next EXCEPT !.w = Effect(@, i.op, [m \in DOMAIN i.u |-> V(m)], i.imm, i.n).w]
                  [] OTHER -> [next EXCEPT !.regs = g.regs,
                                           !.w = [g.w EXCEPT !.round = @ + IF Communicates(i.op) THEN 1 ELSE 0]]
        RECURSIVE Run(_, _)
        Run(c, n) == IF n = 0 \/ c.pc \notin DOMAIN code THEN c ELSE Run(Step(c, code[c.pc]), n - 1)
    IN  Run([pc |-> 1, regs |-> NoMap, w |-> World], Steps)

-----------------------------------------------------------------------------
(***************************************************************************)
(* Block allocation in memory (BlockAllocator, Program.malloc and free).   *)
(***************************************************************************)
LogSize(n) == Max({k \in 0..10 : 2 ^ k <= n})
Push(free, addr, size) ==
    LET end == addr + size
        rest == [a \in DOMAIN free \ {end} |-> free[a]]
    IN  Put(rest, addr, size + Lookup(free, end, 0))
\* The same size first, then the same power of two, then the next ones; any
\* block of that class may be found first.
PopChoices(free, size) ==
    LET exact == {a \in DOMAIN free : free[a] = size}
        near == {a \in DOMAIN free : free[a] >= size /\ LogSize(free[a]) = LogSize(size)}
        larger == {a \in DOMAIN free : LogSize(free[a]) > LogSize(size)}
        least == {a \in larger : \A b \in larger : LogSize(free[a]) <= LogSize(free[b])}
    IN  IF exact # {} THEN exact ELSE IF near # {} THEN near ELSE least
Pop(free, size) ==
    LET fits == PopChoices(free, size)
        addr == Min(fits)
        rest == [a \in DOMAIN free \ {addr} |-> free[a]]
    IN  IF fits = {} THEN [addr |-> -1, free |-> free]
        ELSE [addr |-> addr,
              free |-> IF free[addr] = size THEN rest ELSE Put(rest, addr + size, free[addr] - size)]
Malloc(m, size) ==
    LET p == Pop(m.free, size)
        addr == IF p.addr = -1 THEN m.top ELSE p.addr
    IN  [m EXCEPT !.free = p.free, !.top = IF p.addr = -1 THEN @ + size ELSE @,
                  !.held = Append(@, <<addr, size>>)]
\* Free the n-th oldest block held.
Free(m, n) == [m EXCEPT !.free = Push(@, m.held[n][1], m.held[n][2]), !.held = RemoveAt(@, n)]
Memory(requests) ==
    Through(LAMBDA m, r: IF r > 0 THEN Malloc(m, r) ELSE IF -r \in DOMAIN m.held THEN Free(m, -r) ELSE m,
             [free |-> NoMap, held |-> <<>>, top |-> 0], requests)

(***************************************************************************)
(* map_reduce over threads: the base and the number of items of each.  For *)
(* a number of items known at run time only, each thread works it out.     *)
(***************************************************************************)
SlicesKnown(items, threads) ==
    LET rounds == items \div threads
        remainder == items % threads
    IN  [a \in {a \in 0..(threads - 1) : rounds > 0 \/ a < remainder} |->
            IF a < remainder THEN [base |-> (threads - remainder + a) * rounds + a, n |-> rounds + 1]
            ELSE [base |-> (a - remainder) * rounds, n |-> rounds]]
SlicesAtRunTime(items, threads) ==
    LET rounds == items \div threads
        overhang == items % threads
        base(t) == t * rounds
        inc(t) == IF base(t) \div rounds < overhang THEN 1 ELSE 0
    IN  [t \in 0..(threads - 1) |->
            [base |-> base(t) + (IF inc(t) = 1 THEN base(t) \div rounds ELSE overhang), n |-> rounds + inc(t)]]

-----------------------------------------------------------------------------
(***************************************************************************)
(* The programs tried.                                                     *)
(***************************************************************************)
\* Straight-line code: every sequence of some statements between a preamble
\* and a postamble that shows the result.
Preamble == << <<"ldint", "n", 2>>, <<"ldint", "a", 1>>, <<"ldint", "b", 2>>, <<"ldsi", "s", 3>>, <<"ldsi", "t", 5>>, <<"pushint", "b">>, <<"pushint", "a">>, <<"pushint", "b">> >>
Postamble == << <<"muls", "s", "s", "t">>, <<"open", "c", "s">>, <<"print_int", "c">>, <<"open", "c", "t">>,
                <<"print_int", "a">>, <<"print_int", "c">>, <<"print_int", "b">> >>
Rounds == { <<"muls", "t", "s", "t">>, <<"open", "a", "s">>, <<"input", "s", 1>>, <<"adds", "s", "s", "t">>, <<"cisc", "t", "s">>,
            <<"print_int", "a">> }
Cells == { <<"stms", "s", 1>>, <<"ldms", "t", 1>>, <<"stmsi", "t", "a">>, <<"ldmsi", "s", "a">>, <<"addint", "a", "a", "b">>,
           <<"open", "b", "t">> }
Stacks == { <<"pushint", "a">>, <<"popint", "b", 0>>, <<"open", "b", "s">>, <<"addint", "a", "a", "b">>, <<"muls", "s", "s", "t">> }
Vectors == { <<"input", "v", 2>>, <<"muls", "v", "v", "v">>, <<"element", "s", "v", 1>>, <<"cisc", "v", "v">>, <<"adds", "t", "t", "s">>,
             <<"stms", "v", 1>>, <<"ldms", "t", 2>> }
StraightLine == {Preamble \o m \o Postamble : m \in [1..4 -> Rounds] \cup [1..3 -> Cells] \cup [1..3 -> Stacks]}
                    \cup {Preamble \o << <<"input", "v", 2>> >> \o m \o Postamble : m \in [1..3 -> Vectors]}

\* Loops, conditions and functions.
Square == <<"muls", "s", "s", "s">>
SumStep == <<"addint", "a", "a", "i">>
Show == << <<"print_int", "a">>, <<"open", "c", "s">>, <<"print_int", "c">> >>
Deep == <<"range", "j", 0, 3, 1, << <<"if", "b", <<Square, <<"addint", "a", "a", "j">> >> >>, <<"ldint", "b", 1>> >> >>
Bodies == { <<SumStep>>, <<SumStep, Square>>, << <<"stmint", "i", 1>>, <<"ldmint", "b", 1>>, <<"addint", "a", "a", "b">>, <<"break">>, Square>>,
            << <<"ltc", "c", "i", "b">>, <<"if", "c", <<Square>> >>, SumStep>>,
            << <<"ltc", "c", "i", "b">>, <<"ife", "c", <<Square, SumStep>>, << <<"adds", "s", "s", "t">>, <<"adds", "s", "s", "t">> >> >> >>,
            <<Deep, SumStep>>,
            << <<"input", "t", 1>>, <<"muls", "t", "s", "t">>, <<"muls", "s", "s", "s">>, <<"adds", "s", "s", "t">> >> }
Loops(body) == { <<"range", "i", 0, 3, 1, body>>, <<"range", "i", 4, 0, -2, body>>, <<"range", "i", 2, 2, 1, body>>,
                 <<"upto", "i", "n", body>>, <<"parallel", 5, 2, body>>, <<"parallel", 2, 4, body>>,
                 <<"budget", 3, 4, body>>, <<"budget", 3, 100, body>>, <<"budget", 5, 12, body>> }
Structured == {Preamble \o <<loop>> \o Show : loop \in UNION {Loops(body) : body \in Bodies}}
    \cup {Preamble \o << <<"call", "f", "a", body>>, <<"addint", "a", "a", "b">>, <<"call", "f", "b", body>> >> \o Show
          : body \in { << <<"print_int", "#arg">> >>, << <<"stmint", "#arg", 2>>, <<"print_int", "#arg">>, <<"break">>, <<"print_int", "#arg">> >>,
                       << <<"if", "#arg", << <<"print_int", "#arg">> >> >> >> } }

Options == [merge : BOOLEAN, dce : BOOLEAN, strict : BOOLEAN, parallel : {0, 2}, cisc : {TRUE}]
Option(merge, dce, strict, parallel) == [merge |-> merge, dce |-> dce, strict |-> strict, parallel |-> parallel, cisc |-> TRUE]
Tried == {Option(TRUE, FALSE, FALSE, 0), Option(TRUE, TRUE, TRUE, 0), Option(TRUE, FALSE, TRUE, 3), Option(FALSE, TRUE, FALSE, 0)}
Requests == [1..6 -> {1, 2, 3, -1, -2}]
Programs == [kind : {"code"}, straight : {TRUE}, program : StraightLine, opts : Tried]
           \cup [kind : {"code"}, straight : {FALSE}, program : Structured, opts : Tried]
           \cup [kind : {"memory"}, requests : Requests]
           \cup [kind : {"threads"}, items : 1..9, threads : 1..4]

Compiled(program, opts) == Optimize(Trace(EmptyTape, program), opts)
Executed(c) == [compiled |-> c, run |-> RunInstruction(c.tape, c.alloc.addr, c.code)]
CompilationResult(j) ==
    CASE j.kind = "code" -> Executed(Compiled(j.program, j.opts))
      [] j.kind = "memory" -> Memory(j.requests)
      [] j.kind = "threads" -> [known |-> SlicesKnown(j.items, j.threads),
                                \* at run time, fewer items than threads divide by zero
                                runtime |-> IF j.items < j.threads THEN SlicesKnown(j.items, j.threads)
                                            ELSE SlicesAtRunTime(j.items, j.threads)]

CompilationInit == Called("compiler", Programs)
Compile == Computing("compiler") /\ Gives(CompilationResult(job))
Did(kind) == Ended("compiler") /\ job.kind = kind

(***************************************************************************)
(* The code does what the program says, whatever was merged, eliminated    *)
(* or allocated where.                                                     *)
(***************************************************************************)
SameResult ==
    Did("code") => LET is == out[1].run.w
                should == Meaning(job.program)
            IN  /\ out[1].run.pc = Len(out[1].compiled.code) + 1
                /\ is.out = should.out /\ is.stack = should.stack
                /\ \A a \in DOMAIN should.s : is.s[a] = should.s[a]

(***************************************************************************)
(* What the compiler tells the machine to have at hand, from the tree of   *)
(* scopes it walks, is enough for the run: as many triples, inputs and,    *)
(* when merging, rounds as used, and exactly as many without conditions and loops.       *)
(* (Counts by for_range with a step beyond one are excluded: it rounds the *)
(* count down.)                                                            *)
(***************************************************************************)
UsageCovers ==
    Did("code") => LET used == out[1].run.w
                req == out[1].compiled.req
            IN  /\ \A k \in {"triple", "input"} : used[k] <= req[k]
                /\ job.opts.merge => used.round <= req.round
                /\ job.straight => \A k \in {"triple", "input"} : used[k] = req[k]

(***************************************************************************)
(* Blocks of memory held and free never overlap, and fill what was taken:  *)
(* nothing is handed out twice, nothing is lost.                           *)
(***************************************************************************)
BlocksDisjoint ==
    Did("memory") =>
        LET m == out[1]
            blocks == Range(m.held) \cup {<<a, m.free[a]>> : a \in DOMAIN m.free}
            Extent(b) == b[1]..(b[1] + b[2] - 1)
        IN  /\ Cardinality(Range(m.held)) = Len(m.held)
            /\ \A b, c \in blocks : b # c => Extent(b) \cap Extent(c) = {}
            /\ UNION {Extent(b) : b \in blocks} = 0..(m.top - 1)

(***************************************************************************)
(* The threads of a map_reduce take every item once between them, whether  *)
(* the number of items is known when compiling or only when running.       *)
(***************************************************************************)
EveryItemOnce ==
    Did("threads") =>
        \A slices \in {out[1].known, out[1].runtime} :
            /\ SumFunction([t \in DOMAIN slices |-> slices[t].n]) = job.items
            /\ UNION {slices[t].base..(slices[t].base + slices[t].n - 1) : t \in DOMAIN slices} = 0..(job.items - 1)
=============================================================================
