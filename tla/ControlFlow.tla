---------------------------- MODULE ControlFlow ----------------------------
(***************************************************************************)
(* Tracing a program: the loops, conditions and functions of               *)
(* Compiler/library.py, and the basic blocks, scopes and requirement nodes *)
(* a tape (Compiler/program.py) builds up while they run.                  *)
(*                                                                         *)
(* A program is a sequence of statements.  env says which register a       *)
(* variable stands for now; assigning makes a new register, and what a     *)
(* loop body or a branch assigned is linked to the register before.        *)
(***************************************************************************)
EXTENDS TapeOptimizer

\* Loop variables are parameters of the body, not global variables.
Local(v) == v \in {"i", "j", "k", "#a", "#arg", "#b", "#c", "#j", "#l", "#n", "#o", "#r", "#s"}

NewBlock(scope, pool) == [ins |-> <<>>, exit |-> NoIns, to |-> 0, scope |-> scope, pool |-> pool,
                          prev |-> 0, sub |-> 0, rounds |-> 0, used |-> {}]
NewNode == [blocks |-> <<>>, children |-> <<>>]
EmptyTape == [regs |-> <<>>, dup |-> <<>>, split |-> {}, kept |-> {}, env |-> NoMap,
              blocks |-> <<NewBlock(0, 1)>>, at |-> 1, childs |-> <<>>,
              nodes |-> <<[NewNode EXCEPT !.blocks = <<1>>]>>, node |-> 1, mem |-> 4, funs |-> NoMap]

Add(t, i) == [t EXCEPT !.blocks[t.at].ins = Append(@, i)]
\* Set v to a new register that op computes from the registers us.
Define(t, v, op, type, n, us, imm) ==
    LET t1 == NewReg(t, type, n)
    IN  Add([t1 EXCEPT !.env = Put(@, v, Newest(t1))], Instr(op, <<Newest(t1)>>, us, imm, n))
StartBlock(t, scope) ==
    [t EXCEPT !.blocks = Append(@, NewBlock(scope, t.blocks[scope].pool)),
              !.at = Len(t.blocks) + 1, !.nodes[t.node].blocks = Append(@, Len(t.blocks) + 1)]
AddNode(t, child) ==
    [t EXCEPT !.nodes = Append(@, NewNode), !.childs[child].nodes = Append(@, Len(t.nodes) + 1),
              !.node = Len(t.nodes) + 1]
OpenScope(t, agg) ==
    LET c == Len(t.childs) + 1
        t1 == [t EXCEPT !.childs = Append(@, [agg |-> agg, nodes |-> <<>>]),
                        !.nodes[t.node].children = Append(@, <<"child", c>>)]
    IN  StartBlock(AddNode(t1, c), t.at)
CloseScope(t, scope, node) == StartBlock([t EXCEPT !.node = node], scope)
SetExit(t, b, i, to) ==
    [t EXCEPT !.blocks[b].exit = i, !.blocks[b].to = to, !.kept = @ \cup Range(i.u)]
Jump(op, us) == Instr(op, <<>>, us, 0, 1)

-----------------------------------------------------------------------------
\* Mutant: what a body assigns is not linked to what was there before.
RunAndLinkNothing(before, after) == after

\* _run_and_link, after the body has been traced.
RunAndLink(before, after) ==
    LET changed == {v \in DOMAIN before.env : ~Local(v) /\ after.env[v] # before.env[v]}
    IN  FoldSet(LAMBDA v, t: Link(t, after.env[v], before.env[v]), after, changed)

IfThen(t) == OpenScope(t, <<"max">>)
ElseThen(t, start, child) == StartBlock(AddNode(t, child), start)
EndIf(t, cond, start, exit, else, child, node) ==
    LET t1 == CloseScope(t, start, node)
    IN  IF else = 0 THEN [SetExit(t1, start, Jump("jmpeqz", <<cond>>), t1.at) EXCEPT !.childs[child].agg = <<"first">>]
        ELSE SetExit(SetExit(t1, start, Jump("jmpeqz", <<cond>>), else), exit, Jump("jmp", <<>>), t1.at)

\* The children of the current node that count a known loop.
Counted(t, n) == LET c == Last(t.nodes[t.node].children)[2] IN [t EXCEPT !.childs[c].agg = <<"times", n>>]
LoopCount(start, stop, step) == (stop - start) \div step
InRange(step, v, stop) == IF step > 0 THEN v < stop ELSE v > stop

-----------------------------------------------------------------------------
(***************************************************************************)
(* Statements: what tracing them adds to the tape.                         *)
(***************************************************************************)
RECURSIVE Statement(_, _), Copies(_, _, _, _, _)
Statements(t, ss) == Through(Statement, t, ss)

\* loop_body(i + k) for k = 0, 1, ...: a runtime index.
Copies(t, s, base, k, n) ==
    IF k = n THEN t
    ELSE LET t1 == Define(t, "k", "ldint", "ci", 1, <<>>, k)
             t2 == Define(t1, "i", "addint", "ci", 1, <<base, t1.env["k"]>>, 0)
         IN  Copies(Statements(t2, s), s, base, k + 1, n)
Constant(t, s, v) == Statements(Define(t, "i", "ldint", "ci", 1, <<>>, v), s)

If(t, cond, body, linked) ==
    LET c == t.env[cond]
        t1 == IfThen(t)
        t2 == Statements(t1, body)
        t3 == IF linked THEN RunAndLink(t1, t2) ELSE t2
    IN  EndIf(t3, c, t.at, t3.at, 0, Len(t.childs) + 1, t.node)
IfThenElse(t, cond, body, other) ==
    LET c == t.env[cond]
        child == Len(t.childs) + 1
        t1 == IfThen(t)
        t2 == RunAndLink(t1, Statements(t1, body))
        t3 == ElseThen(t2, t.at, child)
        t4 == RunAndLink(t3, Statements(t3, other))
    IN  EndIf(t4, c, t.at, t2.at, t3.at, child, t.node)
DoWhile(t, body, cond) ==
    LET t1 == OpenScope(t, <<"unknown">>)
        t2 == RunAndLink(t1, Statements(t1, body))
        t3 == SetExit(t2, t2.at, Jump("jmpnz", <<t2.env[cond]>>), t1.at)
    IN  CloseScope(t3, t.at, t.node)
\* while_loop over an integer: the next one is linked to this one.
WhileLoop(t, v, body, step, stop) ==
    DoWhile(t, body \o << <<"advance", v, step>>, <<"ldint", "#c", stop>>,
                          IF step > 0 THEN <<"ltc", "#c", v, "#c">> ELSE <<"ltc", "#c", "#c", v>> >>, "#c")
RangeLoop(t, v, start, stop, step, body) ==
    IF ~InRange(step, start, stop) THEN t
    ELSE Counted(WhileLoop(Define(t, v, "ldint", "ci", 1, <<>>, start), v, body, step, stop),
                 LoopCount(start, stop, step))
\* for_range up to a register: the condition is checked first.
RangeUpTo(t, v, stop, body) ==
    LET t1 == Define(t, v, "ldint", "ci", 1, <<>>, 0)
        t2 == Define(t1, "#c", "ltc", "ci", 1, <<t1.env[v], t1.env[stop]>>, 0)
        loop == <<"dowhile", body \o << <<"advance", v, 1>>, <<"ltc", "#c", v, stop>> >>, "#c">>
    IN  If(t2, "#c", <<loop>>, FALSE)

\* map_reduce_single with a fixed number of copies per turn.
Parallel(t, n, copies, body) ==
    LET rounds == IF copies < n THEN n \div copies ELSE 0
        t1 == RangeLoop(t, "#j", 0, rounds, 1, << <<"copies", "#j", copies, body>> >>)
    IN  Through(LAMBDA u, v: Constant(u, body, v), t1,
                 [m \in 1..(n - rounds * copies) |-> rounds * copies + m - 1])

\* map_reduce_single up to a budget of instructions per block.
Unroll(t, base, body, n, budget) ==
    LET Room(u, k) == k < n /\ (Len(u.blocks[u.at].ins) < budget \/ k = 0) /\ u.at = t.at
        RECURSIVE Turn(_, _)
        Turn(u, k) == IF Room(u, k)
                      THEN LET u1 == Define(u, "k", "ldint", "ci", 1, <<>>, k)
                               u2 == Define(u1, "i", "addint", "ci", 1, <<base, u1.env["k"]>>, 0)
                           IN  Turn(Statements(u2, body), k + 1)
                      ELSE [t |-> u, k |-> k]
    IN  Turn(t, 0)
MergeBlocks(t, parent, node) ==
    LET blocks == SubSeq(t.blocks, parent + 1, Len(t.blocks))
        used == UNION {Range(t.blocks[b].exit.u) : b \in parent..Len(t.blocks)}
        ins == FlattenSeq([m \in 1..(Len(blocks) + 1) |-> t.blocks[parent + m - 1].ins])
        t1 == [t EXCEPT !.kept = @ \ used, !.at = parent, !.blocks = SubSeq(@, 1, parent),
                        !.nodes[node].children = Front(@),
                        !.nodes[node].blocks = SelectSeq(@, LAMBDA b: b <= parent)]
        r == RegintOptimizer(t1, ins)
    IN  [r.t EXCEPT !.blocks[parent].ins = r.ins, !.blocks[parent].exit = NoIns, !.blocks[parent].to = 0]
\* The start of a round: #j counts what is done, #n is the step.
BelowLimit(t, step, n) ==
    Then(Define(t, "#s", "addint", "ci", 1, <<t.env["#j"], step>>, 0), LAMBDA u :
    Then(Define(u, "#l", "ldint", "ci", 1, <<>>, n), LAMBDA v :
         Define(v, "#c", "lec", "ci", 1, <<v.env["#s"], v.env["#l"]>>, 0)))
\* t is the tape before, start the one with the first condition, loop the
\* one in the loop and u the unrolled body with the number of copies.
EndBudget(t, start, loop, u, n) ==
    LET step == start.env["#n"]
        base == start.env["#j"]
        child == Len(start.childs) + 1
        inner == t.at + 1
    IN  Then(Define(u.t, "k", "ldint", "ci", 1, <<>>, u.k), LAMBDA a :
        Then(Define(a, "#j", "addint", "ci", 1, <<base, a.env["k"]>>, 0), LAMBDA b :
        Then(BelowLimit(RunAndLink(loop, Link(b, b.env["#j"], base)), step, n), LAMBDA c :
        Then(SetExit(c, c.at, Jump("jmpnz", <<c.env["#c"]>>), loop.at), LAMBDA d :
        Then(CloseScope(d, inner, loop.childs[child].nodes[1]), LAMBDA e :
             EndIf(e, start.env["#c"], t.at, e.at, 0, child, t.node))))))
Rest(t, start, u, n, body, done) ==
    LET child == Len(start.childs) + 1
        rounds == n \div u.k
        whole == [done EXCEPT !.blocks[t.at].ins[Len(t.blocks[t.at].ins) + 1].imm = u.k]
        looped == IF rounds = 1 /\ Len(done.blocks) = t.at + 4 THEN MergeBlocks(whole, t.at, t.node)
                  ELSE [whole EXCEPT !.childs[child + 1].agg = <<"times", rounds>>]
    IN  Through(LAMBDA w, v: Constant(w, body, v), looped,
                [m \in 1..(n - rounds * u.k) |-> rounds * u.k + m - 1])
Budget(t, n, budget, body) ==
    IF n = 0 THEN t
    ELSE Then(Define(Define(t, "#n", "ldint", "ci", 1, <<>>, 0), "#j", "ldint", "ci", 1, <<>>, 0), LAMBDA s :
         Then(BelowLimit(s, s.env["#n"], n), LAMBDA start :
         Then(OpenScope(IfThen(start), <<"unknown">>), LAMBDA loop :
         Then(Unroll(loop, s.env["#j"], body, n, budget), LAMBDA u :
              Rest(t, start, u, n, body, EndBudget(t, start, loop, u, n))))))

\* FunctionBlock: the body is traced at the first call and jumped over;
\* a call stores its argument and where to come back to.
FirstCall(t, f, body) ==
    Then(OpenScope(t, <<"first">>), LAMBDA s :
    Then([s EXCEPT !.nodes[t.node].children = Front(@), !.blocks[s.at].pool = -s.at], LAMBDA own :
    Then(Define(own, "#b", "ldarg", "ci", 1, <<>>, 0), LAMBDA a :
    Then(Define(a, "#a", "ldminti", "ci", 1, <<a.env["#b"]>>, 0), LAMBDA b :
    Then(Define(b, "#arg", "ldminti", "ci", 1, <<b.env["#a"]>>, 0), LAMBDA c :
    Then(Statements(c, body), LAMBDA d :
    Then(Define([d EXCEPT !.mem = @ + 1], "#r", "ldmint", "ci", 1, <<>>, d.mem), LAMBDA e :
    Then(SetExit(e, e.at, Jump("jmpi", <<e.env["#r"]>>), 0), LAMBDA last :
    Then(CloseScope(last, t.at, t.node), LAMBDA done :
         [SetExit(done, t.at, Jump("jmp", <<>>), done.at) EXCEPT
             !.funs = Put(@, f, [block |-> s.at, last |-> last.at, node |-> s.node, cell |-> d.mem])])))))))))
StoreAt(t, v, at) == Add(t, Instr("stmint", <<>>, <<v>>, at, 1))
Returned(t, caller, fun, old) ==
    Then(Define(t, "#r", "ldret", "ci", 1, <<>>, 0), LAMBDA a :
    Then(StartBlock(StoreAt(a, a.env["#r"], fun.cell), old), LAMBDA b :
         [b EXCEPT !.blocks[b.at].prev = old, !.blocks[b.at].sub = fun.last,
                   !.nodes[caller].children = Append(@, <<"node", fun.node>>)]))
Call(t, f, arg) ==
    LET fun == t.funs[f]
    IN  Then(Define([t EXCEPT !.mem = @ + 2], "#b", "ldint", "ci", 1, <<>>, t.mem + 1), LAMBDA a :
        Then(StoreAt(StoreAt(a, a.env["#b"], t.mem), t.env[arg], t.mem + 1), LAMBDA b :
        Then(Define(b, "#b", "ldint", "ci", 1, <<>>, t.mem), LAMBDA c :
        Then(Add(c, Instr("starg", <<>>, <<c.env["#b"]>>, 0, 1)), LAMBDA d :
             Returned(SetExit(d, d.at, Jump("jmp", <<>>), fun.block), t.node, fun, d.at)))))

Statement(t, s) ==
    LET R(m) == t.env[s[m]]
        Two(op, type) == Define(t, s[2], op, type, R(3).n, <<R(3), R(4)>>, 0)
        One(op, type) == Define(t, s[2], op, type, R(3).n, <<R(3)>>, 0)
        Fresh(op, type) == Define(t, s[2], op, type, 1, <<>>, s[3])
    IN  CASE s[1] \in {"ldint", "ldmint", "popint"} -> Fresh(s[1], "ci")
          [] s[1] = "ldi" -> Fresh(s[1], "c")
          [] s[1] \in {"ldsi", "ldms"} -> Fresh(s[1], "s")
          [] s[1] = "input" -> Define(t, s[2], "input", "s", s[3], <<>>, 0)
          [] IsIntegerOp(s[1]) -> Two(s[1], "ci")
          [] s[1] \in {"adds", "muls", "mulm"} -> Two(s[1], "s")
          [] s[1] = "convint" -> One(s[1], "c")
          [] s[1] = "ldmsi" -> One(s[1], "s")
          [] s[1] = "ldminti" -> One(s[1], "ci")
          [] s[1] = "cisc" -> One(s[1], "s")
          [] s[1] = "open" -> LET u == Define(t, "#o", "asm_open", "c", R(3).n, <<R(3)>>, 0)
                              IN  Define(u, s[2], "convmodp", "ci", R(3).n, <<u.env["#o"]>>, 0)
          [] s[1] = "element" -> [t EXCEPT !.env = Put(@, s[2], Register(R(3).b, s[4], 1)), !.split = @ \cup {R(3).b}]
          [] s[1] \in {"print_int", "pushint"} -> Add(t, Instr(s[1], <<>>, <<R(2)>>, 0, 1))
          [] s[1] \in {"stms", "stmint"} -> Add(t, Instr(s[1], <<>>, <<R(2)>>, s[3], R(2).n))
          [] s[1] \in {"stmsi", "stminti"} -> Add(t, Instr(s[1], <<>>, <<R(2), R(3)>>, 0, 1))
          [] s[1] = "advance" ->
                LET u == Define(t, "#s", "ldint", "ci", 1, <<>>, s[3])
                    v == Define(u, s[2], "addint", "ci", 1, <<R(2), u.env["#s"]>>, 0)
                IN  Link(v, v.env[s[2]], R(2))
          [] s[1] = "copies" ->
                LET u == Define(t, "k", "ldint", "ci", 1, <<>>, s[3])
                    v == Define(u, "#b", "mulint", "ci", 1, <<R(2), u.env["k"]>>, 0)
                IN  Copies(v, s[4], v.env["#b"], 0, s[3])
          [] s[1] = "break" -> StartBlock(t, t.at)
          [] s[1] = "if" -> If(t, s[2], s[3], TRUE)
          [] s[1] = "ife" -> IfThenElse(t, s[2], s[3], s[4])
          [] s[1] = "dowhile" -> DoWhile(t, s[2], s[3])
          [] s[1] = "range" -> RangeLoop(t, s[2], s[3], s[4], s[5], s[6])
          [] s[1] = "upto" -> RangeUpTo(t, s[2], s[3], s[4])
          [] s[1] = "parallel" -> Parallel(t, s[2], s[3], s[4])
          [] s[1] = "budget" -> Budget(t, s[2], s[3], s[4])
          [] s[1] = "call" ->
                Call(IF s[2] \in DOMAIN t.funs THEN t ELSE FirstCall(t, s[2], s[4]), s[2], s[3])

Trace(t0, program) == Statements(t0, program)
=============================================================================
