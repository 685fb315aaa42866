------------------------------ MODULE Bytecode ------------------------------
(***************************************************************************)
(* An instruction on its way from the compiler to its execution: the       *)
(* compiler writes it as words (get_encoding), the virtual machine reads   *)
(* the words (parse), sizes the register files and the memory by it        *)
(* (compute_constants) and runs it.  The tables of the two sides are       *)
(* written twice, in Python and in C++, and nothing in the file says which *)
(* kind a word is: an operand more or less on one side shifts all that     *)
(* follows.                                                                *)
(*                                                                         *)
(* Every instruction is tried with several vector sizes, repetitions and   *)
(* integer operands, and with every register operand in turn at the        *)
(* highest address.                                                        *)
(***************************************************************************)
EXTENDS InstructionSet, Execution

CONSTANTS
    Sizes,       \* vector sizes
    Values,      \* values of integer operands
    Repeats      \* repetitions of the operands that repeat

VARIABLES
    phase,   \* "compile", "file", "program", "machine", "done" or "rejected"
    try,     \* the instruction and how it is used
    words,   \* the words of the bytecode file
    ins,     \* the parsed instruction
    limits   \* registers and memory allocated, by register file

bytecodeVars == <<phase, try, words, ins, limits>>

-----------------------------------------------------------------------------
(* Instances: GF(2^n) forms and operands.                                   *)

(* The formats of the GF(2^n) form.                                         *)
Reformat(f) ==
    CASE f = "s" -> "sg" [] f = "sw" -> "sgw" [] f = "c" -> "cg" [] f = "cw" -> "cgw"
      [] f = "i" -> "ig" [] OTHER -> f

GF2N_Instruction(i) ==
    [i EXCEPT !.op = "G" \o i.op, !.g = TRUE,
              !.head = [k \in DOMAIN i.head |-> Reformat(i.head[k])],
              !.rep = [k \in DOMAIN i.rep |-> Reformat(i.rep[k])]]

Written ==
    UNION {LoadStore, IndirectLoadStore, Moves, MachineInstructions, Additions, Products,
           BitwiseLogic, Immediates, Shifts, DataAccess, RandomData, Inputs, Printing,
           Sockets, FilesAndPrivateOutput, Integers_, ComparisonsAndJumps, Conversions,
           OpenAndMultiply, MatrixInstructions, BitLogic, BitDecompositions,
           BitConversions, BitInputOutput}

Instructions ==
    Written \cup {GF2N_Instruction(i) : i \in {w \in Written : w.deco \in {"g", "gv"}}}

CodeOf(i) ==
    LET named(n) == CHOOSE o \in CompilerOpcodes \cup CompilerBitOpcodes : o.name = n
        plain == CHOOSE w \in Written : "G" \o w.op = i.op
    IN  IF i.g THEN 256 + named(plain.op).code
        ELSE IF i.op = "GNOTC" THEN 256 + named("NOTC").code ELSE named(i.op).code

Registers == {"s", "sw", "c", "cw", "sg", "sgw", "cg", "cgw", "ci", "ciw", "sb", "sbw",
              "cb", "cbw"}

FileOf(f) ==
    CASE f \in {"s", "sw"} -> "Sp" [] f \in {"c", "cw"} -> "Cp"
      [] f \in {"sg", "sgw"} -> "S2" [] f \in {"cg", "cgw"} -> "C2"
      [] f \in {"ci", "ciw"} -> "Ci" [] f \in {"sb", "sbw"} -> "Sb"
      [] f \in {"cb", "cbw"} -> "Cb"

IsWritten(f) == f \in {"sw", "cw", "sgw", "cgw", "ciw", "sbw", "cbw"}

(* An operand before it has a register: its format and, if it is an         *)
(* integer, its value.  The repetitions use different integers.             *)
Num(v) == <<[f |-> "int", v |-> v]>>
Reg(f) == <<[f |-> f, v |-> 0]>>
Regs(f, n) == [k \in 1..n |-> [f |-> f, v |-> 0]]

(* The operands whose number depends on an integer among them: the groups   *)
(* of inputmixed, dotprods, trans, inputbvec and split.                     *)
Shaped(f, v) ==
    CASE f = "type" ->
           LET t == InputTypes[v % 3]
           IN  Num(v % 3) \o Regs("sw", t.dest) \o FlattenSeq([k \in 1..t.param |-> Num(v)])
      [] f = "length" -> Num(2 * v + 2)
      [] f = "outputs" -> Num(v)
      [] f = "bits" -> Num(v + 3)
      [] f = "two" -> Num(2)

(* The k-th of the repetitions.                                             *)
Group(i, k, v0) ==
    LET v == v0 + 2 * (k - 1)
        one(f) ==
            CASE f \in {"type", "length", "bits", "two"} -> Shaped(f, v)
              [] f \in {"int", "i", "ig"} -> Num(v)
              [] f = "p" -> Num(k - 1)
              [] f = "str" -> <<[f |-> "str", v |-> 0]>>
              [] i.op \in {"DOTPRODS", "GDOTPRODS"} /\ f \in {"s", "sg"} -> Regs(f, 2 * v)
              [] i.op = "INPUTBVEC" /\ f = "sbw" -> Regs(f, v)
              [] OTHER -> Reg(f)
    IN  FlattenSeq([j \in DOMAIN i.rep |-> one(i.rep[j])])

Args(t) ==
    LET i == t.i
        head == FlattenSeq([j \in DOMAIN i.head |->
                    CASE i.head[j] = "two" -> Num(2)
                      [] i.head[j] \in {"int", "i", "ig"} -> Num(t.v)
                      [] i.head[j] = "p" -> Num(0)
                      [] i.head[j] = "str" -> <<[f |-> "str", v |-> 0]>>
                      [] OTHER -> Reg(i.head[j])])
        \* trans: as many outputs as its first operand says, then the inputs
        tail == IF i.op = "TRANS"
                THEN Num(t.v) \o Regs("sbw", t.v) \o Regs("sb", IF t.reps = 1 THEN 1 ELSE Unit + 1)
                ELSE FlattenSeq([k \in 1..t.reps |-> Group(i, k, t.v)])
        all == IF i.rep = <<>> THEN head ELSE head \o tail
    IN  [k \in DOMAIN all |->
            [f |-> all[k].f,
             v |-> IF all[k].f \in Registers
                   THEN 10 * k + (IF k = t.top THEN 1000 ELSE 0) ELSE all[k].v]]

Vectorized(i) == i.deco \in {"gv", "v", "l"}

(* How an instruction is used.                                              *)
Tries ==
    UNION {{[i |-> i, size |-> s, reps |-> r, v |-> v, top |-> 0] :
               s \in IF Vectorized(i) THEN Sizes ELSE {1},
               r \in IF i.rep = <<>> THEN {1} ELSE Repeats,
               v \in IF {"int", "i", "type", "length", "outputs", "bits"}
                        \cap (Range(i.head) \cup Range(i.rep)) = {} /\ i.deco # "b"
                     THEN {1} ELSE Values} : i \in Instructions}

Tops(t) == {k \in DOMAIN Args(t) : Args(t)[k].f \in Registers}

-----------------------------------------------------------------------------
(* Steps.                                                                   *)

BytecodeInit ==
    /\ phase = "compile"
    /\ try \in Tries
    /\ words = <<>> /\ ins = <<>> /\ limits = <<>>

\* Mutant: the GF(2^n) form of a vector instruction is not a vector instruction.
OpcodeWordScalar(t) ==
    (IF t.i.deco \in {"l", "v"} /\ t.size # 1 THEN 1024 * t.size ELSE 0) + CodeOf(t.i)

(* get_encoding: the opcode with the vector size above it, the number of    *)
(* operands if it varies, the operands, a string as four words.             *)
OpcodeWord(t) ==
    (IF t.i.deco = "l" \/ (Vectorized(t.i) /\ t.size # 1) THEN 1024 * t.size ELSE 0)
    + CodeOf(t.i)

EncodingOf(t, a) ==
    LET words_(x) == IF x.f = "str" THEN <<1, 1, 1, 1>> ELSE <<x.v>>
    IN  <<OpcodeWord(t)>>
        \o (IF t.i.rep = <<>> THEN <<>> ELSE <<Len(a)>>)
        \o FlattenSeq([k \in DOMAIN a |-> words_(a[k])])
Encoding(t) == EncodingOf(t, Args(t))

Emit ==
    /\ phase = "compile"
    /\ \E top \in {0} \cup Tops(try) : try' = [try EXCEPT !.top = top]
    /\ words' = Encoding(try')
    /\ phase' = "file"
    /\ UNCHANGED <<ins, limits>>

Load ==
    /\ phase = "file"
    /\ ins' = Parse(words)
    /\ phase' = IF ins'.op = "invalid" THEN "rejected" ELSE "program"
    /\ UNCHANGED <<try, words, limits>>

ComputeConstants ==
    /\ phase = "program"
    /\ limits' = [f \in Files |-> [reg |-> get_max_reg(ins, f), mem |-> get_mem(ins, f)]]
    /\ phase' = "machine"
    /\ UNCHANGED <<try, words, ins>>

Execute ==
    /\ phase = "machine"
    /\ phase' = IF ins.op \in Unimplemented THEN "rejected" ELSE "done"
    /\ UNCHANGED <<try, words, ins, limits>>

BytecodeNext == Emit \/ Load \/ ComputeConstants \/ Execute

-----------------------------------------------------------------------------
(* What the compiler takes an instruction to do: the registers by the       *)
(* formats of its operands, the preprocessing by add_usage.                 *)

LastNumber(a, k) == a[Max({j \in 1..(k - 1) : a[j].f = "int"})].v

Length(t, a, k) ==
    LET bits == a[k].f \in {"sb", "sbw", "cb", "cbw"}
    IN  CASE t.i.op = "TRANS" ->
               Units(Cardinality({j \in DOMAIN a : a[j].f \in {"sb", "sbw"} \ {a[k].f}}))
          [] t.i.op \in {"MATMULS", "CONV2DS"} ->
               IF a[k].f = "s" /\ t.i.op = "CONV2DS" THEN t.v * t.v * t.v ELSE t.v * t.v
          [] t.i.op = "MATMULSM" -> IF a[k].f = "sw" THEN t.v * t.v ELSE t.v
          [] t.i.op \in {"MULRS", "GMULRS"} -> LastNumber(a, k)
          [] t.i.deco = "b" /\ t.i.op # "TRANS" ->
               IF bits THEN Units(LastNumber(a, k)) ELSE LastNumber(a, k)
          [] t.i.deco = "l" -> t.size
          [] t.i.deco \in {"v", "gv"} -> IF bits THEN Units(t.size) ELSE t.size
          [] OTHER -> 1

Declared(t, a) ==
    {[file |-> FileOf(a[k].f), addr |-> a[k].v, len |-> Length(t, a, k),
      w |-> IsWritten(a[k].f)] : k \in {j \in DOMAIN a : a[j].f \in Registers}}

(* add_usage.  Every s-th operand from the b-th, as in self.args[b::s].     *)
Slice(a, b, s) == {k \in DOMAIN a : k > b /\ (k - 1 - b) % s = 0}

add_usage(t, a, kind, who) ==
    LET op == t.i.op
        times(ops) == IF op \in WithG(ops) THEN t.size ELSE 0
        values(S) == SumOver(LAMBDA k : a[k].v, S)
        players(b, s) == t.size * Cardinality({k \in Slice(a, b, s) : a[k].v = who})
    IN
    CASE kind = "triple" ->
           CASE op \in WithG({"TRIPLE"}) -> t.size
             [] op \in WithG({"MULS"}) -> t.size * (Len(a) \div 3)
             [] op \in WithG({"MULRS"}) -> values(Slice(a, 0, 4))
             [] op \in WithG({"DOTPRODS"}) ->
                  t.size * t.size * SumOver(LAMBDA k : a[k].v \div 2,
                                            {k \in DOMAIN a : a[k].f = "int"})
             [] op \in {"MATMULS", "MATMULSM"} -> a[4].v * a[5].v * a[6].v
             [] op = "CONV2DS" -> a[4].v * a[5].v * a[8].v * a[9].v * a[12].v
             [] OTHER -> 0
      [] kind = "bit" -> times({"BIT"})
      [] kind = "square" -> times({"SQUARE"})
      [] kind = "inverse" -> times({"INV"})
      [] kind = "bittriple" -> times({"BITTRIPLE"})
      [] kind = "bitgf2ntriple" -> times({"BITGF2NTRIPLE"})
      [] kind = "dabit" -> times({"DABIT"})
      [] kind = "edabit" -> IF who = Len(a) - 1 THEN times({"EDABIT", "SEDABIT"}) ELSE 0
      [] kind = "custom" -> IF op \in WithG({"PREP"}) THEN 1 ELSE 0
      [] kind = "binary triple" ->
           IF op \in {"ANDS", "ANDRS"} THEN values(Slice(a, 0, 4)) ELSE 0
      [] kind = "binary bit" -> IF op = "BITB" THEN 1 ELSE 0
      [] kind = "binary input" ->
           CASE op = "INPUTB" ->
                  IF a[1].v = who THEN (Len(a) \div 4) * a[2].v ELSE 0
             [] op = "INPUTBVEC" ->
                  SumOver(LAMBDA k : a[k].v - 3,
                          {k \in Bases(a, [j \in DOMAIN a |-> a[j].v]) : a[k + 2].v = who})
             [] OTHER -> 0
      [] kind = "input" ->
           CASE op \in WithG({"INPUTMASK"}) -> IF a[2].v = who THEN t.size ELSE 0
             [] op \in WithG({"STARTPRIVATEOUTPUT"}) -> IF a[3].v = who THEN t.size ELSE 0
             [] op \in WithG({"INPUT"}) -> players(1, 2)
             [] op = "INPUTFIX" -> players(2, 3)
             [] op = "INPUTFLOAT" -> 4 * players(5, 6)
             [] op = "INPUTMIXED" ->
                  SumOver(LAMBDA k :
                            LET u == InputTypes[a[k].v]
                            IN  IF a[k + u.dest + u.param + 1].v = who
                                THEN u.dest * t.size ELSE 0,
                          Bases(a, [j \in DOMAIN a |-> InputTypes[a[j].v].dest + InputTypes[a[j].v].param + 2]))
             [] op \in WithG({"RAWINPUT"}) -> players(0, 2)
             [] OTHER -> 0

-----------------------------------------------------------------------------
(* Properties.                                                              *)

BytecodeTypeOK ==
    /\ phase \in {"compile", "file", "program", "machine", "done", "rejected"}
    /\ \A k \in DOMAIN words : words[k] \in Nat
    /\ phase \in {"machine", "done"} =>
          \A f \in Files : limits[f].reg \in Nat /\ limits[f].mem \in Nat

(* GF(2^n) forms the decorator of the compiler creates although the machine *)
(* has no such instruction: it takes gmodc and gmodci for gmulbitc and      *)
(* gmulbitm and rejects gshlc and gshrc.  No type of the compiler's library *)
(* has an operation that emits them.                                        *)
OnlyInCompiler == {"GMODC", "GMODCI", "GSHLC", "GSHRC"}

(* The machine reads every instruction the compiler writes as the same      *)
(* operation with the same vector size and takes exactly its words, so the  *)
(* next instruction starts where the compiler put it                        *)
(* (BaseInstruction::parse_operands against Instruction.get_encoding).      *)
InSync ==
    /\ phase = "rejected" => try.i.op \in OnlyInCompiler \cup Unimplemented
    /\ phase \in {"program", "machine", "done"} /\ try.i.op \notin OnlyInCompiler =>
          /\ ins.op = try.i.op
          /\ ins.size = try.size
          /\ ins.used = Len(words)

(* A vector read from a socket: the machine reads size messages into the    *)
(* first register of each operand instead of one into all.                  *)
ReadsFirstOnly == {"READSOCKETC", "READSOCKETS", "READSOCKETINT"}

(* The machine writes exactly the registers that the operand formats mark   *)
(* as written, in the same file and over the same length, and reads only    *)
(* registers that they mark as read.  The compiler orders, merges and       *)
(* eliminates instructions and reuses registers by these formats.           *)
AccessAgrees(made, said) ==
    /\ \/ try.i.op \in ReadsFirstOnly /\ try.size > 1
       \/ {a \in made : a.w} = {a \in said : a.w}
    /\ \A a \in made : ~a.w =>
          \E b \in said : /\ b.file = a.file
                          /\ b.addr <= a.addr
                          /\ a.addr + a.len <= b.addr + b.len
SameAccess ==
    phase = "done" /\ try.i.op \notin OnlyInCompiler =>
        AccessAgrees(Access(ins), Declared(try, Args(try)))

(* Instructions whose destinations get_max_reg leaves out or puts in        *)
(* another file.                                                            *)
NotCounted ==
    {"LDTN", "ACCEPTCLIENTCONNECTION", "READFILESHARE", "PUBINPUT", "READSOCKETC",
     "STOPPRIVATEOUTPUT", "GSTOPPRIVATEOUTPUT", "GBITDEC", "GBITCOM", "MULRS", "GMULRS",
     "DOTPRODS", "PREP", "GPREP", "TRANS", "GMULBITM"}

WithinLimits == \A a \in Access(ins) : a.w => a.addr + a.len <= limits[a.file].reg

(* The registers an instruction writes exist when it runs: the machine      *)
(* allocates as many as get_max_reg of the instructions says and accesses   *)
(* them unchecked; likewise direct memory (get_mem).                        *)
Allocated ==
    phase = "done" /\ try.i.op \notin OnlyInCompiler =>
        /\ ins.op \in NotCounted \/ WithinLimits
        /\ is_direct_memory_access(ins.op) =>
              \E f \in Files : ins.n + ins.size <= limits[f].mem

(* Usage the compiler declares is never below what the machine consumes, so *)
(* that a run with limited preprocessing gets enough and several tapes do   *)
(* not take each other's.  Two declarations fall short: a vector of custom  *)
(* preprocessing counts as one, and inputb counts the player and the bits   *)
(* of its first input for all.                                              *)
CountedOnce == {"PREP", "GPREP", "INPUTB"}

Kinds == {"triple", "bit", "square", "inverse", "bittriple", "bitgf2ntriple", "dabit",
          "edabit", "custom", "binary triple", "binary bit", "binary input", "input"}

UsageCovered ==
    phase = "done" /\ try.i.op \notin OnlyInCompiler \cup CountedOnce =>
        \A kind \in Kinds : \A who \in 0..7 :
            Consumed(ins, kind, who) <= add_usage(try, Args(try), kind, who)

=============================================================================
