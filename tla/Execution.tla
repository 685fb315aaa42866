----------------------------- MODULE Execution -----------------------------
(***************************************************************************)
(* What the virtual machine does with a parsed instruction: the registers  *)
(* and the memory it makes the machine allocate before a run, and then the *)
(* registers it reads and writes and the preprocessing it consumes.        *)
(*                                                                         *)
(* Register files: "Sp" and "Cp" secret and clear field elements, "S2" and *)
(* "C2" the same for GF(2^n), "Ci" integers, "Sb" and "Cb" secret and      *)
(* clear bits.  An access is a range of a file, read or written.           *)
(***************************************************************************)
EXTENDS VirtualMachine, FiniteSets, FiniteSetsExt

Files == {"Sp", "Cp", "S2", "C2", "Ci", "Sb", "Cb"}

R(file, addr, len) == {[file |-> file, addr |-> addr, len |-> len, w |-> FALSE]}
W(file, addr, len) == {[file |-> file, addr |-> addr, len |-> len, w |-> TRUE]}

(* The groups of k variable operands, and the positions of groups that give *)
(* their own length.                                                        *)
Tuples(s, k) == {SubSeq(s, k * i + 1, k * i + k) : i \in 0..((Len(s) \div k) - 1)}

Bases(s, length) ==
    LET from[i \in 1..(Len(s) + 1)] ==
            IF i > Len(s) THEN {} ELSE {i} \cup from[i + length[i]]
    IN  from[1]

IsGF2n(code) == (code \div 256) % 2 = 1

-----------------------------------------------------------------------------
(* Allocation.  get_reg_type: the file an instruction is taken to write.    *)

IntegerWriters ==
    {"LDMINT", "STMINT", "LDMINTI", "STMINTI", "PUSHINT", "POPINT", "MOVINT",
     "READSOCKETINT", "WRITESOCKETINT", "LDARG", "LDINT", "INCINT", "SHUFFLE",
     "CONVMODP", "GCONVGF2N", "RAND", "NPLAYERS", "THRESHOLD", "PLAYERID",
     "CONVCBIT", "CONVCBITVEC"}

ClearWriters ==
    {"LDI", "LDMC", "STMC", "LDMCI", "STMCI", "MOVC", "ADDC", "ADDCI", "SUBC", "SUBCI",
     "SUBCFI", "MULC", "MULCI", "DIVC", "DIVCI", "MODC", "MODCI", "LEGENDREC",
     "DIGESTC", "INV2M", "OPEN", "ANDC", "XORC", "ORC", "ANDCI", "XORCI", "ORCI",
     "NOTC", "SHLC", "SHRC", "SHLCI", "SHRCI", "CONVINT"}

get_reg_type(i) ==
    LET class == ((i.code \div 16) % 4) + 4 * ((i.code \div 128) % 2)
                 + 8 * ((i.code \div 512) % 2)       \* opcode & 0x2B0
        plain == OperationOf(i.code - 256)
    IN  CASE class = 8 -> "Sb"                       \* SECRET_WRITE
          [] class = 9 -> "Cb"                       \* CLEAR_WRITE
          [] i.op \in IntegerWriters -> "Ci"
          [] i.op \in {"PREP", "GPREP", "USE_PREP", "GUSE_PREP", "USE_EDABIT",
                       "RUN_TAPE"} -> "none"
          [] i.op \in ClearWriters -> "Cp"
          [] OTHER -> IF IsGF2n(i.code)
                      THEN IF plain \in ClearWriters THEN "C2" ELSE "S2"
                      ELSE IF i.code \div 16 = 9 THEN "Ci" ELSE "Sp"

(* The largest end of the destinations found every skip operands, from      *)
(* offset, each as long as the bits given at length say (or of one length). *)
LargestEvery(i, skip, offset, length) ==
    Max({0} \cup {i.start[j] + length[j] :
                     j \in {k \in DOMAIN i.start : (k - 1 - offset) % skip = 0
                                                   /\ k > offset}})

LargestOfAll(i, size) ==
    Max({i.start[j] : j \in DOMAIN i.start} \cup {i.r[j] : j \in 0..3}) + size

get_max_reg(i, file) ==
    LET units(bits) == DivCeil(bits, Unit)
    IN  CASE i.op = "DABIT" ->
               IF file = "Sb" THEN i.r[1] + i.size
               ELSE IF file = "Sp" THEN i.r[0] + i.size ELSE 0
          [] i.op \in {"EDABIT", "SEDABIT"} ->
               IF file = "Sb" THEN LargestEvery(i, 1, 0, [j \in DOMAIN i.start |-> i.size])
               ELSE IF file = "Sp" THEN i.r[0] + i.size ELSE 0
          [] i.op = "INPUTMASKREG" ->
               IF file = "Sp" THEN i.r[0] + i.size
               ELSE IF file = "Cp" THEN i.r[1] + i.size ELSE 0
          [] i.op \notin {"DABIT", "EDABIT", "SEDABIT", "INPUTMASKREG"}
             /\ get_reg_type(i) # file -> 0
          [] OTHER ->
             CASE i.op = "DOTPRODS" ->
                    Max({0} \cup {i.start[b] : b \in Bases(i.start, i.start)})
               [] i.op \in {"MATMULS", "MATMULSM"} -> i.r[0] + i.start[1] * i.start[3]
               [] i.op = "CONV2DS" -> i.r[0] + i.start[1] * i.start[2]
               [] i.op = "OPEN" -> LargestEvery(i, 2, 0, [j \in DOMAIN i.start |-> i.size])
               [] i.op \in {"LDMSD", "LDMSDI"} ->
                    LargestEvery(i, 3, 0, [j \in DOMAIN i.start |-> i.size])
               [] i.op \in {"STMSD", "STMSDI"} ->
                    LargestEvery(i, 2, 0, [j \in DOMAIN i.start |-> i.size])
               [] i.op \in {"ANDRS", "XORS", "ANDS"} ->
                    LargestEvery(i, 4, 1, [j \in DOMAIN i.start |-> units(i.start[j - 1])])
               [] i.op = "INPUTB" ->
                    LargestEvery(i, 4, 3, [j \in DOMAIN i.start |-> units(i.start[j - 2])])
               [] i.op = "INPUTBVEC" ->
                    Max({0} \cup {i.start[k] : k \in UNION {(b + 3)..(b + i.start[b] - 1) :
                            b \in Bases(i.start, i.start)}}) + 1
               [] i.op \in {"ANDM", "NOTS", "CONVCBIT2S"} -> LargestOfAll(i, units(i.n))
               [] i.op = "CONVCINTVEC" -> LargestOfAll(i, units(i.size))
               [] i.op = "CONVCBITVEC" -> LargestOfAll(i, i.n)
               [] i.op = "REVEAL" -> LargestEvery(i, 3, 1, [j \in DOMAIN i.start |-> units(i.start[j - 1])])
               [] i.op = "SPLIT" -> LargestEvery(i, 1, 0, [j \in DOMAIN i.start |-> units(i.size)])
               [] OTHER -> LargestOfAll(i, i.size)

is_direct_memory_access(op) ==
    op \in WithG({"LDMS", "STMS", "LDMC", "STMC"})
           \cup {"LDMINT", "STMINT", "LDMSB", "STMSB", "LDMCB", "STMCB"}

get_mem(i, file) ==
    IF get_reg_type(i) = file /\ is_direct_memory_access(i.op) THEN i.n + i.size ELSE 0

-----------------------------------------------------------------------------
(* Register operands of the instructions that work element by element: the  *)
(* i-th file is that of r[i], with "w" if it is written.  The GF(2^n)       *)
(* instructions do the same in the files of GF(2^n).                        *)

Element(files, ops) == [files |-> files, ops |-> ops]

GF2nFile(f) ==
    CASE f = "Sp" -> "S2" [] f = "Spw" -> "S2w" [] f = "Cp" -> "C2" [] f = "Cpw" -> "C2w"
      [] OTHER -> f

InGF2n(table) ==
    {Element([j \in DOMAIN e.files |-> GF2nFile(e.files[j])], {"G" \o o : o \in e.ops}) :
        e \in table}

SharedElements ==
    { Element(<<"Spw">>, {"LDSI", "LDMS", "BIT"}), Element(<<"Sp">>, {"STMS"}),
      Element(<<"Spw", "Ci">>, {"LDMSI"}), Element(<<"Sp", "Ci">>, {"STMSI"}),
      Element(<<"Spw", "Sp">>, {"MOVS", "ADDSI", "SUBSI", "SUBSFI", "MULSI"}),
      Element(<<"Spw", "Sp", "Sp">>, {"ADDS", "SUBS"}),
      Element(<<"Spw", "Sp", "Cp">>, {"ADDM", "SUBML", "MULM"}),
      Element(<<"Spw", "Cp", "Sp">>, {"SUBMR"}),
      Element(<<"Spw", "Spw", "Spw">>, {"TRIPLE"}),
      Element(<<"Cpw", "Ci">>, {"CONVINT"}) }

ClearElements ==
    { Element(<<"Cpw">>, {"LDI"}), Element(<<"Spw">>, {"RANDOMFULLS"}),
      Element(<<"Cpw", "Cp">>, {"ADDCI", "SUBCI", "SUBCFI", "MULCI", "ANDCI", "XORCI",
                                "ORCI", "SHLCI", "SHRCI"}),
      Element(<<"Cpw", "Cp", "Cp">>, {"ADDC", "SUBC", "MULC", "ANDC", "XORC", "ORC",
                                      "SHLC", "SHRC"}) }

RegintElements ==
    { Element(<<"Ciw">>, {"LDMINT", "POPINT", "LDTN", "LDARG", "LDINT"}),
      Element(<<"Ci">>, {"STMINT"}),
      Element(<<"Ciw", "Ci">>, {"LDMINTI", "MOVINT", "EQZC", "LTZC", "RAND", "SHUFFLE"}),
      Element(<<"Ci", "Ci">>, {"STMINTI"}),
      Element(<<"Ciw", "Ci", "Ci">>, {"ADDINT", "SUBINT", "MULINT", "DIVINT", "LTC",
                                      "GTC", "EQC"}) }

ClearGF2nElements ==
    { Element(<<"C2w">>, {"GLDI", "GLDMC"}),
      Element(<<"C2">>, {"GSTMC", "GPRINTREG", "GPRINTREGPLAIN", "GRAWOUTPUT"}),
      Element(<<"C2w", "Ci">>, {"GLDMCI"}), Element(<<"C2", "Ci">>, {"GSTMCI"}),
      Element(<<"C2w", "C2">>, {"GMOVC", "GADDCI", "GSUBCI", "GSUBCFI", "GMULCI",
                                "GANDCI", "GXORCI", "GORCI", "GNOTC", "GSHLCI",
                                "GSHRCI"}),
      Element(<<"C2w", "C2", "C2">>, {"GADDC", "GSUBC", "GMULC", "GANDC", "GXORC",
                                      "GORC"}),
      Element(<<"Ciw", "C2">>, {"GCONVGF2N"}) }

(* The cases of execute that go on to the next registers after each element.*)
ExecuteElements ==
    { Element(<<"Ciw", "Cp">>, {"CONVMODP"}), Element(<<"Cpw">>, {"LDMC", "INV2M", "PUBINPUT"}),
      Element(<<"Cpw", "Ci">>, {"LDMCI"}), Element(<<"Cp", "Ci">>, {"STMCI"}),
      Element(<<"Cp">>, {"STMC", "PRINTREG", "PRINTREGPLAIN", "CONDPRINTSTR", "RAWOUTPUT"}),
      Element(<<"Cpw", "Cp">>, {"MOVC", "LEGENDREC", "DIGESTC", "DIVCI", "MODCI", "NOTC",
                                "STOPPRIVATEOUTPUT"}),
      Element(<<"Cpw", "Cp", "Cp">>, {"DIVC", "MODC"}),
      Element(<<"C2w", "C2", "C2">>, {"GDIVC", "GMULBITC"}),
      Element(<<"C2w", "C2">>, {"GDIVCI", "GSTOPPRIVATEOUTPUT"}),
      Element(<<"S2w", "S2", "C2">>, {"GMULBITM"}),
      Element(<<"S2w", "S2w", "S2w">>, {"GBITTRIPLE", "GBITGF2NTRIPLE"}),
      Element(<<"Spw", "Spw">>, {"SQUARE", "INV"}),
      Element(<<"S2w", "S2w">>, {"GSQUARE", "GINV"}),
      Element(<<"Spw">>, {"RANDOMS", "INPUTMASK"}), Element(<<"S2w">>, {"GINPUTMASK"}),
      Element(<<"Spw", "Cpw", "Ci">>, {"INPUTMASKREG"}),
      Element(<<"Spw", "Sp">>, {"SHRSI", "STARTPRIVATEOUTPUT"}),
      Element(<<"S2w", "S2">>, {"GSTARTPRIVATEOUTPUT"}),
      Element(<<"Ci">>, {"JMPI", "JMPNZ", "JMPEQZ", "PRINTINT"}),
      Element(<<"Cp", "Cp", "Cp">>, {"CONDPRINTPLAIN"}),
      Element(<<"Ciw">>, {"NPLAYERS", "THRESHOLD", "PLAYERID", "ACCEPTCLIENTCONNECTION"}) }

(* Binary registers: one register, or as many as the size in the opcode.    *)
BinaryElements ==
    { Element(<<"Cbw", "Cb", "Cb">>, {"XORCB", "ADDCB"}),
      Element(<<"Cbw", "Cb">>, {"XORCBI", "ADDCBI", "MULCBI", "SHRCBI", "SHLCBI"}),
      Element(<<"Sbw">>, {"LDBITS", "LDMSB", "BITB"}), Element(<<"Sb">>, {"STMSB"}),
      Element(<<"Cbw">>, {"LDMCB"}),
      Element(<<"Cb">>, {"STMCB", "PRINTREGB", "PRINTREGPLAINB", "CONDPRINTSTRB"}),
      Element(<<"Sbw", "Sb">>, {"MOVSB"}),
      Element(<<"Sbw", "Ci">>, {"CONVSINT"}), Element(<<"Cbw", "Ci">>, {"CONVCINT"}),
      Element(<<"Ciw", "Cb">>, {"CONVCBIT"}) }

Elements ==
    SharedElements \cup InGF2n(SharedElements) \cup ClearElements \cup RegintElements
    \cup ClearGF2nElements \cup ExecuteElements \cup BinaryElements

Plain(f) == [Sp |-> "Sp", Spw |-> "Sp", Cp |-> "Cp", Cpw |-> "Cp", S2 |-> "S2",
             S2w |-> "S2", C2 |-> "C2", C2w |-> "C2", Ci |-> "Ci", Ciw |-> "Ci",
             Sb |-> "Sb", Sbw |-> "Sb", Cb |-> "Cb", Cbw |-> "Cb"][f]

ElementAccess(i) ==
    LET e == CHOOSE x \in Elements : i.op \in x.ops
    IN  {[file |-> Plain(e.files[j]), addr |-> i.r[j - 1], len |-> i.size,
          w |-> e.files[j] # Plain(e.files[j])] : j \in DOMAIN e.files}

-----------------------------------------------------------------------------
(* The instructions with code of their own, by the function that runs them. *)

POpen(i, S, C) ==
    UNION {W(C, t[1], i.size) \cup R(S, t[2], i.size) : t \in Tuples(i.start, 2)}

muls(i, S) ==
    UNION {W(S, t[1], i.size) \cup R(S, t[2], i.size) \cup R(S, t[3], i.size) :
              t \in Tuples(i.start, 3)}

mulrs(i, S) ==
    UNION {W(S, t[2], t[1]) \cup R(S, t[3], t[1]) \cup R(S, t[4], 1) :
              t \in Tuples(i.start, 4)}

DotProducts(i) == Bases(i.start, i.start)

dotprods(i, S) ==
    UNION {W(S, i.start[b + 1], i.size)
           \cup UNION {R(S, i.start[k], i.size) : k \in (b + 2)..(b + i.start[b] - 1)} :
              b \in DotProducts(i)}

matmuls(i) ==
    LET d == i.start
    IN  W("Sp", i.r[0], d[1] * d[3]) \cup R("Sp", i.r[1], d[1] * d[2])
        \cup R("Sp", i.r[2], d[2] * d[3])

matmulsm(i) ==
    LET d == i.start
    IN  W("Sp", i.r[0], d[1] * d[3]) \cup R("Ci", i.r[1], 1) \cup R("Ci", i.r[2], 1)
        \cup R("Ci", d[4], d[1]) \cup R("Ci", d[7], d[3])
        \cup R("Ci", d[5], d[2]) \cup R("Ci", d[6], d[2])

(* The input elements and the weights under the window of each output.      *)
ConvolutionTaps(d) ==
    {<<oy, ox, fy, fx>> \in (0..(d[1] - 1)) \X (0..(d[2] - 1)) \X (0..(d[5] - 1))
                            \X (0..(d[6] - 1)) :
        /\ oy * d[7] - d[10] + fy \in 0..(d[3] - 1)
        /\ ox * d[8] - d[11] + fx \in 0..(d[4] - 1)}

conv2ds(i) ==
    LET d == i.start
    IN  W("Sp", i.r[0], d[1] * d[2])
        \cup UNION {R("Sp", i.r[1] + ((t[1] * d[7] - d[10] + t[3]) * d[4]
                                       + t[2] * d[8] - d[11] + t[4]) * d[9], d[9])
                     \cup R("Sp", i.r[2] + (t[3] * d[6] + t[4]) * d[9], d[9]) :
                        t \in ConvolutionTaps(d)}

trunc_pr(i) ==
    UNION {W("Sp", t[1], i.size) \cup R("Sp", t[2], i.size) : t \in Tuples(i.start, 4)}

(* Inputs: destinations and parameters of the types, as in the compiler's   *)
(* table, then the player.                                                  *)
InputFormat == [IntInput   |-> [dest |-> 1, param |-> 0],
                FixInput   |-> [dest |-> 1, param |-> 1],
                FloatInput |-> [dest |-> 4, param |-> 1]]

TypeOfInput(t) == InputFormat[<<"IntInput", "FixInput", "FloatInput">>[t + 1]]

input(i, U, S) ==
    UNION {UNION {W(S, t[k], i.size) : k \in 1..U.dest} :
              t \in Tuples(i.start, U.dest + U.param + 1)}

MixedInputs(i) ==
    Bases(i.start, [k \in DOMAIN i.start |-> TypeOfInput(i.start[k]).dest + TypeOfInput(i.start[k]).param + 2])

input_mixed(i, player_from_reg) ==
    UNION {UNION {W("Sp", i.start[b + k], i.size) : k \in 1..TypeOfInput(i.start[b]).dest}
           \cup IF player_from_reg
                THEN R("Ci", i.start[b + TypeOfInput(i.start[b]).dest
                                       + TypeOfInput(i.start[b]).param + 1], 1)
                ELSE {} : b \in MixedInputs(i)}

raw_input(i, S) == UNION {W(S, t[2], i.size) : t \in Tuples(i.start, 2)}

(* Sockets: the client's handle is read again for every element, the        *)
(* registers stay the same.                                                 *)
read_socket(i, file) ==
    R("Ci", i.r[0], i.size) \cup UNION {W(file, i.start[k], 1) : k \in DOMAIN i.start}

write_socket(i, file) ==
    R("Ci", i.r[0], i.size) \cup UNION {R(file, i.start[k], 1) : k \in DOMAIN i.start}

FileAccess(i) ==
    IF i.op = "READFILESHARE"
    THEN R("Ci", i.r[0], 1) \cup W("Ci", i.r[1], 1)
         \cup UNION {W("Sp", i.start[k], 1) : k \in DOMAIN i.start}
    ELSE UNION {R("Sp", i.start[k], 1) : k \in DOMAIN i.start}

Integers_and_GF2n_bits(i) ==
    LET file == IF i.op = "BITDECINT" THEN "Ci" ELSE "C2"
        bits(Access(_, _, _)) == UNION {Access(file, i.start[k], i.size) : k \in DOMAIN i.start}
    IN  IF i.op = "GBITCOM"
        THEN W(file, i.r[0], i.size) \cup bits(R)
        ELSE R(file, i.r[0], i.size) \cup bits(W)

-----------------------------------------------------------------------------
(* Binary instructions and conversions.                                     *)

Units(bits) == DivCeil(bits, Unit)

xors(i) ==
    UNION {W("Sb", t[2], Units(t[1])) \cup R("Sb", t[3], Units(t[1]))
           \cup R("Sb", t[4], Units(t[1])) : t \in Tuples(i.start, 4)}

and_(i, repeat) ==
    UNION {W("Sb", t[2], Units(t[1])) \cup R("Sb", t[3], Units(t[1]))
           \cup R("Sb", t[4], IF repeat THEN 1 ELSE Units(t[1])) : t \in Tuples(i.start, 4)}

BitsOfOne(i, file) ==
    LET bits(Access(_, _, _)) == UNION {Access(file, i.start[k], 1) : k \in DOMAIN i.start}
    IN  IF i.op = "BITCOMS" THEN W(file, i.r[0], 1) \cup bits(R)
        ELSE R(file, i.r[0], 1) \cup bits(W)

Dynamic(i) ==
    CASE i.op = "LDMSD"   -> UNION {W("Sb", t[1], 1) : t \in Tuples(i.start, 3)}
      [] i.op = "LDMSDI"  -> UNION {W("Sb", t[1], 1) \cup R("Cb", t[2], 1) :
                                       t \in Tuples(i.start, 3)}
      [] i.op = "STMSD"   -> UNION {R("Sb", t[1], 1) : t \in Tuples(i.start, 2)}
      [] i.op = "STMSDI"  -> UNION {R("Sb", t[1], 1) \cup R("Cb", t[2], 1) :
                                       t \in Tuples(i.start, 2)}
      [] i.op = "STMSDCI" -> UNION {R("Cb", t[1], 1) \cup R("Cb", t[2], 1) :
                                       t \in Tuples(i.start, 2)}

trans(i) ==
    LET inputs == Len(i.start) - i.n
    IN  UNION {W("Sb", i.start[k], Units(inputs)) : k \in 1..i.n}
        \cup UNION {R("Sb", i.start[k], Units(i.n)) : k \in (i.n + 1)..Len(i.start)}

reveal_inst(i) ==
    UNION {W("Cb", t[2], Units(t[1])) \cup R("Sb", t[3], Units(t[1])) :
              t \in Tuples(i.start, 3)}

inputb(i) == UNION {W("Sb", t[4], Units(t[2])) : t \in Tuples(i.start, 4)}

inputbvec(i) ==
    UNION {UNION {W("Sb", i.start[k], 1) : k \in (b + 3)..(b + i.start[b] - 1)} :
              b \in Bases(i.start, i.start)}

Conversion(i) ==
    LET each(len) == UNION {W("Sb", i.start[k], len) : k \in DOMAIN i.start}
    IN  CASE i.op = "DABIT"       -> W("Sp", i.r[0], i.size) \cup W("Sb", i.r[1], Units(i.size))
          [] i.op \in {"EDABIT", "SEDABIT"} -> W("Sp", i.r[0], i.size) \cup each(Units(i.size))
          [] i.op = "CONVCBITVEC" -> W("Ci", i.r[0], i.n) \cup R("Cb", i.r[1], Units(i.n))
          [] i.op = "CONVCINTVEC" -> R("Cp", i.r[0], i.size)
                                     \cup UNION {W("Cb", i.start[k], Units(i.size)) :
                                                    k \in DOMAIN i.start}
          [] i.op = "CONVCBIT2S"  -> W("Sb", i.r[0], Units(i.n)) \cup R("Cb", i.r[1], Units(i.n))
          [] i.op = "SPLIT"       -> R("Sp", i.r[0], i.size) \cup each(Units(i.size))

Access(i) ==
    LET S == IF IsGF2n(i.code) THEN "S2" ELSE "Sp"
        C == IF IsGF2n(i.code) THEN "C2" ELSE "Cp"
        five(file) == UNION {R(file, i.start[k], 1) : k \in 1..5}
    IN
    CASE \E e \in Elements : i.op \in e.ops -> ElementAccess(i)
      [] i.op \in WithG({"OPEN"}) -> POpen(i, S, C)
      [] i.op \in WithG({"MULS"}) -> muls(i, S)
      [] i.op \in WithG({"MULRS"}) -> mulrs(i, S)
      [] i.op \in WithG({"DOTPRODS"}) -> dotprods(i, S)
      [] i.op = "MATMULS" -> matmuls(i)
      [] i.op = "MATMULSM" -> matmulsm(i)
      [] i.op = "CONV2DS" -> conv2ds(i)
      [] i.op = "TRUNC_PR" -> trunc_pr(i)
      [] i.op \in WithG({"INPUT"}) -> input(i, InputFormat.IntInput, S)
      [] i.op = "INPUTFIX" -> input(i, InputFormat.FixInput, S)
      [] i.op = "INPUTFLOAT" -> input(i, InputFormat.FloatInput, S)
      [] i.op = "INPUTMIXED" -> input_mixed(i, FALSE)
      [] i.op = "INPUTMIXEDREG" -> input_mixed(i, TRUE)
      [] i.op \in WithG({"RAWINPUT"}) -> raw_input(i, S)
      [] i.op \in WithG({"PREP"}) -> UNION {W(S, i.start[k], i.size) : k \in DOMAIN i.start}
      [] i.op = "READSOCKETC" -> read_socket(i, "Cp")
      [] i.op = "READSOCKETS" -> read_socket(i, "Sp")
      [] i.op = "READSOCKETINT" -> read_socket(i, "Ci")
      [] i.op = "WRITESOCKETC" -> write_socket(i, "Cp")
      [] i.op \in {"WRITESOCKETS", "WRITESOCKETSHARE"} -> write_socket(i, "Sp")
      [] i.op = "WRITESOCKETINT" -> write_socket(i, "Ci")
      [] i.op \in {"READFILESHARE", "WRITEFILESHARE"} -> FileAccess(i)
      [] i.op \in {"BITDECINT", "GBITDEC", "GBITCOM"} -> Integers_and_GF2n_bits(i)
      [] i.op \in {"PUSHINT", "STARG"} -> R("Ci", i.r[0], 1)
      [] i.op = "INCINT" -> W("Ci", i.r[0], i.size) \cup R("Ci", i.r[1], 1)
      [] i.op = "PRINTFLOATPLAIN" -> five("Cp")
      [] i.op = "PRINTFLOATPLAINB" -> five("Cb")
      [] i.op = "XORS" -> xors(i)
      [] i.op = "ANDS" -> and_(i, FALSE)
      [] i.op = "ANDRS" -> and_(i, TRUE)
      [] i.op = "NOTS" -> W("Sb", i.r[0], Units(i.n)) \cup R("Sb", i.r[1], Units(i.n))
      [] i.op = "ANDM" -> W("Sb", i.r[0], Units(i.n)) \cup R("Sb", i.r[1], Units(i.n))
                          \cup R("Cb", i.r[2], Units(i.n))
      [] i.op \in {"BITDECS", "BITCOMS"} -> BitsOfOne(i, "Sb")
      [] i.op = "BITDECC" -> BitsOfOne(i, "Cb")
      [] i.op \in {"LDMSD", "LDMSDI", "STMSD", "STMSDI", "STMSDCI"} -> Dynamic(i)
      [] i.op = "LDMSBI" -> W("Sb", i.r[0], i.size) \cup R("Ci", i.r[1], 1)
      [] i.op = "STMSBI" -> R("Sb", i.r[0], i.size) \cup R("Ci", i.r[1], 1)
      [] i.op = "PRINTREGSIGNED" -> R("Cb", i.r[0], Units(i.n))
      [] i.op = "TRANS" -> trans(i)
      [] i.op = "REVEAL" -> reveal_inst(i)
      [] i.op = "INPUTB" -> inputb(i)
      [] i.op = "INPUTBVEC" -> inputbvec(i)
      [] i.op \in {"DABIT", "EDABIT", "SEDABIT", "CONVCBITVEC", "CONVCINTVEC",
                   "CONVCBIT2S", "SPLIT"} -> Conversion(i)
      [] OTHER -> {}

(* Instructions the machine parses and has no code for.                     *)
Unimplemented == {"XORM"}

-----------------------------------------------------------------------------
(* Preprocessing consumed, by kind and, for input masks, by player (for     *)
(* edaBits by length).  Products are those of a protocol with Beaver        *)
(* triples.                                                                 *)

SumOver(Value(_), S) == MapThenSumSet(Value, S)

Consumed(i, kind, who) ==
    LET from(t, k) == IF t[k] = who THEN 1 ELSE 0
        once(ops) == IF i.op \in WithG(ops) THEN i.size ELSE 0
    IN
    CASE kind = "triple" ->
           CASE i.op \in WithG({"TRIPLE"}) -> i.size
             [] i.op \in WithG({"MULS"}) -> i.size * (Len(i.start) \div 3)
             [] i.op \in WithG({"MULRS"}) -> SumOver(LAMBDA t : t[1], Tuples(i.start, 4))
             [] i.op \in WithG({"DOTPRODS"}) ->
                  i.size * SumOver(LAMBDA b : (i.start[b] - 2) \div 2, DotProducts(i))
             [] i.op \in {"MATMULS", "MATMULSM"} -> i.start[1] * i.start[2] * i.start[3]
             [] i.op = "CONV2DS" -> Cardinality(ConvolutionTaps(i.start)) * i.start[9]
             [] OTHER -> 0
      [] kind = "bit" -> once({"BIT"})
      [] kind = "square" -> once({"SQUARE"})
      [] kind = "inverse" -> once({"INV"})
      [] kind = "bittriple" -> once({"BITTRIPLE"})
      [] kind = "bitgf2ntriple" -> once({"BITGF2NTRIPLE"})
      [] kind = "dabit" -> once({"DABIT"})
      [] kind = "edabit" -> IF who = Len(i.start) THEN once({"EDABIT", "SEDABIT"}) ELSE 0
      [] kind = "custom" -> once({"PREP"})
      [] kind = "binary triple" ->
           IF i.op \in {"ANDS", "ANDRS"} THEN SumOver(LAMBDA t : t[1], Tuples(i.start, 4)) ELSE 0
      [] kind = "binary bit" -> IF i.op = "BITB" THEN 1 ELSE 0
      [] kind = "binary input" ->
           CASE i.op = "INPUTB" -> SumOver(LAMBDA t : from(t, 1) * t[2], Tuples(i.start, 4))
             [] i.op = "INPUTBVEC" ->
                  SumOver(LAMBDA b : IF i.start[b + 2] = who THEN i.start[b] - 3 ELSE 0,
                          Bases(i.start, i.start))
             [] OTHER -> 0
      [] kind = "input" ->
           CASE i.op \in WithG({"INPUTMASK", "STARTPRIVATEOUTPUT"}) ->
                  IF i.n = who THEN i.size ELSE 0
             [] i.op \in WithG({"INPUT"}) ->
                  SumOver(LAMBDA t : from(t, 2) * i.size, Tuples(i.start, 2))
             [] i.op = "INPUTFIX" ->
                  SumOver(LAMBDA t : from(t, 3) * i.size, Tuples(i.start, 3))
             [] i.op = "INPUTFLOAT" ->
                  SumOver(LAMBDA t : from(t, 6) * 4 * i.size, Tuples(i.start, 6))
             [] i.op = "INPUTMIXED" ->
                  SumOver(LAMBDA b :
                            LET u == TypeOfInput(i.start[b])
                            IN  IF i.start[b + u.dest + u.param + 1] = who
                                THEN u.dest * i.size ELSE 0, MixedInputs(i))
             [] i.op \in WithG({"RAWINPUT"}) ->
                  SumOver(LAMBDA t : from(t, 1) * i.size, Tuples(i.start, 2))
             [] OTHER -> 0

=============================================================================
