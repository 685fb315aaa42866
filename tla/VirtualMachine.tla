-------------------------- MODULE VirtualMachine --------------------------
(***************************************************************************)
(* The instruction set as the virtual machine sees it: the opcodes, how an *)
(* instruction is read from a bytecode file, how many registers and how    *)
(* much memory it makes the machine allocate, and which registers it then  *)
(* reads and writes and how much preprocessing it consumes.                *)
(*                                                                         *)
(* A parsed instruction is a record: the name and code of its operation,   *)
(* its vector size, the registers r[0..3], the immediate n and the         *)
(* variable operands start, and the number of words it was read from.      *)
(***************************************************************************)
EXTENDS Integers, Sequences, SequencesExt

CONSTANT Unit            \* bits in a binary register (64 in the code)

ASSUME UnitAssumption == Unit \in Nat \ {0}

DivCeil(a, b) == (a + b - 1) \div b

(* A name with the code of its GF(2^n) variant.                            *)
WithG(S) == S \cup {"G" \o s : s \in S}

From(base, names) == {[name |-> names[i], code |-> base + i - 1] : i \in DOMAIN names}

-----------------------------------------------------------------------------
(* Opcodes.                                                                *)

ArithmeticOpcodes ==
    UNION {
      From(\h1, <<"LDI", "LDSI", "LDMC", "LDMS", "STMC", "STMS", "LDMCI", "LDMSI",
                  "STMCI", "STMSI", "MOVC", "MOVS">>),
      From(\hCA, <<"LDMINT", "STMINT", "LDMINTI", "STMINTI", "PUSHINT", "POPINT",
                   "MOVINT", "INCINT", "SHUFFLE">>),
      From(\h10, <<"LDTN", "LDARG", "REQBL", "STARG", "TIME", "START", "STOP", "USE",
                   "USE_INP", "RUN_TAPE", "JOIN_TAPE", "CRASH", "USE_PREP",
                   "STARTGRIND", "STOPGRIND">>),
      From(\hE0, <<"PRINTFLOATPREC", "CONDPRINTPLAIN", "NPLAYERS", "THRESHOLD",
                   "PLAYERID", "USE_EDABIT">>),
      From(\h20, <<"ADDC", "ADDS", "ADDM", "ADDCI", "ADDSI", "SUBC", "SUBS", "SUBML",
                   "SUBMR", "SUBCI", "SUBSI", "SUBCFI", "SUBSFI">>),
      From(\h30, <<"MULC", "MULM", "MULCI", "MULSI", "DIVC", "DIVCI", "MODC", "MODCI",
                   "LEGENDREC", "DIGESTC", "INV2M">>),
      From(\hA5, <<"OPEN", "MULS", "MULRS", "DOTPRODS", "TRUNC_PR", "MATMULS",
                   "MATMULSM", "CONV2DS">>),
      From(\h50, <<"TRIPLE", "BIT", "SQUARE", "INV">>),
      From(\h56, <<"INPUTMASK", "PREP", "DABIT", "EDABIT", "SEDABIT", "RANDOMS",
                   "INPUTMASKREG", "RANDOMFULLS">>),
      From(\h60, <<"INPUT", "STARTINPUT", "STOPINPUT", "READSOCKETC", "READSOCKETS",
                   "WRITESOCKETC", "WRITESOCKETS">>),
      From(\hF0, <<"INPUTFIX", "INPUTFLOAT", "INPUTMIXED", "INPUTMIXEDREG",
                   "RAWINPUT">>),
      From(\h69, <<"READSOCKETINT", "WRITESOCKETINT", "WRITESOCKETSHARE", "LISTEN",
                   "ACCEPTCLIENTCONNECTION">>),
      From(\h70, <<"ANDC", "XORC", "ORC", "ANDCI", "XORCI", "ORCI", "NOTC">>),
      From(\h80, <<"SHLC", "SHRC", "SHLCI", "SHRCI", "SHRSI">>),
      From(\h90, <<"JMP", "JMPNZ", "JMPEQZ", "EQZC", "LTZC", "LTC", "GTC", "EQC",
                   "JMPI", "BITDECINT", "LDINT", "ADDINT", "SUBINT", "MULINT", "DIVINT",
                   "PRINTINT">>),
      From(\hC0, <<"CONVINT", "CONVMODP">>),
      From(\hB1, <<"PRINTREG", "RAND", "PRINTREGPLAIN", "PRINTCHR", "PRINTSTR",
                   "PUBINPUT", "RAWOUTPUT", "STARTPRIVATEOUTPUT", "STOPPRIVATEOUTPUT">>),
      From(\hBC, <<"PRINTFLOATPLAIN", "WRITEFILESHARE", "READFILESHARE",
                   "CONDPRINTSTR">>) }

GF2nOpcodes ==
    UNION {
      From(\h101, <<"GLDI", "GLDSI", "GLDMC", "GLDMS", "GSTMC", "GSTMS", "GLDMCI",
                    "GLDMSI", "GSTMCI", "GSTMSI", "GMOVC", "GMOVS">>),
      From(\h112, <<"GREQBL">>), From(\h11C, <<"GUSE_PREP">>),
      From(\h120, <<"GADDC", "GADDS", "GADDM", "GADDCI", "GADDSI", "GSUBC", "GSUBS",
                    "GSUBML", "GSUBMR", "GSUBCI", "GSUBSI", "GSUBCFI", "GSUBSFI">>),
      From(\h130, <<"GMULC", "GMULM", "GMULCI", "GMULSI", "GDIVC", "GDIVCI", "GMULBITC",
                    "GMULBITM">>),
      From(\h1A5, <<"GOPEN", "GMULS", "GMULRS", "GDOTPRODS">>),
      From(\h150, <<"GTRIPLE", "GBIT", "GSQUARE", "GINV", "GBITTRIPLE",
                    "GBITGF2NTRIPLE", "GINPUTMASK", "GPREP">>),
      From(\h160, <<"GINPUT">>), From(\h1F4, <<"GRAWINPUT">>),
      From(\h170, <<"GANDC", "GXORC", "GORC", "GANDCI", "GXORCI", "GORCI", "GNOTC">>),
      From(\h182, <<"GSHLCI", "GSHRCI", "GBITDEC", "GBITCOM">>),
      From(\h1C0, <<"GCONVINT", "GCONVGF2N">>),
      From(\h1B1, <<"GPRINTREG">>), From(\h1B3, <<"GPRINTREGPLAIN">>),
      From(\h1B7, <<"GRAWOUTPUT", "GSTARTPRIVATEOUTPUT", "GSTOPPRIVATEOUTPUT">>) }

BinaryOpcodes ==
    UNION {
      From(\h200, <<"XORS", "XORM", "ANDRS", "BITDECS", "BITCOMS", "CONVSINT", "LDMSDI",
                    "STMSDI", "LDMSD", "STMSD", "LDBITS", "ANDS", "TRANS", "BITB",
                    "ANDM", "NOTS", "XORCBI", "BITDECC">>),
      From(\h240, <<"LDMSB", "STMSB", "LDMSBI", "STMSBI", "MOVSB">>),
      From(\h246, <<"INPUTB", "INPUTBVEC", "SPLIT", "CONVCBIT2S">>),
      From(\h213, <<"CONVCINT", "REVEAL", "STMSDCI">>),
      From(\h217, <<"LDMCB", "STMCB", "XORCB", "ADDCB", "ADDCBI", "MULCBI", "SHRCBI",
                    "SHLCBI", "CONVCINTVEC", "PRINTREGSIGNED", "PRINTREGB",
                    "PRINTREGPLAINB", "PRINTFLOATPLAINB", "CONDPRINTSTRB">>),
      From(\h230, <<"CONVCBIT", "CONVCBITVEC">>) }

Opcodes == ArithmeticOpcodes \cup GF2nOpcodes \cup BinaryOpcodes

(* What an opcode word means, "invalid" if the machine has no such opcode.  *)
OperationOf(code) ==
    LET named == {o \in Opcodes : o.code = code}
    IN  IF named = {} THEN "invalid" ELSE (CHOOSE o \in named : TRUE).name

-----------------------------------------------------------------------------
(* Reading an instruction.  A layout names the fields in the order they are *)
(* read: "r" the next of r[0..3], "n" the immediate, "tag" four words into  *)
(* r; then a number of words goes into start, or, when the instruction      *)
(* starts with the count of its operands, all that the count leaves.        *)

Layout(var, fields, more, ops) ==
    [ops |-> ops, var |-> var, fields |-> fields, more |-> more]

Registers3 == Layout(FALSE, <<"r", "r", "r">>, 0,
    WithG({"ADDC", "ADDS", "ADDM", "SUBC", "SUBS", "SUBML", "SUBMR", "MULC", "MULM",
           "DIVC", "TRIPLE", "ANDC", "XORC", "ORC"})
    \cup {"ADDCB", "MODC", "XORCB", "SHLC", "SHRC", "GBITTRIPLE", "GBITGF2NTRIPLE",
          "GMULBITC", "GMULBITM", "LTC", "GTC", "EQC", "ADDINT", "SUBINT", "MULINT",
          "DIVINT", "CONDPRINTPLAIN", "INPUTMASKREG"})

Registers2 == Layout(FALSE, <<"r", "r">>, 0,
    WithG({"LDMCI", "LDMSI", "STMCI", "STMSI", "MOVC", "MOVS", "SQUARE", "INV",
           "CONVINT"})
    \cup {"LDMSBI", "STMSBI", "MOVSB", "MOVINT", "LDMINTI", "STMINTI", "LEGENDREC",
          "GNOTC", "GCONVGF2N", "LTZC", "EQZC", "RAND", "DABIT", "SHUFFLE",
          "CONVCINT", "CONVCBIT"})

Registers1 == Layout(FALSE, <<"r">>, 0,
    WithG({"BIT", "PRINTREGPLAIN", "RAWOUTPUT"})
    \cup {"BITB", "RANDOMFULLS", "PRINTREGPLAINB", "LDTN", "LDARG", "STARG", "JMPI",
          "JOIN_TAPE", "PUSHINT", "POPINT", "PUBINPUT", "PRINTINT", "NPLAYERS",
          "THRESHOLD", "PLAYERID"})

Registers2Immediate == Layout(FALSE, <<"r", "r", "n">>, 0,
    WithG({"ADDCI", "ADDSI", "SUBCI", "SUBSI", "SUBCFI", "SUBSFI", "MULCI", "MULSI",
           "DIVCI", "ANDCI", "XORCI", "ORCI", "SHLCI", "SHRCI", "STARTPRIVATEOUTPUT",
           "STOPPRIVATEOUTPUT"})
    \cup {"ADDCBI", "MULCBI", "MODCI", "XORCBI", "SHRSI", "SHLCBI", "SHRCBI", "NOTC",
          "CONVMODP", "USE", "USE_INP", "USE_EDABIT", "DIGESTC", "LDBITS"})

Registers1Immediate == Layout(FALSE, <<"r", "n">>, 0,
    WithG({"LDI", "LDSI", "LDMC", "LDMS", "STMC", "STMS", "PRINTREG", "INPUTMASK"})
    \cup {"LDMSB", "STMSB", "LDMCB", "STMCB", "LDMINT", "STMINT", "JMPNZ", "JMPEQZ",
          "PRINTREGB", "LDINT", "ACCEPTCLIENTCONNECTION", "INV2M", "CONDPRINTSTR",
          "CONDPRINTSTRB", "RANDOMS"})

FixedLayouts ==
    { Layout(FALSE, <<"n">>, 0,
             {"PRINTSTR", "PRINTCHR", "JMP", "START", "STOP", "LISTEN",
              "PRINTFLOATPREC", "REQBL", "GREQBL"}),
      Layout(FALSE, <<>>, 0, {"TIME", "CRASH", "STARTGRIND", "STOPGRIND"}),
      Layout(FALSE, <<>>, 5, {"PRINTFLOATPLAIN", "PRINTFLOATPLAINB"}),
      Layout(FALSE, <<"r", "r", "n">>, 2, {"INCINT"}),
      Layout(FALSE, <<"r", "r", "r">>, 3, {"MATMULS"}),
      Layout(FALSE, <<"r", "r", "r">>, 9, {"MATMULSM"}),
      Layout(FALSE, <<"r", "r", "r">>, 11, {"CONV2DS"}),
      Layout(FALSE, <<"tag", "n">>, 0, WithG({"USE_PREP"})),
      Layout(FALSE, <<"n", "r", "r", "r">>, 0, {"XORM", "ANDM"}),
      Layout(FALSE, <<"n", "r", "r">>, 0, {"CONVSINT", "CONVCBITVEC", "CONVCBIT2S", "NOTS"}),
      Layout(FALSE, <<"n", "r">>, 0, {"PRINTREGSIGNED"}) }

VariableLayouts ==
    { Layout(TRUE, <<>>, 0,
             WithG({"OPEN", "MULS", "MULRS", "DOTPRODS", "INPUT", "RAWINPUT"})
             \cup {"WRITEFILESHARE", "INPUTFIX", "INPUTFLOAT", "INPUTMIXED",
                   "INPUTMIXEDREG", "TRUNC_PR", "RUN_TAPE", "LDMSDI", "STMSDI", "LDMSD",
                   "STMSD", "STMSDCI", "XORS", "ANDRS", "ANDS", "INPUTB", "INPUTBVEC",
                   "REVEAL"}),
      Layout(TRUE, <<"r", "r">>, 0,
             {"READFILESHARE", "WRITESOCKETC", "WRITESOCKETS", "WRITESOCKETSHARE",
              "WRITESOCKETINT"}),
      Layout(TRUE, <<"r">>, 0,
             {"READSOCKETC", "READSOCKETS", "READSOCKETINT", "BITDECINT", "EDABIT",
              "SEDABIT", "BITDECS", "BITCOMS", "BITDECC", "CONVCINTVEC"}),
      Layout(TRUE, <<"r", "n">>, 0, {"GBITDEC", "GBITCOM"}),
      Layout(TRUE, <<"tag">>, 0, WithG({"PREP"})),
      Layout(TRUE, <<"n">>, 0, {"TRANS"}),
      Layout(TRUE, <<"n", "r">>, 0, {"SPLIT"}) }

Layouts ==
    {Registers3, Registers2, Registers1, Registers2Immediate, Registers1Immediate}
    \cup FixedLayouts \cup VariableLayouts

(* The fields in order, then what is left.                                   *)
ParseBy(words, op, lay) ==
    LET at   == IF lay.var THEN 2 ELSE 1          \* words before the fields
        wide(f) == IF f = "tag" THEN 4 ELSE 1
        ends == FoldLeft(LAMBDA s, f : Append(s, Last(s) + wide(f)), <<at>>, lay.fields)
        fields == [i \in 1..Len(lay.fields) |->
                      [f |-> lay.fields[i], w |-> SubSeq(words, ends[i] + 1, ends[i + 1])]]
        rest == IF lay.var THEN words[2] - Len(lay.fields) ELSE lay.more
        of(kinds) == FlattenSeq([i \in 1..Len(fields) |->
                        IF fields[i].f \in kinds THEN fields[i].w ELSE <<>>])
        regs == of({"r", "tag"})
        imm  == of({"n"})
    IN  [op    |-> op,
         code  |-> words[1] % 1024,
         size  |-> IF words[1] \div 1024 = 0 THEN 1 ELSE words[1] \div 1024,
         r     |-> [i \in 0..3 |-> IF i < Len(regs) THEN regs[i + 1] ELSE 0],
         n     |-> IF imm = <<>> THEN 0 ELSE imm[1],
         start |-> SubSeq(words, Last(ends) + 1, Last(ends) + rest),
         used  |-> Last(ends) + rest]

(* parse: the size is above the ten bits of the opcode, 0 standing for 1.   *)
ParseAs(words, op) ==
    IF op = "invalid" THEN [op |-> op]
    ELSE ParseBy(words, op, CHOOSE l \in Layouts : op \in l.ops)
Parse(words) == ParseAs(words, OperationOf(words[1] % 1024))

=============================================================================
