-------------------------- MODULE InstructionSet --------------------------
(***************************************************************************)
(* The instruction set as the compiler sees it: the opcode table and, for  *)
(* every instruction class of Compiler/instructions.py and                 *)
(* Compiler/GC/instructions.py, the formats of its operands.  The compiler *)
(* writes bytecode from these tables and schedules, merges and allocates   *)
(* registers by them: a format that ends in "w" is a register the          *)
(* instruction writes, another register format one it reads.               *)
(*                                                                         *)
(* An instruction is a record: its name in the opcode table, its           *)
(* decorators, the formats of its leading operands and the formats that    *)
(* repeat.  Decorators: "g" has a GF(2^n) form as well (gf2n), "v" applies *)
(* to vectors (vectorize), "l" has the length of its first operand in the  *)
(* opcode word (VectorInstruction), "b" works on vectors of bits whose     *)
(* length is an operand (BinaryVectorInstruction).                         *)
(***************************************************************************)
EXTENDS Integers, Sequences, FiniteSets

Ins(deco, head, rep, ops) ==
    {[op |-> o, deco |-> deco, head |-> head, rep |-> rep, g |-> FALSE] : o \in ops}

Run(base, names) ==
    {[name |-> names[i], code |-> base + i - 1] : i \in DOMAIN names}

-----------------------------------------------------------------------------
(* Opcodes: consecutive numbers from a base.                                *)

CompilerOpcodes ==
    UNION {
      Run(\h1, <<"LDI", "LDSI", "LDMC", "LDMS", "STMC", "STMS", "LDMCI", "LDMSI",
                 "STMCI", "STMSI", "MOVC", "MOVS">>),
      Run(\hCA, <<"LDMINT", "STMINT", "LDMINTI", "STMINTI", "PUSHINT", "POPINT",
                  "MOVINT", "INCINT", "SHUFFLE">>),
      Run(\h10, <<"LDTN", "LDARG", "REQBL", "STARG", "TIME", "START", "STOP", "USE",
                  "USE_INP", "RUN_TAPE", "JOIN_TAPE", "CRASH", "USE_PREP",
                  "STARTGRIND", "STOPGRIND">>),
      Run(\hE0, <<"PRINTFLOATPREC", "CONDPRINTPLAIN", "NPLAYERS", "THRESHOLD",
                  "PLAYERID", "USE_EDABIT">>),
      Run(\h20, <<"ADDC", "ADDS", "ADDM", "ADDCI", "ADDSI", "SUBC", "SUBS", "SUBML",
                  "SUBMR", "SUBCI", "SUBSI", "SUBCFI", "SUBSFI">>),
      Run(\h30, <<"MULC", "MULM", "MULCI", "MULSI", "DIVC", "DIVCI", "MODC", "MODCI",
                  "LEGENDREC", "DIGESTC", "INV2M">>),
      Run(\h136, <<"GMULBITC", "GMULBITM">>),
      Run(\hA5, <<"OPEN", "MULS", "MULRS", "DOTPRODS", "TRUNC_PR", "MATMULS",
                  "MATMULSM", "CONV2DS">>),
      Run(\h50, <<"TRIPLE", "BIT", "SQUARE", "INV">>),
      Run(\h154, <<"GBITTRIPLE", "GBITGF2NTRIPLE">>),
      Run(\h56, <<"INPUTMASK", "PREP", "DABIT", "EDABIT", "SEDABIT", "RANDOMS",
                  "INPUTMASKREG", "RANDOMFULLS">>),
      Run(\h60, <<"INPUT">>),
      Run(\hF0, <<"INPUTFIX", "INPUTFLOAT", "INPUTMIXED", "INPUTMIXEDREG", "RAWINPUT">>),
      Run(\h63, <<"READSOCKETC", "READSOCKETS", "WRITESOCKETC", "WRITESOCKETS">>),
      Run(\h69, <<"READSOCKETINT", "WRITESOCKETINT", "WRITESOCKETSHARE", "LISTEN",
                  "ACCEPTCLIENTCONNECTION">>),
      Run(\h70, <<"ANDC", "XORC", "ORC", "ANDCI", "XORCI", "ORCI", "NOTC">>),
      Run(\h80, <<"SHLC", "SHRC", "SHLCI", "SHRCI", "SHRSI">>),
      Run(\h90, <<"JMP", "JMPNZ", "JMPEQZ", "EQZC", "LTZC", "LTC", "GTC", "EQC", "JMPI",
                  "BITDECINT", "LDINT", "ADDINT", "SUBINT", "MULINT", "DIVINT",
                  "PRINTINT">>),
      Run(\hC0, <<"CONVINT", "CONVMODP">>),
      Run(\h1C1, <<"GCONVGF2N">>),
      Run(\hB1, <<"PRINTREG", "RAND", "PRINTREGPLAIN", "PRINTCHR", "PRINTSTR",
                  "PUBINPUT", "RAWOUTPUT", "STARTPRIVATEOUTPUT", "STOPPRIVATEOUTPUT">>),
      Run(\hBC, <<"PRINTFLOATPLAIN", "WRITEFILESHARE", "READFILESHARE",
                  "CONDPRINTSTR">>),
      Run(\h184, <<"GBITDEC", "GBITCOM">>) }

CompilerBitOpcodes ==
    UNION {
      Run(\h200, <<"XORS", "XORM", "ANDRS", "BITDECS", "BITCOMS", "CONVSINT", "LDMSDI",
                   "STMSDI", "LDMSD", "STMSD", "LDBITS", "ANDS", "TRANS", "BITB",
                   "ANDM", "NOTS", "XORCBI", "BITDECC">>),
      Run(\h213, <<"CONVCINT", "REVEAL", "STMSDCI">>),
      Run(\h217, <<"LDMCB", "STMCB", "XORCB", "ADDCB", "ADDCBI", "MULCBI", "SHRCBI",
                   "SHLCBI", "CONVCINTVEC", "PRINTREGSIGNED", "PRINTREGB",
                   "PRINTREGPLAINB", "PRINTFLOATPLAINB", "CONDPRINTSTRB">>),
      Run(\h230, <<"CONVCBIT", "CONVCBITVEC">>),
      Run(\h240, <<"LDMSB", "STMSB", "LDMSBI", "STMSBI", "MOVSB">>),
      Run(\h246, <<"INPUTB", "INPUTBVEC", "SPLIT", "CONVCBIT2S">>) }

-----------------------------------------------------------------------------
(* Operand formats of the classes, in the order of the files.               *)

LoadStore ==
    UNION {
      Ins("gv", <<"cw", "i">>, <<>>, {"LDI"}),
      Ins("gv", <<"sw", "i">>, <<>>, {"LDSI"}),
      Ins("gv", <<"cw", "int">>, <<>>, {"LDMC"}),
      Ins("gv", <<"sw", "int">>, <<>>, {"LDMS"}),
      Ins("gv", <<"c", "int">>, <<>>, {"STMC"}),
      Ins("gv", <<"s", "int">>, <<>>, {"STMS"}),
      Ins("v", <<"ciw", "int">>, <<>>, {"LDMINT"}),
      Ins("v", <<"ci", "int">>, <<>>, {"STMINT"}) }

IndirectLoadStore ==
    UNION {
      Ins("gv", <<"cw", "ci">>, <<>>, {"LDMCI"}),
      Ins("gv", <<"sw", "ci">>, <<>>, {"LDMSI"}),
      Ins("gv", <<"c", "ci">>, <<>>, {"STMCI"}),
      Ins("gv", <<"s", "ci">>, <<>>, {"STMSI"}),
      Ins("v", <<"ciw", "ci">>, <<>>, {"LDMINTI"}),
      Ins("v", <<"ci", "ci">>, <<>>, {"STMINTI"}) }

Moves ==
    UNION {
      Ins("gv", <<"cw", "c">>, <<>>, {"MOVC"}),
      Ins("gv", <<"sw", "s">>, <<>>, {"MOVS"}),
      Ins("v", <<"ciw", "ci">>, <<>>, {"MOVINT"}),
      Ins("v", <<"ci">>, <<>>, {"PUSHINT"}),
      Ins("v", <<"ciw">>, <<>>, {"POPINT"}) }

MachineInstructions ==
    UNION {
      Ins("v", <<"ciw">>, <<>>, {"LDTN", "LDARG"}),
      Ins("v", <<"ci">>, <<>>, {"STARG"}),
      Ins("g", <<"int">>, <<>>, {"REQBL"}),
      Ins("-", <<>>, <<>>, {"TIME", "CRASH", "STARTGRIND", "STOPGRIND"}),
      Ins("-", <<"i">>, <<>>, {"START", "STOP"}),
      Ins("-", <<"int", "int", "int">>, <<>>, {"USE", "USE_INP", "USE_EDABIT"}),
      Ins("-", <<>>, <<"int", "int", "int">>, {"RUN_TAPE"}),
      Ins("-", <<"int">>, <<>>, {"JOIN_TAPE"}),
      Ins("g", <<"str", "int">>, <<>>, {"USE_PREP"}),
      Ins("-", <<"ciw">>, <<>>, {"NPLAYERS", "THRESHOLD", "PLAYERID"}) }

Additions ==
    UNION {
      Ins("gv", <<"cw", "c", "c">>, <<>>, {"ADDC", "SUBC"}),
      Ins("gv", <<"sw", "s", "s">>, <<>>, {"ADDS", "SUBS"}),
      Ins("gv", <<"sw", "s", "c">>, <<>>, {"ADDM", "SUBML"}),
      Ins("gv", <<"sw", "c", "s">>, <<>>, {"SUBMR"}) }

Products ==
    UNION {
      Ins("gv", <<"cw", "c", "c">>, <<>>, {"MULC", "DIVC", "MODC"}),
      Ins("gv", <<"sw", "s", "c">>, <<>>, {"MULM"}),
      Ins("v", <<"cw", "int">>, <<>>, {"INV2M"}),
      Ins("v", <<"cw", "c">>, <<>>, {"LEGENDREC"}),
      Ins("v", <<"cw", "c", "int">>, <<>>, {"DIGESTC"}) }

BitwiseLogic ==
    UNION {
      Ins("gv", <<"cw", "c", "c">>, <<>>, {"ANDC", "ORC", "XORC"}),
      Ins("v", <<"cw", "c", "int">>, <<>>, {"NOTC"}),
      Ins("v", <<"cgw", "cg">>, <<>>, {"GNOTC"}),
      Ins("v", <<"cg", "int">>, <<"cgw">>, {"GBITDEC"}),
      Ins("v", <<"cgw", "int">>, <<"cg">>, {"GBITCOM"}),
      Ins("v", <<"cgw", "cg", "cg">>, <<>>, {"GMULBITC"}),
      Ins("v", <<"sgw", "sg", "cg">>, <<>>, {"GMULBITM"}) }

ClearImmediate == <<"cw", "c", "i">>
SharedImmediate == <<"sw", "s", "i">>

Immediates ==
    UNION {
      Ins("gv", ClearImmediate, <<>>,
          {"ADDCI", "SUBCI", "SUBCFI", "MULCI", "DIVCI", "MODCI", "ANDCI", "XORCI",
           "ORCI"}),
      Ins("gv", SharedImmediate, <<>>, {"ADDSI", "SUBSI", "SUBSFI", "MULSI"}) }

Shifts ==
    UNION {
      Ins("gv", <<"cw", "c", "c">>, <<>>, {"SHLC", "SHRC"}),
      Ins("gv", ClearImmediate, <<>>, {"SHLCI", "SHRCI"}),
      Ins("v", SharedImmediate, <<>>, {"SHRSI"}) }

DataAccess ==
    UNION {
      Ins("gv", <<"sw", "sw", "sw">>, <<>>, {"TRIPLE"}),
      Ins("v", <<"sgw", "sgw", "sgw">>, <<>>, {"GBITTRIPLE", "GBITGF2NTRIPLE"}),
      Ins("gv", <<"sw">>, <<>>, {"BIT"}),
      Ins("v", <<"sw", "sbw">>, <<>>, {"DABIT"}),
      Ins("v", <<"sw">>, <<"sbw">>, {"EDABIT", "SEDABIT"}) }

RandomData ==
    UNION {
      Ins("v", <<"sw", "int">>, <<>>, {"RANDOMS"}),
      Ins("v", <<"sw">>, <<>>, {"RANDOMFULLS"}),
      Ins("gv", <<"sw", "sw">>, <<>>, {"SQUARE", "INV"}),
      Ins("gv", <<"sw", "p">>, <<>>, {"INPUTMASK"}),
      Ins("v", <<"sw", "cw", "ci">>, <<>>, {"INPUTMASKREG"}),
      Ins("gv", <<"str">>, <<"sw">>, {"PREP"}) }

(* The operands of inputmixed depend on the type that heads each group:     *)
(* integers, fixed-point and floating-point numbers have 1, 1 and 4         *)
(* destinations and 0, 1 and 1 parameters.                                  *)
InputTypes == [t \in 0..2 |-> [dest |-> <<1, 1, 4>>[t + 1], param |-> <<0, 1, 1>>[t + 1]]]

Inputs ==
    UNION {
      Ins("gv", <<>>, <<"sw", "p">>, {"INPUT"}),
      Ins("v", <<>>, <<"sw", "int", "p">>, {"INPUTFIX"}),
      Ins("v", <<>>, <<"sw", "sw", "sw", "sw", "int", "p">>, {"INPUTFLOAT"}),
      Ins("v", <<>>, <<"type", "p">>, {"INPUTMIXED"}),
      Ins("v", <<>>, <<"type", "ci">>, {"INPUTMIXEDREG"}),
      Ins("gv", <<>>, <<"p", "sw">>, {"RAWINPUT"}) }

Printing ==
    UNION {
      Ins("gv", <<"c", "i">>, <<>>, {"PRINTREG"}),
      Ins("gv", <<"c">>, <<>>, {"PRINTREGPLAIN"}),
      Ins("-", <<"c", "c", "c">>, <<>>, {"CONDPRINTPLAIN"}),
      Ins("-", <<"ci">>, <<>>, {"PRINTINT"}),
      Ins("v", <<"c", "c", "c", "c", "c">>, <<>>, {"PRINTFLOATPLAIN"}),
      Ins("-", <<"int">>, <<>>, {"PRINTFLOATPREC", "PRINTCHR", "PRINTSTR"}),
      Ins("-", <<"c", "int">>, <<>>, {"CONDPRINTSTR"}),
      Ins("v", <<"cw">>, <<>>, {"PUBINPUT"}) }

Sockets ==
    UNION {
      Ins("v", <<"ci">>, <<"cw">>, {"READSOCKETC"}),
      Ins("v", <<"ci">>, <<"sw">>, {"READSOCKETS"}),
      Ins("v", <<"ci">>, <<"ciw">>, {"READSOCKETINT"}),
      Ins("v", <<"ci", "int">>, <<"c">>, {"WRITESOCKETC"}),
      Ins("v", <<"ci", "int">>, <<"s">>, {"WRITESOCKETS", "WRITESOCKETSHARE"}),
      Ins("v", <<"ci", "int">>, <<"ci">>, {"WRITESOCKETINT"}),
      Ins("-", <<"int">>, <<>>, {"LISTEN"}),
      Ins("-", <<"ciw", "int">>, <<>>, {"ACCEPTCLIENTCONNECTION"}) }

FilesAndPrivateOutput ==
    UNION {
      Ins("-", <<>>, <<"s">>, {"WRITEFILESHARE"}),
      Ins("-", <<"ci", "ciw">>, <<"sw">>, {"READFILESHARE"}),
      Ins("gv", <<"c">>, <<>>, {"RAWOUTPUT"}),
      Ins("gv", <<"sw", "s", "p">>, <<>>, {"STARTPRIVATEOUTPUT"}),
      Ins("gv", <<"cw", "c", "p">>, <<>>, {"STOPPRIVATEOUTPUT"}),
      Ins("v", <<"ciw", "ci">>, <<>>, {"RAND"}) }

Integer3 == <<"ciw", "ci", "ci">>

Integers_ ==
    UNION {
      Ins("v", <<"ciw", "i">>, <<>>, {"LDINT"}),
      Ins("v", Integer3, <<>>, {"ADDINT", "SUBINT", "MULINT", "DIVINT"}),
      Ins("v", <<"ci">>, <<"ciw">>, {"BITDECINT"}),
      Ins("l", <<"ciw", "ci", "i", "i", "i">>, <<>>, {"INCINT"}),
      Ins("l", <<"ciw", "ci">>, <<>>, {"SHUFFLE"}) }

ComparisonsAndJumps ==
    UNION {
      Ins("v", <<"ciw", "ci">>, <<>>, {"EQZC", "LTZC"}),
      Ins("v", Integer3, <<>>, {"LTC", "GTC", "EQC"}),
      Ins("-", <<"int">>, <<>>, {"JMP"}),
      Ins("-", <<"ci">>, <<>>, {"JMPI"}),
      Ins("-", <<"ci", "int">>, <<>>, {"JMPNZ", "JMPEQZ"}) }

Conversions ==
    UNION {
      Ins("gv", <<"cw", "ci">>, <<>>, {"CONVINT"}),
      Ins("v", <<"ciw", "c", "int">>, <<>>, {"CONVMODP"}),
      Ins("v", <<"ciw", "cg">>, <<>>, {"GCONVGF2N"}) }

OpenAndMultiply ==
    UNION {
      Ins("gv", <<>>, <<"cw", "s">>, {"OPEN"}),
      Ins("gv", <<>>, <<"sw", "s", "s">>, {"MULS"}),
      Ins("g", <<>>, <<"int", "sw", "s", "s">>, {"MULRS"}),
      Ins("gv", <<>>, <<"length", "sw", "s">>, {"DOTPRODS"}) }

MatrixInstructions ==
    UNION {
      Ins("-", <<"sw", "s", "s", "int", "int", "int">>, <<>>, {"MATMULS"}),
      Ins("-", <<"sw", "ci", "ci", "int", "int", "int", "ci", "ci", "ci", "ci",
                 "int", "int">>, <<>>, {"MATMULSM"}),
      Ins("-", <<"sw", "s", "s">> \o [i \in 1..11 |-> "int"], <<>>, {"CONV2DS"}),
      Ins("v", <<>>, <<"sw", "s", "int", "int">>, {"TRUNC_PR"}) }

BitLogic ==
    UNION {
      Ins("b", <<>>, <<"int", "sbw", "sb", "sb">>, {"XORS", "ANDRS", "ANDS"}),
      Ins("-", <<"int", "sbw", "sb", "cb">>, <<>>, {"XORM"}),
      Ins("b", <<"int", "sbw", "sb", "cb">>, <<>>, {"ANDM"}),
      Ins("b", <<"int", "sbw", "sb">>, <<>>, {"NOTS"}),
      Ins("-", <<"cbw", "cb", "cb">>, <<>>, {"XORCB", "ADDCB"}),
      Ins("-", <<"cbw", "cb", "int">>, <<>>, {"XORCBI", "ADDCBI", "MULCBI"}) }

BitDecompositions ==
    UNION {
      Ins("-", <<"sb">>, <<"sbw">>, {"BITDECS"}),
      Ins("-", <<"sbw">>, <<"sb">>, {"BITCOMS"}),
      Ins("-", <<"cb">>, <<"cbw">>, {"BITDECC"}),
      Ins("-", <<"cbw", "cb", "int">>, <<>>, {"SHRCBI", "SHLCBI"}),
      Ins("-", <<"sbw", "i", "i">>, <<>>, {"LDBITS"}),
      Ins("l", <<"sbw", "int">>, <<>>, {"LDMSB"}),
      Ins("l", <<"sb", "int">>, <<>>, {"STMSB"}),
      Ins("l", <<"cbw", "int">>, <<>>, {"LDMCB"}),
      Ins("l", <<"cb", "int">>, <<>>, {"STMCB"}),
      Ins("l", <<"sbw", "ci">>, <<>>, {"LDMSBI"}),
      Ins("l", <<"sb", "ci">>, <<>>, {"STMSBI"}) }

BitConversions ==
    UNION {
      Ins("-", <<>>, <<"sbw", "cb", "int">>, {"LDMSDI"}),
      Ins("-", <<>>, <<"sb", "cb">>, {"STMSDI"}),
      Ins("-", <<>>, <<"sbw", "int", "int">>, {"LDMSD"}),
      Ins("-", <<>>, <<"sb", "int">>, {"STMSD"}),
      Ins("-", <<>>, <<"cb", "cb">>, {"STMSDCI"}),
      Ins("-", <<"int", "sbw", "ci">>, <<>>, {"CONVSINT"}),
      Ins("-", <<"cbw", "ci">>, <<>>, {"CONVCINT"}),
      Ins("-", <<"ciw", "cb">>, <<>>, {"CONVCBIT"}),
      Ins("v", <<"c">>, <<"cbw">>, {"CONVCINTVEC"}),
      Ins("b", <<"int", "ciw", "cb">>, <<>>, {"CONVCBITVEC"}),
      Ins("b", <<"int", "sbw", "cb">>, <<>>, {"CONVCBIT2S"}),
      Ins("v", <<"two", "s">>, <<"sbw", "sbw">>, {"SPLIT"}),
      Ins("-", <<"sbw", "sb">>, <<>>, {"MOVSB"}) }

BitInputOutput ==
    UNION {
      Ins("b", <<>>, <<"outputs", "sbw", "sb">>, {"TRANS"}),
      Ins("-", <<"sbw">>, <<>>, {"BITB"}),
      Ins("b", <<>>, <<"int", "cbw", "sb">>, {"REVEAL"}),
      Ins("b", <<>>, <<"p", "int", "int", "sbw">>, {"INPUTB"}),
      Ins("-", <<>>, <<"bits", "int", "p", "sbw">>, {"INPUTBVEC"}),
      Ins("l", <<"cb", "i">>, <<>>, {"PRINTREGB"}),
      Ins("-", <<"cb">>, <<>>, {"PRINTREGPLAINB"}),
      Ins("b", <<"int", "cb">>, <<>>, {"PRINTREGSIGNED"}),
      Ins("-", <<"cb", "cb", "cb", "cb", "cb">>, <<>>, {"PRINTFLOATPLAINB"}),
      Ins("-", <<"cb", "int">>, <<>>, {"CONDPRINTSTRB"}) }

=============================================================================
