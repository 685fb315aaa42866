------------------------------- MODULE Turbo -------------------------------
(***************************************************************************)
(* The two passes of Turbospeedz over one program.  The preprocessing pass *)
(* (built with TURBOPREP) draws a permutation element for every wire, the  *)
(* secret register of that number, and opens the offsets of every          *)
(* multiplication; its Processor appends the registers to files when it is *)
(* destroyed.  The online pass (TURBOSPEEDZ) reads them back when its      *)
(* Processor is made and keeps, beside the share S of a wire, the opened   *)
(* external value E, which is the value of the wire plus its permutation   *)
(* element.                                                                *)
(*                                                                         *)
(* Shares are additive over a field of Prime elements.  MACs go through    *)
(* the same linear operations and are left to module MacCheck.  Both       *)
(* parties execute one instruction per step: they meet in every opening.   *)
(***************************************************************************)
EXTENDS Integers, Sequences, FiniteSets, SequencesExt, FiniteSetsExt

CONSTANTS
    Prime,          \* the order of the field
    Randoms,        \* the field elements a random draw may give
    Splits,         \* the share of party 0 in a fresh sharing
    Secrets,        \* the values of the parties' private inputs
    Programs,       \* the programs, sequences of instructions
    Layouts,        \* TRUE: both parties see both directories of files
    ShortProgram    \* programs of at most this length make each pass twice

VARIABLES
    prog, pc, phase,
    reg,      \* reg[p] : the registers of party p, by kind
    files,    \* files[p] : what party p's destructors appended, by register
    together, \* whether the files of the other party can be opened
    plain,    \* the values of the secret registers (ghost)
    opened,   \* the values a correct OPEN gives (ghost)
    passes    \* [prep, online] : how many were made

vars == <<prog, pc, phase, reg, files, together, plain, opened, passes>>

Parties == {0, 1}
Field == 0 .. Prime - 1
Add(x, y) == (x + y) % Prime
Sub(x, y) == (x - y) % Prime
Mul(x, y) == (x * y) % Prime
Value(x) == Add(x[0], x[1])
Fresh(v, s) == [p \in Parties |-> IF p = 0 THEN s ELSE Sub(v, s)]
Constant(v) == [p \in Parties |-> IF p = 0 THEN v % Prime ELSE 0]

(* The registers that an instruction of the turbo builds writes.           *)
SecretsWritten(i) ==
    CASE i.op = "MULS" -> {i.gates[k].z : k \in DOMAIN i.gates}
      [] i.op = "INPUTMIXED" -> {i.wires[k].z : k \in DOMAIN i.wires}
      [] i.op \in {"ADDS", "SUBS", "LDSI", "LDMS", "SUBSFI"} -> {i.z}
      [] OTHER -> {}

(* reset: every file of registers has one entry per secret register.       *)
NumRegs == 1 + Max(UNION {SecretsWritten(prog[k]) : k \in DOMAIN prog})
Reg == 0 .. NumRegs - 1
Kinds == {"S", "C", "E", "Ta", "Tb", "Tc", "Perm", "Offv", "Rand"}
reset == [p \in Parties |-> [k \in Kinds |-> [i \in Reg |-> 0]]]

(* Party p's registers after a list of writes [kind, reg, value].          *)
Write(r, kind, i, x) ==
    [p \in Parties |-> [r[p] EXCEPT ![kind][i] = x[p]]]
Of(r, kind, i) == [p \in Parties |-> r[p][kind][i]]
Both(v) == [p \in Parties |-> v]
Lin(F(_, _), x, y) == [p \in Parties |-> F(x[p], y[p])]

(***************************************************************************)
(* Preprocessing pass.                                                     *)
(***************************************************************************)
(* input_mixed: every input wire gets a shared random element, which its   *)
(* owner alone learns and keeps in E.                                      *)
PrepInput(r, w, mask, s) ==
    LET shared == Write(r, "S", w.z, Fresh(mask, s)) IN
    [shared EXCEPT ![w.player]["E"][w.z] = mask]

(* Mutant: the offset of a factor with its sign turned, as in the plain    *)
(* multiplication.                                                         *)
PrepGateSPDZ(r, r0, g, t) ==
    LET ox == Sub(Value(Of(r0, "S", g.x)), t.a)
        oy == Sub(Value(Of(r0, "S", g.y)), t.b)
        c == Fresh(Mul(t.a, t.b), t.s)
        zperm == Lin(Add, Fresh(t.r, t.s), c)
        offsets == Write(Write(r, "C", g.x, Both(ox)), "C", g.y, Both(oy))
        output == Write(Write(offsets, "S", g.z, zperm), "Tc", g.z, c)
    IN Write(Write(output, "Ta", g.z, Fresh(t.a, t.s)), "Tb", g.z, Fresh(t.b, t.s))

(* muls: offsets of the factors, by the factors' registers, a fresh         *)
(* element for the output and the triple, by the output's register.        *)
PrepGate(r, r0, g, t) ==
    LET ox == Sub(t.a, Value(Of(r0, "S", g.x)))
        oy == Sub(t.b, Value(Of(r0, "S", g.y)))
        c == Fresh(Mul(t.a, t.b), t.s)
        zperm == Lin(Add, Fresh(t.r, t.s), c)
        offsets == Write(Write(r, "C", g.x, Both(ox)), "C", g.y, Both(oy))
        output == Write(Write(offsets, "S", g.z, zperm), "Tc", g.z, c)
    IN Write(Write(output, "Ta", g.z, Fresh(t.a, t.s)), "Tb", g.z, Fresh(t.b, t.s))

Triples == [a : Randoms, b : Randoms, r : Randoms, s : Splits]

(* The random draws i makes in the preprocessing pass, and its effect.     *)
Draws(i) ==
    CASE i.op = "INPUTMIXED" -> [DOMAIN i.wires -> [v : Randoms, s : Splits]]
      [] i.op = "MULS" -> [DOMAIN i.gates -> Triples]
      [] OTHER -> {<<>>}
PrepEffect(r, i, d) ==
    CASE i.op = "INPUTMIXED" ->
            FoldLeftDomain(LAMBDA q, k : PrepInput(q, i.wires[k], d[k].v, d[k].s), r, i.wires)
      [] i.op = "MULS" ->
            FoldLeftDomain(LAMBDA q, k : PrepGate(q, r, i.gates[k], d[k]), r, i.gates)
      [] i.op = "ADDS" -> Write(r, "S", i.z, Lin(Add, Of(r, "S", i.x), Of(r, "S", i.y)))
      [] i.op = "SUBS" -> Write(r, "S", i.z, Lin(Sub, Of(r, "S", i.x), Of(r, "S", i.y)))
      [] i.op = "LDSI" -> Write(r, "S", i.z, Constant(i.n))
      [] i.op \in {"LDMS", "OPEN", "USE"} -> r

(***************************************************************************)
(* Online pass.                                                            *)
(***************************************************************************)
(* input_mixed: the owner broadcasts the external value of the wire.       *)
OnlineInput(r, w, x) ==
    LET t == Add(x, r[w.player]["Rand"][w.z])
        share == Lin(Sub, Constant(t), Of(r, "Perm", w.z))
    IN Write(Write(r, "S", w.z, share), "E", w.z, Both(t))

(* Mutant: every party adds the product of the opened values.              *)
OnlineProductBoth(r, g) ==
    LET ehx == Lin(Add, Of(r, "E", g.x), Of(r, "Offv", g.x))
        ehy == Lin(Add, Of(r, "E", g.y), Of(r, "Offv", g.y))
    IN Write(r, "S", g.z, [p \in Parties |->
                 (Mul(ehx[p], ehy[p]) - ehy[p] * r[p]["Ta"][g.z]
                            - ehx[p] * r[p]["Tb"][g.z] + r[p]["Tc"][g.z]) % Prime])

(* muls: the share of the output from the external values and offsets of   *)
(* the factors and the triple; then the external value of the output is    *)
(* opened.                                                                 *)
OnlineProduct(r, g) ==
    LET ehx == Lin(Add, Of(r, "E", g.x), Of(r, "Offv", g.x))
        ehy == Lin(Add, Of(r, "E", g.y), Of(r, "Offv", g.y))
        square == [p \in Parties |-> IF p = 0 THEN Mul(ehx[p], ehy[p]) ELSE 0]
        vz == [p \in Parties |->
                 (square[p] - ehy[p] * r[p]["Ta"][g.z]
                            - ehx[p] * r[p]["Tb"][g.z] + r[p]["Tc"][g.z]) % Prime]
    IN Write(r, "S", g.z, vz)
(* Mutant: the value is opened, not the external value.                    *)
OnlineExternalBare(r, g) == Write(r, "E", g.z, Both(Value(Of(r, "S", g.z))))
OnlineExternal(r, g) ==
    Write(r, "E", g.z,
          Both(Add(Value(Of(r, "S", g.z)), Value(Of(r, "Perm", g.z)))))

OnlineMuls(r, gates) ==
    FoldLeft(OnlineExternal, FoldLeft(OnlineProduct, r, gates), gates)

(* ADDS and SUBS: shares, external values and permutation elements.        *)
OnlineLinear(r, i) ==
    FoldLeft(LAMBDA q, kind : Write(q, kind, i.z, IF i.op = "ADDS" THEN Lin(Add, Of(r, kind, i.x), Of(r, kind, i.y))
                                                  ELSE Lin(Sub, Of(r, kind, i.x), Of(r, kind, i.y))),
             r, <<"S", "E", "Perm">>)

(* POpen: the clear register gets what the shares add up to.               *)
POpen(r, i) == Write(r, "C", i.c, Both(Value(Of(r, "S", i.s))))

OnlineEffect(r, i, x) ==
    CASE i.op = "INPUTMIXED" ->
            FoldLeftDomain(LAMBDA q, k : OnlineInput(q, i.wires[k], x[k]), r, i.wires)
      [] i.op = "MULS" -> OnlineMuls(r, i.gates)
      [] i.op \in {"ADDS", "SUBS"} -> OnlineLinear(r, i)
      [] i.op \in {"LDSI", "LDMS"} -> Write(r, "S", i.z, Constant(i.n))
      [] i.op = "OPEN" -> POpen(r, i)
      [] i.op = "USE" -> r

(***************************************************************************)
(* The passes.                                                             *)
(***************************************************************************)
Init ==
    /\ prog \in Programs
    /\ pc = 0
    /\ phase = "idle"
    /\ reg = reset
    /\ files = [p \in Parties |-> <<>>]
    /\ together \in Layouts
    /\ plain = [i \in Reg |-> 0]
    /\ opened = <<>>
    /\ passes = [prep |-> 0, online |-> 0]

(* The instructions parse and execute know; the others throw.              *)
Executed(i) == i.op \notin {"SUBSFI"}
(* A clear register is written in a file sized for the secret ones.        *)
InBounds(i) == i.op = "OPEN" => i.c \in Reg

MaxPasses == IF Len(prog) <= ShortProgram THEN 2 ELSE 1

StartPrep ==
    /\ phase = "idle"
    /\ passes.prep < MaxPasses
    /\ phase' = "prep"
    /\ pc' = 1
    /\ reg' = reset
    /\ passes' = [passes EXCEPT !.prep = @ + 1]
    /\ UNCHANGED <<prog, files, together, plain, opened>>

PrepStep ==
    /\ phase = "prep"
    /\ pc <= Len(prog)
    /\ IF Executed(prog[pc])
         THEN /\ \E d \in Draws(prog[pc]) : reg' = PrepEffect(reg, prog[pc], d)
              /\ pc' = pc + 1
              /\ UNCHANGED phase
         ELSE /\ phase' = "failed"
              /\ UNCHANGED <<reg, pc>>
    /\ UNCHANGED <<prog, files, together, plain, opened, passes>>

(* ~Processor: write_prep_data_to_file appends to the six files.            *)
Saved(r) == [i \in 1 .. NumRegs |->
               [k \in {"S", "C", "E", "Ta", "Tb", "Tc"} |-> r[k][i - 1]]]
EndPrep ==
    /\ phase = "prep"
    /\ pc > Len(prog)
    /\ phase' = "idle"
    /\ files' = [p \in Parties |-> files[p] \o Saved(reg[p])]
    /\ reg' = reset
    /\ UNCHANGED <<prog, pc, together, plain, opened, passes>>

(* read_prep_data_from_file: from the start of the files, the other        *)
(* party's too; a missing file is reported and the registers stay zero.    *)
Readable(p) ==
    /\ Len(files[p]) >= NumRegs
    /\ together /\ Len(files[1 - p]) >= NumRegs
Loaded(p) ==
    LET at(k) == [i \in Reg |-> files[p][i + 1][k]] IN
    [reset[p] EXCEPT !["Perm"] = at("S"), !["Offv"] = at("C"), !["Rand"] = at("E"),
                     !["Ta"] = at("Ta"), !["Tb"] = at("Tb"), !["Tc"] = at("Tc")]
StartOnline ==
    /\ phase = "idle"
    /\ passes.online < MaxPasses
    /\ phase' = "online"
    /\ pc' = 1
    /\ reg' = [p \in Parties |-> IF Readable(p) THEN Loaded(p) ELSE reset[p]]
    /\ passes' = [passes EXCEPT !.online = @ + 1]
    /\ UNCHANGED <<prog, files, together, plain, opened>>

(* What the instruction means: the values of the wires it writes.          *)
Meaning(v, i, inputs) ==
    CASE i.op = "INPUTMIXED" ->
            FoldLeftDomain(LAMBDA q, k : [q EXCEPT ![i.wires[k].z] = inputs[k]], v, i.wires)
      [] i.op = "MULS" ->
            FoldLeftDomain(LAMBDA q, k : [q EXCEPT ![i.gates[k].z] =
                             Mul(v[i.gates[k].x], v[i.gates[k].y])], v, i.gates)
      [] i.op = "ADDS" -> [v EXCEPT ![i.z] = Add(v[i.x], v[i.y])]
      [] i.op = "SUBS" -> [v EXCEPT ![i.z] = Sub(v[i.x], v[i.y])]
      [] i.op \in {"LDSI", "LDMS"} -> [v EXCEPT ![i.z] = i.n % Prime]
      [] OTHER -> v

Private(i) == IF i.op = "INPUTMIXED" THEN [DOMAIN i.wires -> Secrets] ELSE {<<>>}

OnlineStep ==
    /\ phase = "online"
    /\ pc <= Len(prog)
    /\ LET i == prog[pc] IN
       IF Executed(i) /\ InBounds(i)
         THEN /\ \E x \in Private(i) : /\ reg' = OnlineEffect(reg, i, x)
                                       /\ plain' = Meaning(plain, i, x)
              /\ opened' = IF i.op = "OPEN"
                             THEN Append(opened, [c |-> i.c, v |-> plain[i.s]])
                             ELSE opened
              /\ pc' = pc + 1
              /\ UNCHANGED phase
         ELSE /\ phase' = "failed"
              /\ UNCHANGED <<reg, plain, opened, pc>>
    /\ UNCHANGED <<prog, files, together, passes>>
EndOnline ==
    /\ phase = "online"
    /\ pc > Len(prog)
    /\ phase' = "idle"
    /\ reg' = reset
    /\ plain' = [i \in Reg |-> 0]
    /\ opened' = <<>>
    /\ UNCHANGED <<prog, pc, files, together, passes>>

Next == StartPrep \/ PrepStep \/ EndPrep \/ StartOnline \/ OnlineStep \/ EndOnline
Spec == Init /\ [][Next]_vars

(***************************************************************************)
(* What is asked of the passes.  Perm, Offv and the triples are kept by    *)
(* register, so a program is supported if every secret register is written *)
(* once, enters one multiplication at most, and does so only if it has an  *)
(* external value: inputs, products and sums of these.                     *)
(***************************************************************************)
Gates(i) == IF i.op = "MULS" THEN i.gates ELSE <<>>
AllGates == FlattenSeq([k \in DOMAIN prog |-> Gates(prog[k])])
Factors == FlattenSeq([k \in DOMAIN AllGates |-> <<AllGates[k].x, AllGates[k].y>>])
Operands(i) ==
    CASE i.op = "MULS" -> UNION {{i.gates[k].x, i.gates[k].y} : k \in DOMAIN i.gates}
      [] i.op \in {"ADDS", "SUBS"} -> {i.x, i.y}
      [] i.op = "OPEN" -> {i.s}
      [] OTHER -> {}
WrittenBefore(n) == UNION {SecretsWritten(prog[k]) : k \in 1 .. n - 1}
MaskedBefore(n) ==
    FoldLeft(LAMBDA W, i : IF i.op \in {"INPUTMIXED", "MULS", "ADDS", "SUBS"} /\
                              (i.op \in {"ADDS", "SUBS"} => {i.x, i.y} \subseteq W)
                             THEN W \cup SecretsWritten(i) ELSE W,
             {}, SubSeq(prog, 1, n - 1))

Supported ==
    /\ \A n \in DOMAIN prog :
         /\ Executed(prog[n]) /\ InBounds(prog[n])
         /\ SecretsWritten(prog[n]) \cap WrittenBefore(n) = {}
         /\ Operands(prog[n]) \subseteq WrittenBefore(n)
         /\ prog[n].op = "MULS" => Operands(prog[n]) \subseteq MaskedBefore(n)
    /\ IsInjective(Factors)

(* Ready: an online pass over a supported program.                         *)
Ready == phase = "online" /\ Supported

TypeOK ==
    /\ pc \in 0 .. Len(prog) + 1
    /\ phase \in {"idle", "prep", "online", "failed"}
    /\ \A p \in Parties : \A k \in Kinds : \A i \in Reg : reg[p][k][i] \in Field
    /\ \A p \in Parties : Len(files[p]) <= 2 * NumRegs
    /\ together \in BOOLEAN
    /\ \A i \in Reg : plain[i] \in Field

(* Every value the online pass opens is the value of the wire in the plain *)
(* evaluation of the program, at both parties.                             *)
Correct ==
    Ready => \A k \in DOMAIN opened : \A p \in Parties :
               \/ reg[p]["C"][opened[k].c] = opened[k].v
               \/ \E l \in DOMAIN opened : l > k /\ opened[l].c = opened[k].c

(* Both parties hold the same external value for a wire that has been      *)
(* computed, and it is the value of the wire plus the permutation element. *)
ExternalValue ==
    Ready => \A i \in WrittenBefore(pc) \cap MaskedBefore(pc) :
               /\ reg[0]["E"][i] = reg[1]["E"][i]
               /\ reg[0]["E"][i] = Add(plain[i], Value(Of(reg, "Perm", i)))

(* The data of a multiplication loaded from the files of the first         *)
(* preparation fit together: a triple, and offsets that take each factor's *)
(* permutation element to its part of the triple.                          *)
Offsets ==
    Ready => \A k \in DOMAIN AllGates :
               LET g == AllGates[k]
                   part(kind, i) == Value(Of(reg, kind, i))
                   matches(i, t) == \A p \in Parties :
                     i \in WrittenBefore(pc) =>
                       Add(part("Perm", i), reg[p]["Offv"][i]) = part(t, g.z)
               IN /\ part("Tc", g.z) = Mul(part("Ta", g.z), part("Tb", g.z))
                  /\ matches(g.x, "Ta") /\ matches(g.y, "Tb")
============================================================================
