---------------------------- MODULE PrepFilesProofs ----------------------------
(***************************************************************************)
(* Theorems about PrepFiles, for any kinds of files, threads, programs,     *)
(* buffer size and number of runs: what a program is counted to use, and    *)
(* that no tuple but a daBit is handed out twice as long as the main tape   *)
(* is the only one.                                                         *)
(***************************************************************************)
EXTENDS PrepFiles, WellFoundedInduction, TLAPS

-----------------------------------------------------------------------------
(* Sums over the instructions of a program.                                *)

\* Every set of numbers has a least element.
LEMMA Least ==
    ASSUME NEW T, T \subseteq Nat, T # {}
    PROVE  \E x \in T : \A y \in T : x <= y
<1>1. IsWellFoundedOn(OpToRel(<, Nat), Nat)
  BY NatLessThanWellFounded
<1>2. PICK x \in T : \A y \in T : ~(<<y, x>> \in OpToRel(<, Nat))
  BY <1>1, WFMin
<1>3. \A y \in T : ~(y < x)
  BY <1>2 DEF OpToRel
<1>4. QED BY <1>3

\* A set of numbers that has 0, and the next of each one it has, has them all.
LEMMA Upwards ==
    ASSUME NEW n \in Nat, NEW S, 0 \in S,
           \A i \in 0 .. n : i \in S /\ i < n => i + 1 \in S
    PROVE  \A i \in 0 .. n : i \in S
<1>1. PICK T : T = {i \in 0 .. n : i \notin S}
  OBVIOUS
<1>2. SUFFICES ASSUME T # {} PROVE FALSE
  BY <1>1
<1>3. T \subseteq Nat
  BY <1>1
<1>4. PICK i \in T : \A j \in T : i <= j
  BY <1>2, <1>3, Least
<1>5. i \in 0 .. n /\ i \notin S
  BY <1>1, <1>4
<1>6. i # 0
  BY <1>5
<1>7. i - 1 \in 0 .. n /\ i - 1 < n /\ ~(i <= i - 1)
  BY <1>5, <1>6
<1>8. i - 1 \in S
  BY <1>1, <1>4, <1>7
<1>9. (i - 1) + 1 \in S /\ (i - 1) + 1 = i
  BY <1>5, <1>7, <1>8
<1>10. QED BY <1>5, <1>9

\* The thread an instruction is counted for, and what it needs if that is
\* one of T.
Target(i) == IF i.do = "tape" THEN i.t ELSE 0
NeedsIn(i, k, T) == IF Target(i) \in T THEN Needs(i, k) ELSE 0

\* f adds up the first instructions of q.
AddsUp(q, k, T, f) ==
    /\ f \in [0 .. Len(q) -> Nat]
    /\ f[0] = 0
    /\ \A i \in 1 .. Len(q) : f[i] = f[i - 1] + NeedsIn(q[i], k, T)
SumOf(q, k, T) == CHOOSE f : AddsUp(q, k, T, f)

\* What an instruction needs.
LEMMA NeedsFacts ==
    ASSUME NEW q \in Seq(Instruction), NEW k, NEW T, NEW i \in 1 .. Len(q)
    PROVE  /\ q[i] \in Instruction /\ Needs(q[i], k) \in Nat /\ NeedsIn(q[i], k, T) \in Nat
           /\ Target(q[i]) \in Thread
<1>1. q[i] \in Instruction
  OBVIOUS
<1>2. QED BY <1>1 DEF Instruction, Needs, NeedsIn, Target, Thread

\* There is such a function.
LEMMA SumFacts ==
    ASSUME NEW q \in Seq(Instruction), NEW k, NEW T
    PROVE  AddsUp(q, k, T, SumOf(q, k, T))
<1>1. PICK n : n = Len(q) /\ n \in Nat
  OBVIOUS
<1>2. PICK S : S = {m \in 0 .. n :
                      \E f \in [0 .. n -> Nat] :
                         f[0] = 0 /\ \A i \in 1 .. m : f[i] = f[i - 1] + NeedsIn(q[i], k, T)}
  OBVIOUS
<1>3. 0 \in S
  <2>1. PICK f : f = [i \in 0 .. n |-> 0]
    OBVIOUS
  <2>2. f \in [0 .. n -> Nat] /\ f[0] = 0
    BY <1>1, <2>1
  <2>3. QED BY <1>1, <1>2, <2>2
<1>4. ASSUME NEW m \in 0 .. n, m \in S, m < n PROVE m + 1 \in S
  <2>1. PICK f \in [0 .. n -> Nat] :
           f[0] = 0 /\ \A i \in 1 .. m : f[i] = f[i - 1] + NeedsIn(q[i], k, T)
    BY <1>2, <1>4
  <2>2. PICK l : l = m + 1
    OBVIOUS
  <2>3. l \in 1 .. n /\ l - 1 = m /\ m \in Nat /\ l \in 0 .. n
    BY <1>1, <1>4, <2>2
  <2>4. PICK v : v = f[m] + NeedsIn(q[l], k, T)
    OBVIOUS
  <2>5. v \in Nat
    BY <1>1, <2>3, <2>4, NeedsFacts
  <2>6. PICK g : g = [f EXCEPT ![l] = v]
    OBVIOUS
  <2>7. g \in [0 .. n -> Nat] /\ g[l] = v /\ \A i \in 0 .. n : i # l => g[i] = f[i]
    BY <2>3, <2>5, <2>6
  <2>8. g[0] = 0
    BY <1>1, <2>1, <2>3, <2>7
  <2>9. ASSUME NEW i \in 1 .. l PROVE g[i] = g[i - 1] + NeedsIn(q[i], k, T)
    <3>1. CASE i = l
      BY <2>3, <2>4, <2>7, <3>1
    <3>2. CASE i # l
      <4>1. i \in 1 .. m /\ i - 1 \in 0 .. n /\ i - 1 # l /\ i \in 0 .. n
        BY <1>1, <2>2, <2>3, <3>2
      <4>2. QED BY <2>1, <2>7, <3>2, <4>1
    <3>3. QED BY <3>1, <3>2
  <2>10. QED BY <1>2, <2>2, <2>3, <2>7, <2>8, <2>9
<1>5. n \in S
  <2>1. \A i \in 0 .. n : i \in S
    BY <1>1, <1>3, <1>4, Upwards
  <2>2. QED BY <1>1, <2>1
<1>6. \E f : AddsUp(q, k, T, f)
  BY <1>1, <1>2, <1>5 DEF AddsUp
<1>7. QED BY <1>6 DEF SumOf

\* Sums grow.
LEMMA SumGrows ==
    ASSUME NEW q \in Seq(Instruction), NEW k, NEW T, NEW i \in 0 .. Len(q), NEW j \in 0 .. Len(q), i <= j
    PROVE  SumOf(q, k, T)[i] <= SumOf(q, k, T)[j] /\ SumOf(q, k, T)[i] \in Nat /\ SumOf(q, k, T)[j] \in Nat
<1>1. PICK n, f : n = Len(q) /\ f = SumOf(q, k, T)
  OBVIOUS
<1>2. n \in Nat /\ AddsUp(q, k, T, f)
  BY <1>1, SumFacts
<1>3. f \in [0 .. n -> Nat] /\ \A m \in 1 .. n : f[m] = f[m - 1] + NeedsIn(q[m], k, T)
  BY <1>1, <1>2 DEF AddsUp
<1>4. PICK S : S = {m \in 0 .. n : i <= m => f[i] <= f[m]}
  OBVIOUS
<1>5. 0 \in S
  BY <1>1, <1>2, <1>3, <1>4
<1>6. ASSUME NEW m \in 0 .. n, m \in S, m < n PROVE m + 1 \in S
  <2>1. PICK l : l = m + 1
    OBVIOUS
  <2>2. l \in 1 .. n /\ l - 1 = m /\ l \in 0 .. n /\ m \in Nat
    BY <1>2, <1>6, <2>1
  <2>3. f[l] = f[m] + NeedsIn(q[l], k, T) /\ NeedsIn(q[l], k, T) \in Nat
    BY <1>1, <1>3, <2>2, NeedsFacts
  <2>4. f[m] <= f[l] /\ f[m] \in Nat /\ f[l] \in Nat /\ f[i] \in Nat
    <3>1. f[m] \in Nat /\ f[i] \in Nat
      BY <1>1, <1>3
    <3>2. QED BY <2>3, <3>1
  <2>5. i <= l => i <= m \/ i = l
    BY <1>1, <2>1, <2>2
  <2>6. i <= l => f[i] <= f[l]
    BY <1>4, <1>6, <2>4, <2>5
  <2>7. QED BY <1>4, <2>1, <2>2, <2>6
<1>7. \A m \in 0 .. n : m \in S
  BY <1>2, <1>5, <1>6, Upwards
<1>8. QED BY <1>1, <1>3, <1>4, <1>7

\* One more instruction.
LEMMA SumStep ==
    ASSUME NEW q \in Seq(Instruction), NEW k, NEW T, NEW i \in 0 .. Len(q), i < Len(q)
    PROVE  /\ i + 1 \in 0 .. Len(q)
           /\ SumOf(q, k, T)[i + 1] = SumOf(q, k, T)[i] + NeedsIn(q[i + 1], k, T)
           /\ SumOf(q, k, T)[i] \in Nat /\ SumOf(q, k, T)[i + 1] \in Nat
<1>1. PICK l, f : l = i + 1 /\ f = SumOf(q, k, T)
  OBVIOUS
<1>2. l \in 1 .. Len(q) /\ l - 1 = i /\ l \in 0 .. Len(q)
  BY <1>1
<1>3. f \in [0 .. Len(q) -> Nat] /\ f[l] = f[l - 1] + NeedsIn(q[l], k, T)
  BY <1>1, <1>2, SumFacts DEF AddsUp
<1>4. QED BY <1>1, <1>2, <1>3

\* What two sets of threads need is the sum of what each needs.
LEMMA SumUnion ==
    ASSUME NEW q \in Seq(Instruction), NEW k, NEW T, NEW t, t \notin T, NEW n, n = Len(q)
    PROVE  SumOf(q, k, T \cup {t})[n] = SumOf(q, k, T)[n] + SumOf(q, k, {t})[n]
<1>1. PICK f, g, h : f = SumOf(q, k, T) /\ g = SumOf(q, k, {t}) /\ h = SumOf(q, k, T \cup {t})
  OBVIOUS
<1>2. n \in Nat /\ AddsUp(q, k, T, f) /\ AddsUp(q, k, {t}, g) /\ AddsUp(q, k, T \cup {t}, h)
  BY <1>1, SumFacts
<1>3. /\ f \in [0 .. n -> Nat] /\ g \in [0 .. n -> Nat] /\ h \in [0 .. n -> Nat]
      /\ f[0] = 0 /\ g[0] = 0 /\ h[0] = 0
      /\ \A m \in 1 .. n : /\ f[m] = f[m - 1] + NeedsIn(q[m], k, T)
                           /\ g[m] = g[m - 1] + NeedsIn(q[m], k, {t})
                           /\ h[m] = h[m - 1] + NeedsIn(q[m], k, T \cup {t})
  BY <1>2 DEF AddsUp
<1>4. PICK S : S = {m \in 0 .. n : h[m] = f[m] + g[m]}
  OBVIOUS
<1>5. 0 \in S
  BY <1>2, <1>3, <1>4
<1>6. ASSUME NEW m \in 0 .. n, m \in S, m < n PROVE m + 1 \in S
  <2>1. PICK l : l = m + 1
    OBVIOUS
  <2>2. l \in 1 .. n /\ l - 1 = m /\ l \in 0 .. n /\ m \in Nat
    BY <1>2, <1>6, <2>1
  <2>3. NeedsIn(q[l], k, T \cup {t}) = NeedsIn(q[l], k, T) + NeedsIn(q[l], k, {t})
    <3>1. Needs(q[l], k) \in Nat
      BY <2>2, NeedsFacts
    <3>2. QED BY <3>1 DEF NeedsIn
  <2>4. /\ f[l] = f[m] + NeedsIn(q[l], k, T) /\ g[l] = g[m] + NeedsIn(q[l], k, {t})
        /\ h[l] = h[m] + NeedsIn(q[l], k, T \cup {t})
    BY <1>3, <2>2
  <2>5. /\ NeedsIn(q[l], k, T) \in Nat /\ NeedsIn(q[l], k, {t}) \in Nat
        /\ f[m] \in Nat /\ g[m] \in Nat
    BY <1>3, <2>2, NeedsFacts
  <2>6. h[l] = f[l] + g[l]
    BY <1>4, <1>6, <2>3, <2>4, <2>5
  <2>7. QED BY <1>4, <2>1, <2>2, <2>6
<1>7. \A m \in 0 .. n : m \in S
  BY <1>2, <1>5, <1>6, Upwards
<1>8. n \in S
  BY <1>2, <1>7
<1>9. h[n] = f[n] + g[n]
  BY <1>4, <1>8
<1>10. QED BY <1>1, <1>9

\* Nothing is needed by no thread.
LEMMA SumNone ==
    ASSUME NEW q \in Seq(Instruction), NEW k, NEW n, n = Len(q)
    PROVE  SumOf(q, k, {})[n] \in Nat /\ SumOf(q, k, {})[n] >= 0
<1>1. n \in 0 .. Len(q)
  OBVIOUS
<1>2. QED BY <1>1, SumGrows

\* get_offline_data_used is the sum over all threads.
LEMMA UsedIsSum ==
    ASSUME NEW q \in Seq(Instruction), NEW k \in Kind
    PROVE  OfflineDataUsed(q)[k] = SumOf(q, k, Thread)[Len(q)] /\ OfflineDataUsed(q)[k] \in Nat
<1>1. PICK n, f : n = Len(q) /\ f = SumOf(q, k, Thread)
  OBVIOUS
<1>2. n \in Nat /\ AddsUp(q, k, Thread, f)
  BY <1>1, SumFacts
<1>3. f \in [0 .. n -> Nat] /\ f[0] = 0
  BY <1>1, <1>2 DEF AddsUp
<1>4. ASSUME NEW m \in 1 .. n PROVE f[m] = f[m - 1] + Needs(q[m], k)
  <2>1. f[m] = f[m - 1] + NeedsIn(q[m], k, Thread)
    BY <1>1, <1>2 DEF AddsUp
  <2>2. Target(q[m]) \in Thread
    BY <1>1, NeedsFacts
  <2>3. QED BY <2>1, <2>2 DEF NeedsIn
<1>5. PICK h : h = CHOOSE e : e = [i \in 0 .. Len(q) |-> IF i = 0 THEN 0 ELSE e[i - 1] + Needs(q[i], k)]
  OBVIOUS
<1>6. OfflineDataUsed(q)[k] = h[Len(q)]
  BY <1>5 DEF OfflineDataUsed
<1>7. f = [i \in 0 .. n |-> IF i = 0 THEN 0 ELSE f[i - 1] + Needs(q[i], k)]
  <2>1. ASSUME NEW i \in 0 .. n PROVE f[i] = IF i = 0 THEN 0 ELSE f[i - 1] + Needs(q[i], k)
    BY <1>2, <1>3, <1>4
  <2>2. QED BY <1>3, <2>1
<1>8. h = [i \in 0 .. n |-> IF i = 0 THEN 0 ELSE h[i - 1] + Needs(q[i], k)]
  BY <1>1, <1>5, <1>7
<1>9. PICK S : S = {m \in 0 .. n : h[m] = f[m]}
  OBVIOUS
<1>10. 0 \in S
  BY <1>2, <1>3, <1>8, <1>9
<1>11. ASSUME NEW m \in 0 .. n, m \in S, m < n PROVE m + 1 \in S
  <2>1. PICK l : l = m + 1
    OBVIOUS
  <2>2. l \in 1 .. n /\ l - 1 = m /\ l \in 0 .. n /\ l # 0
    BY <1>2, <1>11, <2>1
  <2>3. h[l] = h[m] + Needs(q[l], k)
    BY <1>8, <2>2
  <2>4. f[l] = f[m] + Needs(q[l], k)
    BY <1>4, <2>2
  <2>5. QED BY <1>9, <1>11, <2>1, <2>2, <2>3, <2>4
<1>12. n \in S
  <2>1. \A m \in 0 .. n : m \in S
    BY <1>2, <1>10, <1>11, Upwards
  <2>2. QED BY <1>2, <2>1
<1>13. QED BY <1>1, <1>2, <1>3, <1>6, <1>9, <1>12

-----------------------------------------------------------------------------
(* The invariant.                                                          *)

\* What thread t may still count for: the rest of its job, and what its tape
\* has got.
Left(t, k) == IF t # 0 /\ job[t].k = k THEN job[t].n ELSE 0
Pending(t, k) ==
    IF wpc[t] = "job" THEN Left(t, k)
    ELSE IF wpc[t] = "tape" THEN usage[t][k] - skipped[t][k] + Left(t, k)
    ELSE 0

\* A buffer does not hold more than was read, usage counts what was skipped.
Buffers ==
    \A t \in Thread, k \in Kind :
        reader[t][k].left <= reader[t][k].at /\ skipped[t][k] <= usage[t][k]

\* What holds in the phases of a run.
Phases ==
    /\ phase = "off" => prog = <<>> /\ usage[0] = Zero /\ \A t \in Thread : wpc[t] = "idle"
    /\ phase = "run" => summed = {} /\ wpc[0] # "idle"
    /\ phase # "prune" => pruned = 0
    /\ phase \in {"count", "prune"} => wpc[0] = "finished"
    /\ prepared # <<>> => phase = "off"

\* No thread counts more than the instructions before ic give it.
Accounts ==
    /\ \A t \in Thread, k \in Kind :
          actual[t][k] + Pending(t, k) <= SumOf(prog, k, {t})[ic]
    /\ phase = "count" =>
          \A k \in Kind : pos[k] <= SumOf(prog, k, summed)[Len(prog)]

\* Files hold what was generated last.
FilesHold ==
    \A k \in Kind :
        disk[k].exists =>
            /\ disk[k].from <= disk[k].first /\ disk[k].first <= disk[k].last
            /\ disk[k].last = fresh[k]

\* Files have the size the program they were prepared for asks for.
Sized(q) ==
    \A k \in Kind :
        disk[k].exists => disk[k].last - disk[k].first = Rounded(OfflineDataUsed(q)[k])
SizesFit ==
    /\ prepared # <<>> => Sized(prepared)
    /\ fit /\ phase = "run" /\ prog # <<>> => Sized(prog)

\* With the main tape only, the position in a file is what was used of it and
\* what the buffer still holds, full buffers all of it.
MainOnly ==
    /\ \A i \in DOMAIN prog : prog[i].do = "get"
    /\ \A t \in Helper : wpc[t] = "idle" /\ actual[t] = Zero
    /\ job[0].pos = Zero /\ skipped[0] = Zero
    /\ \A k \in Kind :
          /\ reader[0][k].at = reader[0][k].left + usage[0][k]
          /\ \E j \in 0 .. reader[0][k].at : reader[0][k].at = j * BufferSize
    /\ wpc[0] \in {"idle", "job"} =>
          ic = 0 /\ \A k \in Kind : reader[0][k].at = 0 /\ reader[0][k].left = 0
    /\ wpc[0] = "tape" => \A k \in Kind : usage[0][k] = SumOf(prog, k, {0})[ic]
    /\ actual[0] = IF wpc[0] = "finished" THEN usage[0] ELSE Zero
    /\ phase = "count" => \A k \in Kind : pos[k] = IF 0 \in summed THEN usage[0][k] ELSE 0
    /\ phase = "prune" => \A k \in Kind : pos[k] = usage[0][k]

\* The first tuple of a file that has not been used.
Pruned(k) == \E j \in 1 .. pruned : Kinds[j] = k
Unused(k) == disk[k].first + IF Pruned(k) THEN 0 ELSE usage[0][k]

\* No tuple of kind k was handed out twice, and those before Unused(k) once.
HandedOut(k) ==
    /\ again[k] = {} /\ \A i \in used[k] : i < fresh[k]
    /\ disk[k].exists =>
          /\ \A i \in disk[k].from .. fresh[k] - 1 : i \in used[k] <=> i < Unused(k)
          /\ Pruned(k) \/ disk[k].first + reader[0][k].at <= disk[k].last
    /\ ~disk[k].exists => reader[0][k].at = 0

-----------------------------------------------------------------------------
(* The beginning and the end of a run.                                     *)

\* The types of what belongs to a run, and of the rest.
RunTypes ==
    /\ prog \in Program \cup {<<>>} /\ ic \in 0 .. Len(prog) /\ pos \in [Kind -> Nat]
    /\ counted \subseteq Kind /\ summed \subseteq Thread /\ pruned \in 0 .. Len(Kinds)
    /\ wpc \in [Thread -> {"idle", "job", "tape", "finished"}]
    /\ job \in [Thread -> [pos : [Kind -> Nat], k : Kind, n : Nat]]
    /\ reader \in [Thread -> [Kind -> [at : Nat, left : 0 .. BufferSize]]]
    /\ usage \in [Thread -> [Kind -> Nat]] /\ skipped \in [Thread -> [Kind -> Nat]]
    /\ actual \in [Thread -> [Kind -> Nat]]
OtherTypes ==
    /\ disk \in [Kind -> [exists : BOOLEAN, from : Nat, first : Nat, last : Nat]]
    /\ fresh \in [Kind -> Nat] /\ prepared \in Program \cup {<<>>}
    /\ fit \in BOOLEAN /\ alone \in BOOLEAN /\ runs \in 0 .. MaxRuns
    /\ phase \in {"off", "run", "count", "prune"} /\ clean \in BOOLEAN
    /\ used \in [Kind -> SUBSET Nat] /\ again \in [Kind -> SUBSET Nat]
    /\ why \in {"none", "ok", "failure", "shortage", "missing", "prune", "excess"}

Inv ==
    /\ RunTypes /\ OtherTypes /\ Buffers /\ Phases /\ Accounts /\ FilesHold /\ SizesFit
    /\ alone => MainOnly
    /\ alone /\ clean => \A k \in Kind \ Dabits : HandedOut(k)
    /\ NoShortage /\ NoExcess

\* Together they are the types.
LEMMA TypeParts == TypeOK <=> RunTypes /\ OtherTypes
<1>1. TypeOK => RunTypes
  BY DEF TypeOK, RunTypes
<1>2. TypeOK => OtherTypes
  BY DEF TypeOK, OtherTypes
<1>3. ASSUME RunTypes, OtherTypes PROVE TypeOK
  <2>1. /\ {prepared, prog} \subseteq Program \cup {<<>>}
        /\ {usage, skipped, actual} \subseteq [Thread -> [Kind -> Nat]]
        /\ {used, again} \subseteq [Kind -> SUBSET Nat]
    BY <1>3 DEF RunTypes, OtherTypes
  <2>2. QED BY <1>3, <2>1 DEF TypeOK, RunTypes, OtherTypes
<1>4. QED BY <1>1, <1>2, <1>3

\* What the constants are.
LEMMA ConstantFacts ==
    /\ Kinds \in Seq(Kind) /\ Kinds[1] \in Kind /\ 0 \in Thread /\ Helper \subseteq Thread
    /\ 0 \notin Helper /\ BufferSize \in Nat /\ BufferSize > 0 /\ Bulk \in Nat
    /\ MaxRuns \in Nat /\ \A t \in Thread : t # 0 => t \in Helper
    /\ \A i \in 1 .. Len(Kinds) : Kinds[i] \in Kind
    /\ Len(Kinds) \in Nat /\ DOMAIN Kinds = 1 .. Len(Kinds)
    /\ \A k \in Kind : \E i \in 1 .. Len(Kinds) : Kinds[i] = k
<1>1. Kinds \in Seq(Kind) /\ Kinds # <<>>
  BY KindAssumption
<1>2. DOMAIN Kinds = 1 .. Len(Kinds) /\ Len(Kinds) \in Nat
  BY <1>1
<1>3. Len(Kinds) > 0
  BY <1>1, <1>2
<1>4. \A i \in 1 .. Len(Kinds) : Kinds[i] \in Kind
  BY <1>1
<1>5. QED BY <1>1, <1>2, <1>3, <1>4, ThreadAssumption, BufferSizeAssumption,
             GeneratorAssumption, RunAssumption DEF Thread, Kind

\* The main tapes are sequences of instructions.
LEMMA ProgramFacts ==
    ASSUME NEW q, q \in Program \cup {<<>>}
    PROVE  q \in Seq(Instruction) /\ Len(q) \in Nat /\ DOMAIN q = 1 .. Len(q)
<1>1. CASE q = <<>>
  <2>1. <<>> \in Seq(Instruction) /\ Len(<<>>) = 0 /\ DOMAIN <<>> = 1 .. 0
    OBVIOUS
  <2>2. QED BY <1>1, <2>1
<1>2. CASE q \in Program
  <2>1. q \in Seq(Instruction)
    BY <1>2, ProgramAssumption
  <2>2. QED BY <2>1
<1>3. QED BY <1>1, <1>2

\* What a run begins with, and what is left of one that is over.
Reset(q) ==
    /\ prog = q /\ ic = 0 /\ pos = Zero /\ counted = {} /\ summed = {} /\ pruned = 0
    /\ job = [t \in Thread |-> NoWork]
    /\ reader = [t \in Thread |-> [k \in Kind |-> AtStart]]
    /\ usage = [t \in Thread |-> Zero] /\ skipped = [t \in Thread |-> Zero]
    /\ actual = [t \in Thread |-> Zero]

AtReset ==
    /\ \E q \in Program \cup {<<>>} : Reset(q)
    /\ wpc \in [Thread -> {"idle", "job"}]

\* The types are right, and nobody has counted anything.
AfterReset ==
    /\ RunTypes /\ ic = 0 /\ summed = {} /\ pruned = 0
    /\ Buffers /\ (phase # "count" => Accounts)
    /\ usage[0] = Zero /\ actual[0] = Zero /\ skipped[0] = Zero /\ job[0].pos = Zero
    /\ \A t \in Helper : actual[t] = Zero
    /\ \A k \in Kind : reader[0][k].at = 0 /\ reader[0][k].left = 0 /\ usage[0][k] = 0
    /\ ~ \E j \in 1 .. pruned : TRUE

\* At such a state they do.
LEMMA ResetFacts == AtReset => AfterReset
<1> SUFFICES ASSUME NEW q \in Program \cup {<<>>}, Reset(q), wpc \in [Thread -> {"idle", "job"}]
             PROVE  AfterReset
  BY DEF AtReset
<1>1. q \in Seq(Instruction) /\ Len(q) \in Nat
  BY ProgramFacts
<1>2. Zero \in [Kind -> Nat] /\ AtStart \in [at : Nat, left : 0 .. BufferSize]
  BY ConstantFacts DEF Zero, AtStart
<1>3. NoWork \in [pos : [Kind -> Nat], k : Kind, n : Nat] /\ NoWork.pos = Zero /\ NoWork.n = 0
  BY <1>2, ConstantFacts DEF NoWork
<1>4. /\ prog \in Program \cup {<<>>} /\ ic \in 0 .. Len(prog) /\ pos \in [Kind -> Nat]
      /\ counted \subseteq Kind /\ ic = 0 /\ summed = {} /\ pruned = 0 /\ pruned \in 0 .. Len(Kinds)
      /\ ~ \E j \in 1 .. pruned : TRUE
  BY <1>1, <1>2, ConstantFacts DEF Reset
<1>5. /\ job \in [Thread -> [pos : [Kind -> Nat], k : Kind, n : Nat]]
      /\ reader \in [Thread -> [Kind -> [at : Nat, left : 0 .. BufferSize]]]
      /\ usage \in [Thread -> [Kind -> Nat]] /\ skipped \in [Thread -> [Kind -> Nat]]
      /\ actual \in [Thread -> [Kind -> Nat]]
  BY <1>2, <1>3 DEF Reset
<1>6. \A t \in Thread : /\ usage[t] = Zero /\ actual[t] = Zero /\ skipped[t] = Zero
                        /\ job[t].pos = Zero /\ job[t].n = 0
                        /\ \A k \in Kind : reader[t][k] = AtStart
  BY <1>3 DEF Reset
<1>7. \A k \in Kind : Zero[k] = 0
  BY DEF Zero
<1>8. AtStart.at = 0 /\ AtStart.left = 0
  BY DEF AtStart
<1>9. Buffers
  BY <1>6, <1>7, <1>8 DEF Buffers
<1>10. phase # "count" => Accounts
  <2>1. ASSUME NEW t \in Thread, NEW k \in Kind
        PROVE  actual[t][k] + Pending(t, k) <= SumOf(prog, k, {t})[ic]
    <3>1. ic = 0 /\ ic \in 0 .. Len(q) /\ prog = q
      BY <1>1 DEF Reset
    <3>2. SumOf(prog, k, {t})[ic] \in Nat
      BY <1>1, <3>1, SumGrows
    <3>3. Pending(t, k) = 0
      <4>1. Left(t, k) = 0
        BY <1>6 DEF Left
      <4>2. wpc[t] \in {"idle", "job"}
        OBVIOUS
      <4>3. QED BY <4>1, <4>2 DEF Pending
    <3>4. actual[t][k] = 0
      BY <1>6, <1>7
    <3>5. QED BY <3>2, <3>3, <3>4
  <2>2. QED BY <2>1 DEF Accounts
<1>11. wpc \in [Thread -> {"idle", "job", "tape", "finished"}]
  OBVIOUS
<1>12. RunTypes
  BY <1>4, <1>5, <1>11 DEF RunTypes
<1>13. /\ usage[0] = Zero /\ actual[0] = Zero /\ skipped[0] = Zero /\ job[0].pos = Zero
       /\ \A t \in Helper : actual[t] = Zero
       /\ \A k \in Kind : reader[0][k].at = 0 /\ reader[0][k].left = 0 /\ usage[0][k] = 0
  BY <1>6, <1>7, <1>8, ConstantFacts
<1>14. QED BY <1>4, <1>9, <1>10, <1>12, <1>13 DEF AfterReset

-----------------------------------------------------------------------------
(* Runs begin and end.                                                     *)

\* Purge on files that have not been opened leaves them there.
LEMMA NothingPurged == ASSUME OtherTypes PROVE Purge({}) = disk
  BY DEF OtherTypes, Purge

\* A run that begins, or has ended, has used nothing.
MainBegins ==
    /\ AfterReset /\ phase \in {"off", "run"}
    /\ wpc[0] \in {"idle", "job"} /\ \A t \in Helper : wpc[t] = "idle"
    /\ \A i \in DOMAIN prog : prog[i].do = "get"
\* Then what is said of the main tape holds.
LEMMA MainFacts == MainBegins => MainOnly
<1> SUFFICES ASSUME MainBegins PROVE MainOnly
  OBVIOUS
<1>1. \A k \in Kind : /\ reader[0][k].at = 0 /\ reader[0][k].left = 0 /\ usage[0][k] = 0
                      /\ reader[0][k].at = reader[0][k].left + usage[0][k]
  BY DEF MainBegins, AfterReset
<1>2. ASSUME NEW k \in Kind
      PROVE  \E j \in 0 .. reader[0][k].at : reader[0][k].at = j * BufferSize
  <2>1. 0 \in 0 .. 0 /\ 0 = 0 * BufferSize
    BY ConstantFacts
  <2>2. QED BY <1>1, <2>1
<1>3. QED BY <1>1, <1>2 DEF MainBegins, MainOnly, AfterReset

\* What a process begins and ends with.
LEMMA ProcessFacts ==
    ASSUME NEW ph, NEW q \in Program \cup {<<>>}, Process(ph, q),
           wpc' \in [Thread -> {"idle", "job"}]
    PROVE  AfterReset' /\ phase' = ph /\ prog' = q
<1>1. (AtReset => AfterReset)'
  BY ResetFacts, PTL
<1>2. AtReset'
  BY DEF AtReset, Reset, Process
<1>3. QED BY <1>1, <1>2 DEF Process

\* A party that throws has not thrown for excess, nor for shortage of what was
\* prepared for it.
LEMMA ThrowKeeps ==
    ASSUME Inv, NEW how \in {"failure", "shortage", "missing", "prune"}, Throw(how),
           how = "shortage" => ~(fit /\ alone)
    PROVE  Inv'
<1>1. /\ disk' = disk /\ Process("off", <<>>) /\ wpc' = [t \in Thread |-> "idle"]
      /\ why' = how /\ clean' = FALSE
      /\ fresh' = fresh /\ prepared' = prepared /\ fit' = fit /\ alone' = alone
      /\ runs' = runs /\ used' = used /\ again' = again
  BY NothingPurged DEF Throw, Inv, history
<1>2. /\ wpc' \in [Thread -> {"idle", "job"}]
      /\ \A t \in Thread : wpc'[t] = "idle"
  BY <1>1
<1>3. AfterReset' /\ phase' = "off" /\ prog' = <<>>
  BY <1>1, <1>2, ProcessFacts
<1>4. RunTypes' /\ OtherTypes'
  BY <1>1, <1>3 DEF AfterReset, OtherTypes, Inv
<1>5. Buffers' /\ Accounts'
  BY <1>3 DEF AfterReset
<1>6. Phases'
  BY <1>2, <1>3, ConstantFacts DEF Phases, AfterReset
<1>7. FilesHold'
  BY <1>1 DEF Inv, FilesHold
<1>8. SizesFit'
  BY <1>1, <1>3 DEF Inv, SizesFit, Sized
<1>9. MainOnly'
  <2>1. (MainBegins => MainOnly)'
    BY MainFacts, PTL
  <2>2. MainBegins'
    BY <1>2, <1>3, ConstantFacts DEF MainBegins
  <2>3. QED BY <2>1, <2>2
<1>10. NoShortage' /\ NoExcess'
  BY <1>1 DEF NoShortage, NoExcess
<1>11. QED BY <1>1, <1>4, <1>5, <1>6, <1>7, <1>8, <1>9, <1>10 DEF Inv

\* Init.
LEMMA StartsRight == ASSUME Init PROVE Inv
<1>1. Reset(<<>>) /\ phase = "off" /\ wpc \in [Thread -> {"idle", "job"}]
      /\ \A t \in Thread : wpc[t] = "idle"
  BY DEF Init, Reset
<1>2. AfterReset /\ prog = <<>>
  BY <1>1, ResetFacts DEF AtReset, Reset
<1>3. RunTypes /\ OtherTypes
  <2>1. OtherTypes
    <3>1. disk \in [Kind -> [exists : BOOLEAN, from : Nat, first : Nat, last : Nat]]
      BY DEF Init
    <3>2. fresh \in [Kind -> Nat] /\ used \in [Kind -> SUBSET Nat] /\ again \in [Kind -> SUBSET Nat]
      BY DEF Init, Zero
    <3>3. runs \in 0 .. MaxRuns
      BY ConstantFacts DEF Init
    <3>4. QED BY <3>1, <3>2, <3>3 DEF Init, OtherTypes
  <2>2. QED BY <1>2, <2>1 DEF AfterReset
<1>4. Buffers /\ Accounts
  BY <1>1, <1>2 DEF AfterReset
<1>5. Phases
  BY <1>1, <1>2, ConstantFacts DEF Init, Phases, AfterReset
<1>6. FilesHold /\ SizesFit
  BY <1>1 DEF Init, FilesHold, SizesFit
<1>7. MainOnly
  BY <1>1, <1>2, ConstantFacts, MainFacts DEF MainBegins
<1>8. \A k \in Kind : HandedOut(k)
  BY <1>2 DEF Init, HandedOut, AfterReset
<1>9. NoShortage /\ NoExcess
  BY DEF Init, NoShortage, NoExcess
<1>10. QED BY <1>3, <1>4, <1>5, <1>6, <1>7, <1>8, <1>9 DEF Inv

\* StartRun.
LEMMA StartRunKeeps ==
    ASSUME Inv, NEW q \in Program, StartRun(q)
    PROVE  Inv'
<1>1. /\ phase = "off" /\ runs < MaxRuns /\ runs' = runs + 1 /\ Process("run", q)
      /\ wpc' = [t \in Thread |-> IF t = 0 THEN "job" ELSE "idle"]
      /\ fit' = (prepared = q) /\ alone' = (alone /\ \A i \in DOMAIN q : q[i].do = "get")
      /\ prepared' = <<>> /\ why' = "none"
      /\ disk' = disk /\ fresh' = fresh /\ used' = used /\ again' = again /\ clean' = clean
  BY DEF StartRun, history
<1>2. /\ wpc' \in [Thread -> {"idle", "job"}] /\ wpc'[0] = "job"
      /\ \A t \in Helper : wpc'[t] = "idle"
  BY <1>1, ConstantFacts
<1>3. AfterReset' /\ phase' = "run" /\ prog' = q
  BY <1>1, <1>2, ProcessFacts
<1>4. RunTypes' /\ OtherTypes'
  <2>1. runs' \in 0 .. MaxRuns /\ alone' \in BOOLEAN /\ fit' \in BOOLEAN
    BY <1>1, ConstantFacts DEF Inv, OtherTypes
  <2>2. OtherTypes'
    BY <1>1, <1>3, <2>1 DEF OtherTypes, Inv
  <2>3. QED BY <1>3, <2>2 DEF AfterReset
<1>5. Buffers' /\ Accounts'
  BY <1>3 DEF AfterReset
<1>6. Phases'
  BY <1>1, <1>2, <1>3, ConstantFacts DEF Phases, AfterReset
<1>7. FilesHold'
  BY <1>1 DEF Inv, FilesHold
<1>8. SizesFit'
  BY <1>1, <1>3 DEF Inv, SizesFit, Sized
<1>9. alone' => MainOnly'
  <2>1. (MainBegins => MainOnly)'
    BY MainFacts, PTL
  <2>2. alone' => MainBegins'
    BY <1>1, <1>2, <1>3 DEF MainBegins
  <2>3. QED BY <2>1, <2>2
<1>10. ASSUME alone', clean', NEW k \in Kind \ Dabits PROVE HandedOut(k)'
  <2>1. HandedOut(k) /\ pruned = 0 /\ usage[0][k] = 0
    BY <1>1, <1>10 DEF Inv, Phases, Zero
  <2>2. ~Pruned(k) /\ ~Pruned(k)'
    BY <1>3, <2>1 DEF Pruned, AfterReset
  <2>3. Unused(k)' = Unused(k) /\ reader'[0][k].at = 0
    BY <1>1, <1>3, <2>1, <2>2 DEF Unused, AfterReset
  <2>4. disk[k].exists => disk[k].first + 0 <= disk[k].last
    BY <1>10 DEF Inv, FilesHold, OtherTypes
  <2>5. QED BY <1>1, <2>1, <2>2, <2>3, <2>4 DEF HandedOut
<1>11. NoShortage' /\ NoExcess'
  BY <1>1 DEF NoShortage, NoExcess
<1>12. QED BY <1>1, <1>4, <1>5, <1>6, <1>7, <1>8, <1>9, <1>10, <1>11 DEF Inv

\* EndRun: with the last file pruned, all of them are.
LEMMA EndRunKeeps ==
    ASSUME Inv, EndRun
    PROVE  Inv'
<1>1. /\ phase = "prune" /\ pruned = Len(Kinds) /\ Process("off", <<>>)
      /\ wpc' = [t \in Thread |-> "idle"] /\ why' = "ok"
      /\ disk' = disk /\ fresh' = fresh /\ prepared' = prepared /\ fit' = fit
      /\ alone' = alone /\ runs' = runs /\ used' = used /\ again' = again /\ clean' = clean
  BY DEF EndRun, files, history
<1>2. /\ wpc' \in [Thread -> {"idle", "job"}] /\ \A t \in Thread : wpc'[t] = "idle"
  BY <1>1
<1>3. AfterReset' /\ phase' = "off" /\ prog' = <<>>
  BY <1>1, <1>2, ProcessFacts
<1>4. RunTypes' /\ OtherTypes'
  BY <1>1, <1>3 DEF AfterReset, OtherTypes, Inv
<1>5. Buffers' /\ Accounts'
  BY <1>3 DEF AfterReset
<1>6. Phases'
  BY <1>1, <1>2, <1>3, ConstantFacts DEF Inv, Phases, AfterReset
<1>7. FilesHold'
  BY <1>1 DEF Inv, FilesHold
<1>8. SizesFit'
  BY <1>1, <1>3 DEF Inv, SizesFit, Sized
<1>9. MainOnly'
  <2>1. (MainBegins => MainOnly)'
    BY MainFacts, PTL
  <2>2. MainBegins'
    BY <1>2, <1>3, ConstantFacts DEF MainBegins
  <2>3. QED BY <2>1, <2>2
<1>10. ASSUME alone', clean', NEW k \in Kind \ Dabits PROVE HandedOut(k)'
  <2>1. HandedOut(k)
    BY <1>1, <1>10 DEF Inv
  <2>2. Pruned(k) /\ ~Pruned(k)'
    BY <1>1, <1>3, ConstantFacts DEF Pruned, AfterReset
  <2>3. Unused(k)' = Unused(k) /\ reader'[0][k].at = 0
    BY <1>1, <1>3, <2>2 DEF Unused, AfterReset
  <2>4. disk[k].exists => disk[k].first + 0 <= disk[k].last
    BY <1>10 DEF Inv, FilesHold, OtherTypes
  <2>5. QED BY <1>1, <2>1, <2>2, <2>3, <2>4 DEF HandedOut
<1>11. NoShortage' /\ NoExcess'
  BY <1>1 DEF NoShortage, NoExcess
<1>12. QED BY <1>1, <1>4, <1>5, <1>6, <1>7, <1>8, <1>9, <1>10, <1>11 DEF Inv

-----------------------------------------------------------------------------
(* Files are generated.                                                    *)

\* Where nothing of a run is changed.
Still == UNCHANGED <<machine, threads, history, outcome>>

\* New files hold tuples no run has had.
LEMMA WriteKeeps ==
    ASSUME Inv, NEW n \in [Kind -> Nat], Write(n), Still, phase = "off",
           prepared' \in Program \cup {<<>>}, (prepared # <<>> => Sized(prepared))'
    PROVE  Inv'
<1>1. /\ \A k \in Kind : disk'[k] = [exists |-> n[k] > 0, from |-> fresh[k], first |-> fresh[k],
                                     last |-> fresh[k] + n[k]]
      /\ \A k \in Kind : fresh'[k] = fresh[k] + n[k]
      /\ disk' \in [Kind -> [exists : BOOLEAN, from : Nat, first : Nat, last : Nat]]
      /\ fresh' \in [Kind -> Nat]
  BY DEF Write, Inv, OtherTypes
<1>2. /\ fit' = fit /\ alone' = alone /\ runs' = runs /\ phase' = phase /\ prog' = prog /\ pos' = pos
      /\ counted' = counted /\ summed' = summed /\ pruned' = pruned /\ ic' = ic /\ wpc' = wpc
      /\ job' = job /\ reader' = reader /\ usage' = usage /\ skipped' = skipped /\ actual' = actual
      /\ used' = used /\ again' = again /\ clean' = clean /\ why' = why
  BY DEF Still, machine, threads, history, outcome
<1>3. RunTypes'
  BY <1>2 DEF Inv, RunTypes
<1>4. OtherTypes'
  BY <1>1, <1>2 DEF Inv, OtherTypes
<1>5. Buffers'
  BY <1>2 DEF Inv, Buffers
<1>6. Phases'
  BY <1>2 DEF Inv, Phases
<1>7. Accounts'
  BY <1>2 DEF Inv, Accounts, Pending, Left
<1>8. FilesHold'
  <2>1. ASSUME NEW k \in Kind
        PROVE  /\ disk'[k].from <= disk'[k].first /\ disk'[k].first <= disk'[k].last
               /\ disk'[k].last = fresh'[k]
    <3>1. fresh[k] \in Nat /\ n[k] \in Nat
      BY DEF Inv, OtherTypes
    <3>2. /\ disk'[k].from = fresh[k] /\ disk'[k].first = fresh[k]
          /\ disk'[k].last = fresh[k] + n[k]
      BY <1>1
    <3>3. QED BY <1>1, <3>1, <3>2
  <2>2. QED BY <2>1 DEF FilesHold
<1>9. SizesFit'
  BY <1>2 DEF Inv, SizesFit
<1>10. alone' => MainOnly'
  BY <1>2 DEF Inv, MainOnly
<1>11. ASSUME alone', clean', NEW k \in Kind \ Dabits PROVE HandedOut(k)'
  <2>1. /\ HandedOut(k) /\ pruned = 0 /\ reader[0][k].at = 0 /\ usage[0][k] = 0
    <3>1. HandedOut(k) /\ MainOnly
      BY <1>2, <1>11 DEF Inv
    <3>2. wpc[0] = "idle" /\ usage[0] = Zero /\ pruned = 0
      BY ConstantFacts DEF Inv, Phases
    <3>3. QED BY <3>1, <3>2 DEF MainOnly, Zero
  <2>2. ~Pruned(k)'
    BY <1>2, <2>1 DEF Pruned
  <2>3. fresh[k] \in Nat /\ n[k] \in Nat /\ used[k] \in SUBSET Nat
    BY DEF Inv, OtherTypes
  <2>4. /\ disk'[k].from = fresh[k] /\ disk'[k].first = fresh[k]
        /\ disk'[k].last = fresh[k] + n[k] /\ fresh'[k] = fresh[k] + n[k]
    BY <1>1
  <2>5. Unused(k)' = fresh[k]
    BY <1>2, <2>1, <2>2, <2>3, <2>4 DEF Unused
  <2>6. again'[k] = {} /\ \A i \in used'[k] : i < fresh[k] /\ i < fresh'[k]
    BY <1>2, <2>1, <2>3, <2>4 DEF HandedOut
  <2>7. \A i \in fresh[k] .. fresh'[k] - 1 : i \in used'[k] <=> i < fresh[k]
    BY <2>3, <2>4, <2>6
  <2>8. disk'[k].first + reader'[0][k].at <= disk'[k].last
    BY <1>2, <2>1, <2>3, <2>4
  <2>9. QED BY <1>2, <2>1, <2>4, <2>5, <2>6, <2>7, <2>8 DEF HandedOut
<1>12. NoShortage' /\ NoExcess'
  BY <1>2 DEF Inv, NoShortage, NoExcess
<1>13. QED BY <1>3, <1>4, <1>5, <1>6, <1>7, <1>8, <1>9, <1>10, <1>11, <1>12 DEF Inv

\* Whole buffers.
LEMMA RoundedFacts ==
    ASSUME NEW n \in Nat
    PROVE  /\ Rounded(n) \in Nat /\ n <= Rounded(n) /\ (Rounded(n) > 0 => n > 0)
           /\ \E m \in Nat : Rounded(n) = m * BufferSize
<1>1. PICK b, m : b = BufferSize /\ m = (n + b - 1) \div b
  OBVIOUS
<1>2. b \in Nat /\ b > 0
  BY <1>1, ConstantFacts
<1>3. m \in Nat /\ m * b <= n + b - 1 /\ n + b - 1 < (m + 1) * b
  BY <1>1, <1>2
<1>4. m * b \in Nat /\ (m + 1) * b = m * b + b
  BY <1>2, <1>3
<1>5. n <= m * b
  BY <1>2, <1>3, <1>4
<1>6. n = 0 => m * b = 0
  <2>1. CASE n = 0
    <3>1. m * b < b
      BY <1>2, <1>3, <2>1
    <3>2. m = 0 \/ m * b >= b
      BY <1>2, <1>3
    <3>3. QED BY <1>2, <1>4, <3>1, <3>2
  <2>2. QED BY <2>1
<1>7. Rounded(n) = m * b
  BY <1>1 DEF Rounded
<1>8. QED BY <1>1, <1>3, <1>4, <1>5, <1>6, <1>7

\* The offline machine.
LEMMA GenerateKeeps ==
    ASSUME Inv, NEW q \in Program, Generate(q)
    PROVE  Inv'
<1>1. PICK n : n = [k \in Kind |-> Rounded(OfflineDataUsed(q)[k])]
  OBVIOUS
<1>2. Write(n) /\ Still /\ phase = "off" /\ prepared' = q
  BY <1>1 DEF Generate, Still
<1>3. n \in [Kind -> Nat]
  BY <1>1, ProgramFacts, UsedIsSum, RoundedFacts
<1>4. ASSUME NEW k \in Kind PROVE disk'[k].last - disk'[k].first = n[k]
  <2>1. fresh[k] \in Nat /\ n[k] \in Nat
    BY <1>3 DEF Inv, OtherTypes
  <2>2. disk'[k].first = fresh[k] /\ disk'[k].last = fresh[k] + n[k]
    BY <1>2 DEF Write
  <2>3. QED BY <2>1, <2>2
<1>5. Sized(prepared)'
  BY <1>1, <1>2, <1>4 DEF Sized
<1>6. QED BY <1>2, <1>3, <1>5, WriteKeeps

\* A bulk generator.
LEMMA GenerateBulkKeeps == ASSUME Inv, GenerateBulk PROVE Inv'
<1>1. PICK n : n = [k \in Kind |-> Bulk]
  OBVIOUS
<1>2. Write(n) /\ Still /\ phase = "off" /\ prepared' = prepared /\ prepared = <<>>
  BY <1>1 DEF GenerateBulk, Still
<1>3. n \in [Kind -> Nat]
  BY <1>1, ConstantFacts
<1>4. QED BY <1>2, <1>3, WriteKeeps

-----------------------------------------------------------------------------
(* The machine counts what was used and prunes the files.                  *)

\* Where no thread and no file changes, and what was handed out neither.
LEMMA MachineOnly ==
    ASSUME Inv, UNCHANGED <<files, fit, alone, runs, prog, threads, history, outcome>>,
           phase' \in {"run", "count", "prune"}, phase # "off",
           pos' \in [Kind -> Nat], counted' \subseteq Kind, summed' \subseteq Thread,
           pruned' = pruned, pruned = 0,
           phase' = "run" => phase = "run" /\ summed' = {},
           phase' # "run" => wpc[0] = "finished",
           phase' = "count" => \A k \in Kind : pos'[k] <= SumOf(prog, k, summed')[Len(prog)],
           alone /\ phase' = "count" => \A k \in Kind : pos'[k] = IF 0 \in summed' THEN usage[0][k] ELSE 0,
           alone /\ phase' = "prune" => \A k \in Kind : pos'[k] = usage[0][k]
    PROVE  Inv'
<1>1. /\ fit' = fit /\ alone' = alone /\ runs' = runs /\ prog' = prog /\ ic' = ic /\ wpc' = wpc
      /\ job' = job /\ reader' = reader /\ usage' = usage /\ skipped' = skipped /\ actual' = actual
      /\ used' = used /\ again' = again /\ clean' = clean /\ why' = why
      /\ disk' = disk /\ fresh' = fresh /\ prepared' = prepared
  BY DEF files, threads, history, outcome
<1>2. RunTypes' /\ OtherTypes'
  BY <1>1 DEF Inv, RunTypes, OtherTypes
<1>3. Buffers' /\ FilesHold'
  BY <1>1 DEF Inv, Buffers, FilesHold
<1>4. Phases'
  BY <1>1 DEF Inv, Phases
<1>5. Accounts'
  BY <1>1 DEF Inv, Accounts, Pending, Left
<1>6. SizesFit'
  BY <1>1 DEF Inv, SizesFit, Sized
<1>7. alone' => MainOnly'
  BY <1>1 DEF Inv, MainOnly
<1>8. ASSUME alone', clean', NEW k \in Kind \ Dabits PROVE HandedOut(k)'
  <2>1. HandedOut(k)
    BY <1>1, <1>8 DEF Inv
  <2>2. Pruned(k)' = Pruned(k)
    BY DEF Pruned
  <2>3. QED BY <1>1, <2>1, <2>2 DEF HandedOut, Unused
<1>9. NoShortage' /\ NoExcess'
  BY <1>1 DEF Inv, NoShortage, NoExcess
<1>10. QED BY <1>2, <1>3, <1>4, <1>5, <1>6, <1>7, <1>8, <1>9 DEF Inv

\* run() adds to pos while the main tape runs.
LEMMA IncreaseKeeps == ASSUME Inv, NEW k \in Kind, Increase(k) PROVE Inv'
<1>1. /\ phase = "run" /\ phase' = "run" /\ summed' = summed /\ pruned' = pruned
      /\ UNCHANGED <<files, fit, alone, runs, prog, threads, history, outcome>>
      /\ counted' = counted \cup {k}
  BY DEF Increase
<1>2. pos' \in [Kind -> Nat]
  <2>1. prog \in Program \cup {<<>>} /\ pos \in [Kind -> Nat]
    BY DEF Inv, RunTypes
  <2>2. OfflineDataUsed(prog)[k] \in Nat
    BY <2>1, ProgramFacts, UsedIsSum
  <2>3. pos' = [pos EXCEPT ![k] = @ + OfflineDataUsed(prog)[k]]
    BY DEF Increase
  <2>4. QED BY <2>1, <2>2, <2>3
<1>3. counted' \subseteq Kind /\ summed' = {} /\ summed' \subseteq Thread /\ pruned = 0
  BY <1>1 DEF Inv, RunTypes, Phases
<1>4. QED BY <1>1, <1>2, <1>3, MachineOnly

\* The usage is summed from nothing.
LEMMA JoinMainKeeps == ASSUME Inv, JoinMain PROVE Inv'
<1>1. /\ phase = "run" /\ phase' = "count" /\ summed' = summed /\ pruned' = pruned
      /\ UNCHANGED <<files, fit, alone, runs, prog, threads, history, outcome>>
      /\ counted' = counted /\ pos' = Zero /\ wpc[0] = "finished"
  BY DEF JoinMain
<1>2. pos' \in [Kind -> Nat] /\ \A k \in Kind : pos'[k] = 0
  BY <1>1 DEF Zero
<1>3. counted' \subseteq Kind /\ summed' = {} /\ summed' \subseteq Thread /\ pruned = 0
  BY <1>1 DEF Inv, RunTypes, Phases
<1>4. \A k \in Kind : pos'[k] <= SumOf(prog, k, summed')[Len(prog)]
  <2>1. prog \in Seq(Instruction)
    BY ProgramFacts DEF Inv, RunTypes
  <2>2. QED BY <1>2, <1>3, <2>1, SumNone
<1>5. QED BY <1>1, <1>2, <1>3, <1>4, MachineOnly

\* One thread's usage is added.
LEMMA CollectUsageKeeps == ASSUME Inv, NEW t \in Thread, CollectUsage(t) PROVE Inv'
<1>1. /\ phase = "count" /\ phase' = "count" /\ summed' = summed \cup {t} /\ pruned' = pruned
      /\ UNCHANGED <<files, fit, alone, runs, prog, threads, history, outcome>>
      /\ counted' = counted /\ t \notin summed
      /\ pos' = [k \in Kind |-> pos[k] + actual[t][k]]
  BY DEF CollectUsage
<1>2. /\ pos \in [Kind -> Nat] /\ actual[t] \in [Kind -> Nat] /\ prog \in Seq(Instruction)
      /\ ic \in 0 .. Len(prog) /\ Len(prog) \in Nat
      /\ counted' \subseteq Kind /\ summed' \subseteq Thread /\ pruned = 0 /\ wpc[0] = "finished"
  BY <1>1, ProgramFacts DEF Inv, RunTypes, Phases
<1>3. pos' \in [Kind -> Nat]
  BY <1>1, <1>2
<1>4. ASSUME NEW k \in Kind PROVE pos'[k] <= SumOf(prog, k, summed')[Len(prog)]
  <2>1. PICK n, a, s, u : /\ n = Len(prog) /\ a = SumOf(prog, k, summed)[n]
                          /\ s = SumOf(prog, k, {t})[n] /\ u = SumOf(prog, k, {t})[ic]
    OBVIOUS
  <2>2. pos[k] <= a /\ actual[t][k] + Pending(t, k) <= u
    BY <1>1, <2>1 DEF Inv, Accounts
  <2>3. u <= s /\ u \in Nat /\ s \in Nat /\ a \in Nat
    BY <1>2, <2>1, SumGrows
  <2>4. Pending(t, k) \in Nat
    <3>1. /\ wpc[t] \in {"idle", "job", "tape", "finished"} /\ job[t].n \in Nat
          /\ usage[t][k] \in Nat /\ skipped[t][k] \in Nat /\ skipped[t][k] <= usage[t][k]
      BY DEF Inv, RunTypes, Buffers
    <3>2. QED BY <3>1 DEF Pending, Left
  <2>5. pos[k] \in Nat /\ actual[t][k] \in Nat /\ pos'[k] = pos[k] + actual[t][k]
    BY <1>1, <1>2
  <2>6. SumOf(prog, k, summed')[n] = a + s
    BY <1>1, <1>2, <2>1, SumUnion
  <2>7. pos'[k] <= a + s
    BY <2>2, <2>3, <2>4, <2>5
  <2>8. QED BY <2>1, <2>6, <2>7
<1>5. ASSUME alone, NEW k \in Kind PROVE pos'[k] = IF 0 \in summed' THEN usage[0][k] ELSE 0
  <2>1. pos[k] = IF 0 \in summed THEN usage[0][k] ELSE 0
    BY <1>1, <1>5 DEF Inv, MainOnly
  <2>2. actual[t][k] = IF t = 0 THEN usage[0][k] ELSE 0
    <3>1. MainOnly /\ wpc[0] = "finished"
      BY <1>2, <1>5 DEF Inv
    <3>2. CASE t = 0
      BY <3>1, <3>2 DEF MainOnly
    <3>3. CASE t # 0
      <4>1. actual[t] = Zero
        BY <3>1, <3>3, ConstantFacts DEF MainOnly
      <4>2. QED BY <3>3, <4>1 DEF Zero
    <3>4. QED BY <3>2, <3>3
  <2>3. usage[0][k] \in Nat
    BY ConstantFacts DEF Inv, RunTypes
  <2>4. pos'[k] = pos[k] + actual[t][k]
    BY <1>1
  <2>5. QED BY <1>1, <2>1, <2>2, <2>3, <2>4
<1>6. QED BY <1>1, <1>2, <1>3, <1>4, <1>5, MachineOnly

\* No more was used than the program says.
LEMMA CheckUsageKeeps == ASSUME Inv, CheckUsage PROVE Inv'
<1>1. phase = "count" /\ summed = Thread
  BY DEF CheckUsage
<1>2. ~ \E k \in Kind : pos[k] > OfflineDataUsed(prog)[k]
  <2>1. ASSUME NEW k \in Kind PROVE ~(pos[k] > OfflineDataUsed(prog)[k])
    <3>1. prog \in Seq(Instruction) /\ pos[k] \in Nat
      BY ProgramFacts DEF Inv, RunTypes
    <3>2. pos[k] <= SumOf(prog, k, Thread)[Len(prog)]
      BY <1>1 DEF Inv, Accounts
    <3>3. pos[k] <= OfflineDataUsed(prog)[k] /\ OfflineDataUsed(prog)[k] \in Nat
      BY <3>1, <3>2, UsedIsSum
    <3>4. QED BY <3>1, <3>3
  <2>2. QED BY <2>1
<1>3. CASE SeekFails(pos)
  <2>1. Throw("missing")
    BY <1>2, <1>3 DEF CheckUsage
  <2>2. QED BY <2>1, ThrowKeeps
<1>4. CASE ~SeekFails(pos)
  <2>1. /\ phase' = "prune" /\ pos' = pos /\ counted' = counted /\ summed' = summed /\ pruned' = pruned
        /\ UNCHANGED <<files, fit, alone, runs, prog, threads, history, outcome>>
    BY <1>2, <1>4 DEF CheckUsage
  <2>2. /\ pos' \in [Kind -> Nat] /\ counted' \subseteq Kind /\ summed' \subseteq Thread /\ pruned = 0
        /\ wpc[0] = "finished"
    BY <1>1, <2>1 DEF Inv, RunTypes, Phases
  <2>3. alone => \A k \in Kind : pos'[k] = usage[0][k]
    BY <1>1, <2>1, ConstantFacts DEF Inv, MainOnly
  <2>4. QED BY <1>1, <2>1, <2>2, <2>3, MachineOnly
<1>5. QED BY <1>3, <1>4

\* prune of a file leaves what was not used.
LEMMA PruneFileKeeps == ASSUME Inv, PruneFile PROVE Inv'
<1>1. phase = "prune" /\ pruned < Len(Kinds)
  BY DEF PruneFile
<1>2. PICK n, e, at : /\ n = pruned + 1 /\ e = Kinds[n] /\ at = PrunePosition(e)
  OBVIOUS
<1>3. PICK empty \in BOOLEAN : empty <=> ~disk[e].exists \/ (at > 0 /\ disk[e].first + at >= disk[e].last)
  OBVIOUS
<1>4. \/ empty /\ Throw("prune")
      \/ /\ ~empty /\ disk' = [disk EXCEPT ![e].first = @ + at] /\ pruned' = n
         /\ UNCHANGED <<fresh, prepared, fit, alone, runs, phase, prog, pos, counted,
                        summed, threads, history, outcome>>
  BY <1>2, <1>3 DEF PruneFile
<1>5. CASE Throw("prune")
  BY <1>5, ThrowKeeps
<1>6. CASE ~empty /\ disk' = [disk EXCEPT ![e].first = @ + at] /\ pruned' = n
           /\ UNCHANGED <<fresh, prepared, fit, alone, runs, phase, prog, pos, counted,
                          summed, threads, history, outcome>>
  <2>1. /\ fit' = fit /\ alone' = alone /\ runs' = runs /\ prog' = prog /\ ic' = ic /\ wpc' = wpc
        /\ job' = job /\ reader' = reader /\ usage' = usage /\ skipped' = skipped /\ actual' = actual
        /\ used' = used /\ again' = again /\ clean' = clean /\ why' = why
        /\ fresh' = fresh /\ prepared' = prepared /\ phase' = phase /\ pos' = pos
        /\ counted' = counted /\ summed' = summed
    BY <1>6 DEF threads, history, outcome
  <2>2. n \in 1 .. Len(Kinds) /\ e \in Kind /\ pruned \in Nat /\ n \in 0 .. Len(Kinds)
    <3>1. pruned \in 0 .. Len(Kinds)
      BY DEF Inv, RunTypes
    <3>2. n \in 1 .. Len(Kinds) /\ pruned \in Nat /\ n \in 0 .. Len(Kinds)
      BY <1>1, <1>2, <3>1, ConstantFacts
    <3>3. QED BY <1>2, <3>2, ConstantFacts
  <2>3. at \in Nat
    BY <1>2, <2>2 DEF PrunePosition, Inv, RunTypes
  <2>4. disk[e].exists /\ (at = 0 \/ disk[e].first + at < disk[e].last)
    <3>1. disk[e].first \in Nat /\ disk[e].last \in Nat
      BY <2>2 DEF Inv, OtherTypes
    <3>2. QED BY <1>3, <1>6, <2>3, <3>1
  <2>5. /\ \A k \in Kind : k # e => disk'[k] = disk[k]
        /\ disk'[e] = [exists |-> TRUE, from |-> disk[e].from, first |-> disk[e].first + at,
                       last |-> disk[e].last]
        /\ disk' \in [Kind -> [exists : BOOLEAN, from : Nat, first : Nat, last : Nat]]
    <3>1. disk \in [Kind -> [exists : BOOLEAN, from : Nat, first : Nat, last : Nat]]
      BY DEF Inv, OtherTypes
    <3>2. PICK d, r : d = disk[e] /\ r = [d EXCEPT !.first = d.first + at]
      OBVIOUS
    <3>3. d \in [exists : BOOLEAN, from : Nat, first : Nat, last : Nat] /\ d.exists
      BY <2>2, <2>4, <3>1, <3>2
    <3>4. r = [exists |-> TRUE, from |-> d.from, first |-> d.first + at, last |-> d.last]
      BY <3>2, <3>3
    <3>5. r \in [exists : BOOLEAN, from : Nat, first : Nat, last : Nat]
      BY <2>3, <3>3, <3>4
    <3>6. disk' = [disk EXCEPT ![e] = r]
      BY <1>6, <3>2
    <3>7. disk'[e] = r /\ \A k \in Kind : k # e => disk'[k] = disk[k]
      BY <2>2, <3>1, <3>6
    <3>8. disk' \in [Kind -> [exists : BOOLEAN, from : Nat, first : Nat, last : Nat]]
      BY <2>2, <3>1, <3>5, <3>6
    <3>9. QED BY <3>2, <3>4, <3>7, <3>8
  <2>6. RunTypes' /\ OtherTypes'
    BY <1>6, <2>1, <2>2, <2>5 DEF Inv, RunTypes, OtherTypes
  <2>7. Buffers' /\ Accounts'
    BY <2>1 DEF Inv, Buffers, Accounts, Pending, Left
  <2>8. Phases'
    BY <1>1, <2>1 DEF Inv, Phases
  <2>9. FilesHold'
    <3>1. ASSUME NEW k \in Kind, disk'[k].exists
          PROVE  /\ disk'[k].from <= disk'[k].first /\ disk'[k].first <= disk'[k].last
                 /\ disk'[k].last = fresh'[k]
      <4>1. CASE k # e
        BY <2>1, <2>5, <3>1, <4>1 DEF Inv, FilesHold
      <4>2. CASE k = e
        <5>1. /\ disk[e].from <= disk[e].first /\ disk[e].first <= disk[e].last
              /\ disk[e].last = fresh[e]
          BY <2>2, <2>4 DEF Inv, FilesHold
        <5>2. disk[e].from \in Nat /\ disk[e].first \in Nat /\ disk[e].last \in Nat
          BY <2>2 DEF Inv, OtherTypes
        <5>3. QED BY <2>1, <2>3, <2>4, <2>5, <4>2, <5>1, <5>2
      <4>3. QED BY <4>1, <4>2
    <3>2. QED BY <3>1 DEF FilesHold
  <2>10. SizesFit'
    BY <1>1, <2>1 DEF Inv, SizesFit, Phases
  <2>11. alone' => MainOnly'
    BY <2>1 DEF Inv, MainOnly
  <2>12. ASSUME alone', clean', NEW k \in Kind \ Dabits PROVE HandedOut(k)'
    <3>1. HandedOut(k) /\ MainOnly
      BY <2>1, <2>12 DEF Inv
    <3>2. CASE k # e
      <4>1. Pruned(k)' <=> Pruned(k)
        <5>1. \A j \in 1 .. n : j \in 1 .. pruned \/ j = n
          BY <1>2, <2>2
        <5>2. \A j \in 1 .. pruned : j \in 1 .. n
          BY <1>2, <2>2
        <5>3. QED BY <1>2, <1>6, <3>2, <5>1, <5>2 DEF Pruned
      <4>2. Unused(k)' = Unused(k)
        BY <2>1, <2>5, <3>2, <4>1 DEF Unused
      <4>3. QED BY <2>1, <2>5, <3>1, <3>2, <4>1, <4>2 DEF HandedOut
    <3>3. CASE k = e
      <4>1. ~Pruned(e)
        <5>1. ASSUME NEW j \in 1 .. pruned, Kinds[j] = Kinds[n] PROVE FALSE
          <6>1. j # n /\ j \in 1 .. Len(Kinds)
            BY <1>2, <2>2, ConstantFacts
          <6>2. j \in DOMAIN Kinds /\ n \in DOMAIN Kinds
            BY <2>2, <6>1, ConstantFacts
          <6>3. QED BY <5>1, <6>1, <6>2, KindAssumption
        <5>2. QED BY <1>2, <5>1 DEF Pruned
      <4>2. Pruned(e)'
        BY <1>2, <1>6, <2>2 DEF Pruned
      <4>3. at = usage[0][e] /\ usage[0][e] \in Nat /\ disk[e].first \in Nat
        BY <1>1, <1>2, <2>2, <2>12, <3>1, <3>3, ConstantFacts
           DEF PrunePosition, MainOnly, Inv, RunTypes, OtherTypes
      <4>4. Unused(e)' = Unused(e)
        BY <2>1, <2>5, <4>1, <4>2, <4>3 DEF Unused
      <4>5. QED BY <2>1, <2>4, <2>5, <3>1, <3>3, <4>2, <4>4 DEF HandedOut
    <3>4. QED BY <3>2, <3>3
  <2>13. NoShortage' /\ NoExcess'
    BY <2>1 DEF Inv, NoShortage, NoExcess
  <2>14. QED BY <2>6, <2>7, <2>8, <2>9, <2>10, <2>11, <2>12, <2>13 DEF Inv
<1>7. QED BY <1>4, <1>5, <1>6

-----------------------------------------------------------------------------
(* The tapes.                                                              *)

\* Where only the threads go on, and what they are handed out.
LEMMA ThreadsOnly ==
    ASSUME Inv, phase = "run", UNCHANGED <<files, machine, outcome>>,
           ic' \in 0 .. Len(prog), wpc' \in [Thread -> {"idle", "job", "tape", "finished"}],
           job' \in [Thread -> [pos : [Kind -> Nat], k : Kind, n : Nat]],
           reader' \in [Thread -> [Kind -> [at : Nat, left : 0 .. BufferSize]]],
           usage' \in [Thread -> [Kind -> Nat]], skipped' \in [Thread -> [Kind -> Nat]],
           actual' \in [Thread -> [Kind -> Nat]],
           used' \in [Kind -> SUBSET Nat], again' \in [Kind -> SUBSET Nat],
           Buffers', wpc'[0] # "idle",
           \A t \in Thread, k \in Kind : (actual[t][k] + Pending(t, k) <= SumOf(prog, k, {t})[ic])',
           alone => MainOnly',
           alone /\ clean => \A k \in Kind \ Dabits : HandedOut(k)'
    PROVE  Inv'
<1>1. /\ fit' = fit /\ alone' = alone /\ runs' = runs /\ phase' = phase /\ prog' = prog /\ pos' = pos
      /\ counted' = counted /\ summed' = summed /\ pruned' = pruned
      /\ disk' = disk /\ fresh' = fresh /\ prepared' = prepared /\ clean' = clean /\ why' = why
  BY DEF files, machine, outcome
<1>2. RunTypes'
  BY <1>1 DEF Inv, RunTypes
<1>3. OtherTypes'
  BY <1>1 DEF Inv, OtherTypes
<1>4. Phases'
  BY <1>1 DEF Inv, Phases
<1>5. Accounts'
  BY <1>1 DEF Accounts
<1>6. FilesHold'
  BY <1>1 DEF Inv, FilesHold
<1>7. SizesFit'
  BY <1>1 DEF Inv, SizesFit, Sized
<1>8. NoShortage' /\ NoExcess'
  BY <1>1 DEF Inv, NoShortage, NoExcess
<1>9. QED BY <1>1, <1>2, <1>3, <1>4, <1>5, <1>6, <1>7, <1>8 DEF Inv

\* What a buffer holds after a seek.
LEMMA SeekFacts ==
    ASSUME RunTypes, Buffers, NEW t \in Thread, NEW p \in [Kind -> Nat]
    PROVE  /\ Seekg(t, p) \in [Kind -> [at : Nat, left : 0 .. BufferSize]]
           /\ \A k \in Kind : Seekg(t, p)[k].left <= Seekg(t, p)[k].at
           /\ \A k \in Kind : IF k \in Dabits THEN Seekg(t, p)[k] = reader[t][k]
                              ELSE Seekg(t, p)[k].at = p[k] /\ Seekg(t, p)[k].left = 0
<1>1. PICK s : s = Seekg(t, p)
  OBVIOUS
<1>2. ASSUME NEW k \in Kind
      PROVE  /\ s[k] \in [at : Nat, left : 0 .. BufferSize] /\ s[k].left <= s[k].at
             /\ IF k \in Dabits THEN s[k] = reader[t][k] ELSE s[k].at = p[k] /\ s[k].left = 0
  <2>1. s[k] = IF k \in Dabits THEN reader[t][k] ELSE [at |-> p[k], left |-> 0]
    BY <1>1 DEF Seekg
  <2>2. /\ reader[t][k] \in [at : Nat, left : 0 .. BufferSize]
        /\ reader[t][k].left <= reader[t][k].at
    BY DEF RunTypes, Buffers
  <2>3. 0 \in 0 .. BufferSize /\ p[k] \in Nat
    BY ConstantFacts
  <2>4. QED BY <2>1, <2>2, <2>3
<1>3. s \in [Kind -> [at : Nat, left : 0 .. BufferSize]]
  <2>1. s = [k \in Kind |-> IF k \in Dabits THEN reader[t][k] ELSE [at |-> p[k], left |-> 0]]
    BY <1>1 DEF Seekg
  <2>2. QED BY <1>2, <2>1
<1>4. QED BY <1>1, <1>2, <1>3

\* Nothing thread t may still count for is negative.
LEMMA PendingFacts ==
    ASSUME RunTypes, Buffers, NEW t \in Thread, NEW k \in Kind
    PROVE  Pending(t, k) \in Nat /\ Left(t, k) \in Nat /\ actual[t][k] \in Nat
<1>1. /\ wpc[t] \in {"idle", "job", "tape", "finished"} /\ job[t].n \in Nat
      /\ usage[t][k] \in Nat /\ skipped[t][k] \in Nat /\ skipped[t][k] <= usage[t][k]
      /\ actual[t][k] \in Nat
  BY DEF RunTypes, Buffers
<1>2. Left(t, k) \in Nat
  BY <1>1 DEF Left
<1>3. QED BY <1>1, <1>2 DEF Pending

\* With the main tape only, no other thread has work.
LEMMA OnlyMain ==
    ASSUME MainOnly, NEW t \in Thread, wpc[t] # "idle"
    PROVE  t = 0
  BY ConstantFacts DEF MainOnly

\* A tape begins.
LEMMA BeginTapeKeeps == ASSUME Inv, NEW t \in Thread, BeginTape(t) PROVE Inv'
<1>1. CASE SeekFails(job[t].pos)
  <2>1. Throw("missing")
    BY <1>1 DEF BeginTape
  <2>2. QED BY <2>1, ThrowKeeps
<1>2. CASE ~SeekFails(job[t].pos)
  <2>1. PICK s : s = Seekg(t, job[t].pos)
    OBVIOUS
  <2>2. /\ phase = "run" /\ wpc[t] = "job"
        /\ reader' = [reader EXCEPT ![t] = s]
        /\ usage' = [usage EXCEPT ![t] = Zero] /\ skipped' = [skipped EXCEPT ![t] = Zero]
        /\ wpc' = [wpc EXCEPT ![t] = "tape"]
        /\ ic' = ic /\ job' = job /\ actual' = actual /\ used' = used /\ again' = again
        /\ UNCHANGED <<files, machine, outcome>>
    BY <1>2, <2>1 DEF BeginTape, history
  <2>3. RunTypes /\ Buffers /\ OtherTypes
    BY DEF Inv
  <2>4. /\ s \in [Kind -> [at : Nat, left : 0 .. BufferSize]]
        /\ \A k \in Kind : s[k].left <= s[k].at
        /\ \A k \in Kind : IF k \in Dabits THEN s[k] = reader[t][k]
                           ELSE s[k].at = job[t].pos[k] /\ s[k].left = 0
    <3>1. job[t].pos \in [Kind -> Nat]
      BY <2>3 DEF RunTypes
    <3>2. QED BY <2>1, <2>3, <3>1, SeekFacts
  <2>5. Zero \in [Kind -> Nat] /\ \A k \in Kind : Zero[k] = 0
    BY DEF Zero
  <2>6. /\ reader' \in [Thread -> [Kind -> [at : Nat, left : 0 .. BufferSize]]]
        /\ usage' \in [Thread -> [Kind -> Nat]] /\ skipped' \in [Thread -> [Kind -> Nat]]
        /\ wpc' \in [Thread -> {"idle", "job", "tape", "finished"}]
        /\ reader'[t] = s /\ usage'[t] = Zero /\ skipped'[t] = Zero /\ wpc'[t] = "tape"
        /\ \A u \in Thread : u # t => /\ reader'[u] = reader[u] /\ usage'[u] = usage[u]
                                      /\ skipped'[u] = skipped[u] /\ wpc'[u] = wpc[u]
    BY <2>2, <2>3, <2>4, <2>5 DEF RunTypes
  <2>7. Buffers'
    <3>1. ASSUME NEW u \in Thread, NEW k \in Kind
          PROVE  reader'[u][k].left <= reader'[u][k].at /\ skipped'[u][k] <= usage'[u][k]
      <4>1. CASE u = t
        BY <2>4, <2>5, <2>6, <4>1
      <4>2. CASE u # t
        BY <2>3, <2>6, <4>2 DEF Buffers
      <4>3. QED BY <4>1, <4>2
    <3>2. QED BY <3>1 DEF Buffers
  <2>8. ASSUME NEW u \in Thread, NEW k \in Kind
        PROVE  (actual[u][k] + Pending(u, k) <= SumOf(prog, k, {u})[ic])'
    <3>1. actual[u][k] + Pending(u, k) <= SumOf(prog, k, {u})[ic]
      BY DEF Inv, Accounts
    <3>2. Left(u, k)' = Left(u, k) /\ Left(u, k) \in Nat
      BY <2>2, <2>3, PendingFacts DEF Left
    <3>3. Pending(u, k)' = Pending(u, k)
      <4>1. CASE u = t
        <5>1. Pending(u, k) = Left(u, k)
          BY <2>2, <4>1 DEF Pending
        <5>2. Pending(u, k)' = Left(u, k)
          BY <2>5, <2>6, <3>2, <4>1 DEF Pending
        <5>3. QED BY <5>1, <5>2
      <4>2. CASE u # t
        BY <2>6, <3>2, <4>2 DEF Pending
      <4>3. QED BY <4>1, <4>2
    <3>4. prog' = prog /\ ic' = ic /\ actual' = actual
      BY <2>2 DEF machine
    <3>5. QED BY <3>1, <3>3, <3>4
  <2>9. wpc'[0] # "idle"
    BY <2>2, <2>6, ConstantFacts DEF Inv, Phases
  <2>10. ASSUME alone
         PROVE  /\ t = 0 /\ ic = 0 /\ MainOnly
                /\ \A k \in Kind : /\ reader[0][k].at = 0 /\ reader[0][k].left = 0 /\ usage[0][k] = 0
                                   /\ s[k].at = 0 /\ s[k].left = 0
    <3>1. MainOnly
      BY <2>10 DEF Inv
    <3>2. t = 0
      BY <2>2, <3>1, OnlyMain
    <3>3. ic = 0 /\ \A k \in Kind : reader[0][k].at = 0 /\ reader[0][k].left = 0
      BY <2>2, <3>1, <3>2 DEF MainOnly
    <3>4. \A k \in Kind : usage[0][k] \in Nat /\ reader[0][k].at = reader[0][k].left + usage[0][k]
      BY <2>3, <3>1, ConstantFacts DEF MainOnly, RunTypes
    <3>5. job[0].pos = Zero
      BY <3>1 DEF MainOnly
    <3>6. QED BY <2>4, <2>5, <3>1, <3>2, <3>3, <3>4, <3>5
  <2>11. ASSUME alone PROVE MainOnly'
    <3>1. ASSUME NEW k \in Kind
          PROVE  /\ reader'[0][k].at = reader'[0][k].left + usage'[0][k]
                 /\ \E j \in 0 .. reader'[0][k].at : reader'[0][k].at = j * BufferSize
                 /\ usage'[0][k] = SumOf(prog, k, {0})[ic]
      <4>1. reader'[0][k].at = 0 /\ reader'[0][k].left = 0 /\ usage'[0][k] = 0
        BY <2>5, <2>6, <2>10, <2>11
      <4>2. 0 \in 0 .. 0 /\ 0 = 0 * BufferSize
        BY ConstantFacts
      <4>3. SumOf(prog, k, {0})[0] = 0
        <5>1. prog \in Seq(Instruction)
          BY <2>3, ProgramFacts DEF RunTypes
        <5>2. QED BY <5>1, SumFacts DEF AddsUp
      <4>4. QED BY <2>10, <2>11, <4>1, <4>2, <4>3
    <3>2. /\ prog' = prog /\ job' = job /\ ic' = ic /\ actual' = actual /\ phase' = "run"
      BY <2>2 DEF machine
    <3>3. /\ \A i \in DOMAIN prog : prog[i].do = "get"
          /\ \A u \in Helper : wpc[u] = "idle" /\ actual[u] = Zero
          /\ job[0].pos = Zero /\ actual[0] = Zero
      BY <2>2, <2>10, <2>11 DEF MainOnly
    <3>4. /\ \A u \in Helper : wpc'[u] = "idle"
          /\ skipped'[0] = Zero /\ wpc'[0] = "tape"
      <4>1. t = 0
        BY <2>10, <2>11
      <4>2. skipped'[0] = Zero /\ wpc'[0] = "tape"
        BY <2>6, <4>1
      <4>3. ASSUME NEW u \in Helper PROVE wpc'[u] = "idle"
        BY <2>6, <3>3, <4>1, ConstantFacts
      <4>4. QED BY <4>2, <4>3
    <3>5. \A k \in Kind : usage'[0][k] = SumOf(prog', k, {0})[ic']
      BY <3>1, <3>2
    <3>6. /\ \A i \in DOMAIN prog' : prog'[i].do = "get"
          /\ \A u \in Helper : wpc'[u] = "idle" /\ actual'[u] = Zero
          /\ job'[0].pos = Zero /\ skipped'[0] = Zero /\ actual'[0] = Zero
      BY <3>2, <3>3, <3>4
    <3>7. \A k \in Kind : /\ reader'[0][k].at = reader'[0][k].left + usage'[0][k]
                          /\ \E j \in 0 .. reader'[0][k].at : reader'[0][k].at = j * BufferSize
      BY <3>1
    <3>8. QED BY <3>2, <3>4, <3>5, <3>6, <3>7 DEF MainOnly
  <2>12. ASSUME alone, clean, NEW k \in Kind \ Dabits PROVE HandedOut(k)'
    <3>1. HandedOut(k)
      BY <2>12 DEF Inv
    <3>2. reader'[0][k].at = reader[0][k].at /\ usage'[0][k] = usage[0][k]
      BY <2>5, <2>6, <2>10, <2>12
    <3>3. disk' = disk /\ fresh' = fresh /\ pruned' = pruned /\ used' = used /\ again' = again
      BY <2>2 DEF files, machine
    <3>4. Pruned(k)' = Pruned(k)
      BY <3>3 DEF Pruned
    <3>5. Unused(k)' = Unused(k)
      BY <3>2, <3>3, <3>4 DEF Unused
    <3>6. QED BY <3>1, <3>2, <3>3, <3>4, <3>5 DEF HandedOut
  <2>13. /\ ic' \in 0 .. Len(prog)
         /\ job' \in [Thread -> [pos : [Kind -> Nat], k : Kind, n : Nat]]
         /\ actual' \in [Thread -> [Kind -> Nat]]
         /\ used' \in [Kind -> SUBSET Nat] /\ again' \in [Kind -> SUBSET Nat]
    BY <2>2, <2>3 DEF RunTypes, OtherTypes
  <2>14. QED BY <2>2, <2>6, <2>7, <2>8, <2>9, <2>11, <2>12, <2>13, ThreadsOnly
<1>3. QED BY <1>1, <1>2

\* A tape ends: its usage is counted, without what it left to others.
LEMMA EndTapeKeeps == ASSUME Inv, NEW t \in Thread, EndTape(t) PROVE Inv'
<1>1. PICK a : a = UsedBy(t)
  OBVIOUS
<1>2. /\ phase = "run" /\ wpc[t] = "tape"
      /\ actual' = [actual EXCEPT ![t] = a] /\ wpc' = [wpc EXCEPT ![t] = "finished"]
      /\ ic' = ic /\ job' = job /\ reader' = reader /\ usage' = usage /\ skipped' = skipped
      /\ used' = used /\ again' = again
      /\ UNCHANGED <<files, machine, outcome>>
  BY <1>1 DEF EndTape, history
<1>3. RunTypes /\ Buffers /\ OtherTypes
  BY DEF Inv
<1>4. ASSUME NEW k \in Kind
      PROVE  a[k] = actual[t][k] + usage[t][k] - skipped[t][k] /\ a[k] \in Nat
  <2>1. a[k] = actual[t][k] + usage[t][k] - skipped[t][k]
    BY <1>1 DEF UsedBy
  <2>2. /\ actual[t][k] \in Nat /\ usage[t][k] \in Nat /\ skipped[t][k] \in Nat
        /\ skipped[t][k] <= usage[t][k]
    BY <1>3 DEF RunTypes, Buffers
  <2>3. QED BY <2>1, <2>2
<1>5. a \in [Kind -> Nat]
  <2>1. a = [k \in Kind |-> actual[t][k] + usage[t][k] - skipped[t][k]]
    BY <1>1 DEF UsedBy
  <2>2. QED BY <1>4, <2>1
<1>6. /\ actual' \in [Thread -> [Kind -> Nat]]
      /\ wpc' \in [Thread -> {"idle", "job", "tape", "finished"}]
      /\ actual'[t] = a /\ wpc'[t] = "finished"
      /\ \A u \in Thread : u # t => actual'[u] = actual[u] /\ wpc'[u] = wpc[u]
  BY <1>2, <1>3, <1>5 DEF RunTypes
<1>7. Buffers'
  BY <1>2, <1>3 DEF Buffers
<1>8. ASSUME NEW u \in Thread, NEW k \in Kind
      PROVE  (actual[u][k] + Pending(u, k) <= SumOf(prog, k, {u})[ic])'
  <2>1. PICK n : n = SumOf(prog, k, {u})[ic]
    OBVIOUS
  <2>2. actual[u][k] + Pending(u, k) <= n
    BY <2>1 DEF Inv, Accounts
  <2>3. n = SumOf(prog, k, {u})[ic]'
    BY <1>2, <2>1 DEF machine
  <2>4. Left(u, k)' = Left(u, k) /\ Left(u, k) \in Nat /\ n \in Nat
    <3>1. prog \in Seq(Instruction) /\ ic \in 0 .. Len(prog)
      BY <1>3, ProgramFacts DEF RunTypes
    <3>2. QED BY <1>2, <1>3, <2>1, <3>1, PendingFacts, SumGrows DEF Left
  <2>5. CASE u = t
    <3>1. Pending(u, k) = usage[t][k] - skipped[t][k] + Left(u, k)
      BY <1>2, <2>5 DEF Pending
    <3>2. Pending(u, k)' = 0 /\ actual'[u][k] = a[k]
      BY <1>6, <2>5 DEF Pending
    <3>3. /\ actual[t][k] \in Nat /\ usage[t][k] \in Nat /\ skipped[t][k] \in Nat
          /\ skipped[t][k] <= usage[t][k]
      BY <1>3 DEF RunTypes, Buffers
    <3>4. actual'[u][k] + 0 <= n
      BY <1>4, <2>2, <2>4, <2>5, <3>1, <3>2, <3>3
    <3>5. QED BY <2>3, <3>2, <3>4
  <2>6. CASE u # t
    <3>1. Pending(u, k)' = Pending(u, k) /\ actual'[u][k] = actual[u][k]
      BY <1>2, <1>6, <2>4, <2>6 DEF Pending
    <3>2. QED BY <2>2, <2>3, <3>1
  <2>7. QED BY <2>5, <2>6
<1>9. wpc'[0] # "idle"
  BY <1>2, <1>6, ConstantFacts DEF Inv, Phases
<1>10. ASSUME alone PROVE MainOnly'
  <2>1. MainOnly
    BY <1>10 DEF Inv
  <2>2. t = 0
    BY <1>2, <2>1, OnlyMain
  <2>3. prog' = prog /\ phase' = "run"
    BY <1>2 DEF machine
  <2>4. a = usage[0]
    <3>1. actual[0] = Zero /\ skipped[0] = Zero
      BY <1>2, <2>1, <2>2 DEF MainOnly
    <3>2. usage[0] \in [Kind -> Nat]
      BY <1>3, ConstantFacts DEF RunTypes
    <3>3. ASSUME NEW k \in Kind PROVE a[k] = usage[0][k]
      <4>1. actual[0][k] = 0 /\ skipped[0][k] = 0 /\ usage[0][k] \in Nat
        BY <3>1, <3>2 DEF Zero
      <4>2. QED BY <1>4, <2>2, <4>1
    <3>4. QED BY <1>5, <3>2, <3>3
  <2>5. /\ \A u \in Helper : wpc'[u] = "idle" /\ actual'[u] = Zero
        /\ actual'[0] = usage'[0] /\ wpc'[0] = "finished"
    <3>1. \A u \in Helper : wpc[u] = "idle" /\ actual[u] = Zero /\ u \in Thread /\ u # t
      BY <2>1, <2>2, ConstantFacts DEF MainOnly
    <3>2. QED BY <1>2, <1>6, <2>2, <2>4, <3>1
  <2>6. /\ \A i \in DOMAIN prog' : prog'[i].do = "get"
        /\ job'[0].pos = Zero /\ skipped'[0] = Zero
        /\ \A k \in Kind :
              /\ reader'[0][k].at = reader'[0][k].left + usage'[0][k]
              /\ \E j \in 0 .. reader'[0][k].at : reader'[0][k].at = j * BufferSize
    BY <1>2, <2>1, <2>3 DEF MainOnly
  <2>7. QED BY <2>3, <2>5, <2>6 DEF MainOnly
<1>11. ASSUME alone, clean, NEW k \in Kind \ Dabits PROVE HandedOut(k)'
  <2>1. HandedOut(k)
    BY <1>11 DEF Inv
  <2>2. disk' = disk /\ fresh' = fresh /\ pruned' = pruned
    BY <1>2 DEF files, machine
  <2>3. Pruned(k)' = Pruned(k)
    BY <2>2 DEF Pruned
  <2>4. Unused(k)' = Unused(k)
    BY <1>2, <2>2, <2>3 DEF Unused
  <2>5. QED BY <1>2, <2>1, <2>2, <2>3, <2>4 DEF HandedOut
<1>12. /\ ic' \in 0 .. Len(prog)
       /\ job' \in [Thread -> [pos : [Kind -> Nat], k : Kind, n : Nat]]
       /\ reader' \in [Thread -> [Kind -> [at : Nat, left : 0 .. BufferSize]]]
       /\ usage' \in [Thread -> [Kind -> Nat]] /\ skipped' \in [Thread -> [Kind -> Nat]]
       /\ used' \in [Kind -> SUBSET Nat] /\ again' \in [Kind -> SUBSET Nat]
  BY <1>2, <1>3 DEF RunTypes, OtherTypes
<1>13. QED BY <1>2, <1>6, <1>7, <1>8, <1>9, <1>10, <1>11, <1>12, ThreadsOnly

\* The main tape leaves tuples to another thread, which gets a job.
LEMMA RunTapeKeeps == ASSUME Inv, RunTape PROVE Inv'
<1>1. PICK i, p : i = prog[ic + 1] /\ p = [k \in Kind |-> usage[0][k] + Needs(i, k)]
  OBVIOUS
<1>2. /\ phase = "run" /\ wpc[0] = "tape" /\ ic < Len(prog) /\ i.do = "tape"
      /\ \/ Throw("missing")
         \/ /\ job' = [job EXCEPT ![i.t] = [pos |-> pos, k |-> i.k, n |-> i.n]]
            /\ wpc' = [wpc EXCEPT ![i.t] = "job"]
            /\ skipped' = [skipped EXCEPT ![0] = [k \in Kind |-> @[k] + Needs(i, k)]]
            /\ reader' = [reader EXCEPT ![0] = Seekg(0, p)]
            /\ usage' = [usage EXCEPT ![0] = p]
            /\ ic' = ic + 1
            /\ UNCHANGED <<files, machine, actual, history, outcome>>
  BY <1>1 DEF RunTape
<1>3. CASE Throw("missing")
  BY <1>3, ThrowKeeps
<1>4. CASE /\ job' = [job EXCEPT ![i.t] = [pos |-> pos, k |-> i.k, n |-> i.n]]
           /\ wpc' = [wpc EXCEPT ![i.t] = "job"]
           /\ skipped' = [skipped EXCEPT ![0] = [k \in Kind |-> @[k] + Needs(i, k)]]
           /\ reader' = [reader EXCEPT ![0] = Seekg(0, p)]
           /\ usage' = [usage EXCEPT ![0] = p]
           /\ ic' = ic + 1
           /\ UNCHANGED <<files, machine, actual, history, outcome>>
  <2>1. PICK s, b, q : /\ s = Seekg(0, p) /\ b = [pos |-> pos, k |-> i.k, n |-> i.n]
                       /\ q = [k \in Kind |-> skipped[0][k] + Needs(i, k)]
    OBVIOUS
  <2>2. /\ job' = [job EXCEPT ![i.t] = b] /\ wpc' = [wpc EXCEPT ![i.t] = "job"]
        /\ skipped' = [skipped EXCEPT ![0] = q] /\ reader' = [reader EXCEPT ![0] = s]
        /\ usage' = [usage EXCEPT ![0] = p] /\ ic' = ic + 1
        /\ actual' = actual /\ used' = used /\ again' = again
        /\ UNCHANGED <<files, machine, outcome>>
    BY <1>4, <2>1 DEF history
  <2>3. RunTypes /\ Buffers /\ OtherTypes
    BY DEF Inv
  <2>4. /\ prog \in Seq(Instruction) /\ ic \in 0 .. Len(prog) /\ Len(prog) \in Nat
        /\ ic + 1 \in 1 .. Len(prog) /\ ic + 1 \in DOMAIN prog
    BY <1>2, <2>3, ProgramFacts DEF RunTypes
  <2>5. /\ i \in Instruction /\ i.t \in Helper /\ i.t \in Thread /\ i.t # 0
        /\ i.k \in Kind /\ i.n \in Nat
    <3>1. i \in Instruction
      BY <1>1, <2>4
    <3>2. QED BY <1>2, <3>1, ConstantFacts DEF Instruction
  <2>6. \A k \in Kind : Needs(i, k) \in Nat
    BY <1>1, <2>4, NeedsFacts
  <2>7. p \in [Kind -> Nat] /\ q \in [Kind -> Nat]
    <3>1. \A k \in Kind : usage[0][k] \in Nat /\ skipped[0][k] \in Nat
      BY <2>3, ConstantFacts DEF RunTypes
    <3>2. p \in [Kind -> Nat]
      BY <1>1, <2>6, <3>1
    <3>3. q \in [Kind -> Nat]
      BY <2>1, <2>6, <3>1
    <3>4. QED BY <3>2, <3>3
  <2>8. ASSUME NEW k \in Kind
        PROVE  p[k] = usage[0][k] + Needs(i, k) /\ q[k] = skipped[0][k] + Needs(i, k)
    BY <1>1, <2>1
  <2>9. b \in [pos : [Kind -> Nat], k : Kind, n : Nat] /\ b.k = i.k /\ b.n = i.n
    BY <2>1, <2>3, <2>5 DEF RunTypes
  <2>10. /\ s \in [Kind -> [at : Nat, left : 0 .. BufferSize]]
         /\ \A k \in Kind : s[k].left <= s[k].at
    BY <2>1, <2>3, <2>7, SeekFacts, ConstantFacts
  <2>11. /\ job' \in [Thread -> [pos : [Kind -> Nat], k : Kind, n : Nat]]
         /\ job'[i.t] = b /\ \A u \in Thread : u # i.t => job'[u] = job[u]
    BY <2>2, <2>3, <2>5, <2>9 DEF RunTypes
  <2>12. /\ wpc' \in [Thread -> {"idle", "job", "tape", "finished"}]
         /\ wpc'[i.t] = "job" /\ \A u \in Thread : u # i.t => wpc'[u] = wpc[u]
    BY <2>2, <2>3, <2>5 DEF RunTypes
  <2>13. /\ reader' \in [Thread -> [Kind -> [at : Nat, left : 0 .. BufferSize]]]
         /\ usage' \in [Thread -> [Kind -> Nat]] /\ skipped' \in [Thread -> [Kind -> Nat]]
         /\ reader'[0] = s /\ usage'[0] = p /\ skipped'[0] = q
         /\ \A u \in Thread : u # 0 => /\ reader'[u] = reader[u] /\ usage'[u] = usage[u]
                                       /\ skipped'[u] = skipped[u]
    BY <2>2, <2>3, <2>7, <2>10, ConstantFacts DEF RunTypes
  <2>14. Buffers'
    <3>1. ASSUME NEW u \in Thread, NEW k \in Kind
          PROVE  reader'[u][k].left <= reader'[u][k].at /\ skipped'[u][k] <= usage'[u][k]
      <4>1. CASE u = 0
        <5>1. /\ usage[0][k] \in Nat /\ skipped[0][k] \in Nat /\ Needs(i, k) \in Nat
              /\ skipped[0][k] <= usage[0][k]
          BY <2>3, <2>6, ConstantFacts DEF RunTypes, Buffers
        <5>2. QED BY <2>8, <2>10, <2>13, <4>1, <5>1
      <4>2. CASE u # 0
        BY <2>3, <2>13, <4>2 DEF Buffers
      <4>3. QED BY <4>1, <4>2
    <3>2. QED BY <3>1 DEF Buffers
  <2>15. ASSUME NEW u \in Thread, NEW k \in Kind
         PROVE  (actual[u][k] + Pending(u, k) <= SumOf(prog, k, {u})[ic])'
    <3>1. PICK n, m : n = SumOf(prog, k, {u})[ic] /\ m = SumOf(prog, k, {u})[ic + 1]
      OBVIOUS
    <3>2. m = SumOf(prog, k, {u})[ic]'
      BY <2>2, <3>1 DEF machine
    <3>3. actual[u][k] + Pending(u, k) <= n
      BY <3>1 DEF Inv, Accounts
    <3>4. m = n + NeedsIn(prog[ic + 1], k, {u}) /\ n \in Nat /\ m \in Nat /\ n <= m
      <4>1. m = n + NeedsIn(prog[ic + 1], k, {u}) /\ n \in Nat /\ m \in Nat
        BY <1>2, <2>4, <3>1, SumStep
      <4>2. NeedsIn(prog[ic + 1], k, {u}) \in Nat
        BY <2>4, NeedsFacts
      <4>3. QED BY <4>1, <4>2
    <3>5. actual'[u][k] = actual[u][k] /\ actual[u][k] \in Nat /\ Pending(u, k) \in Nat
      BY <2>2, <2>3, PendingFacts
    <3>6. CASE u = i.t
      <4>1. Pending(u, k)' = Needs(i, k)
        <5>1. Pending(u, k)' = IF i.k = k THEN i.n ELSE 0
          BY <2>5, <2>9, <2>11, <2>12, <3>6 DEF Pending, Left
        <5>2. Needs(i, k) = IF i.k = k THEN i.n ELSE 0
          BY <1>2 DEF Needs
        <5>3. QED BY <5>1, <5>2
      <4>2. m = n + Needs(i, k)
        BY <1>1, <1>2, <3>4, <3>6 DEF NeedsIn, Target
      <4>3. QED BY <2>6, <3>2, <3>3, <3>4, <3>5, <4>1, <4>2
    <3>7. CASE u # i.t
      <4>1. Left(u, k)' = Left(u, k)
        BY <2>11, <3>7 DEF Left
      <4>2. Pending(u, k)' = Pending(u, k)
        <5>1. CASE u = 0
          <6>1. Pending(u, k) = usage[0][k] - skipped[0][k] + Left(u, k)
            BY <1>2, <5>1 DEF Pending
          <6>2. Pending(u, k)' = p[k] - q[k] + Left(u, k)
            BY <1>2, <2>5, <2>12, <2>13, <4>1, <5>1, ConstantFacts DEF Pending
          <6>3. /\ usage[0][k] \in Nat /\ skipped[0][k] \in Nat /\ Needs(i, k) \in Nat
                /\ Left(u, k) \in Nat
            BY <2>3, <2>6, PendingFacts, ConstantFacts DEF RunTypes
          <6>4. QED BY <2>8, <6>1, <6>2, <6>3
        <5>2. CASE u # 0
          BY <2>12, <2>13, <3>7, <4>1, <5>2 DEF Pending
        <5>3. QED BY <5>1, <5>2
      <4>3. actual'[u][k] + Pending(u, k)' <= m
        BY <3>3, <3>4, <3>5, <4>2
      <4>4. QED BY <3>2, <4>3
    <3>8. QED BY <3>6, <3>7
  <2>16. wpc'[0] # "idle"
    BY <1>2, <2>5, <2>12, ConstantFacts
  <2>17. ~alone
    <3>1. ASSUME MainOnly PROVE FALSE
      <4>1. i.do = "get"
        BY <1>1, <2>4, <3>1 DEF MainOnly
      <4>2. QED BY <1>2, <4>1
    <3>2. QED BY <3>1 DEF Inv
  <2>18. /\ ic' \in 0 .. Len(prog) /\ actual' \in [Thread -> [Kind -> Nat]]
         /\ used' \in [Kind -> SUBSET Nat] /\ again' \in [Kind -> SUBSET Nat]
    BY <2>2, <2>3, <2>4 DEF RunTypes, OtherTypes
  <2>19. QED BY <1>2, <2>2, <2>11, <2>12, <2>13, <2>14, <2>15, <2>16, <2>17, <2>18, ThreadsOnly
<1>5. QED BY <1>2, <1>3, <1>4

\* A tape is joined.
LEMMA JoinTapeKeeps == ASSUME Inv, JoinTape PROVE Inv'
<1>1. PICK i : i = prog[ic + 1]
  OBVIOUS
<1>2. /\ phase = "run" /\ wpc[0] = "tape" /\ ic < Len(prog) /\ i.do = "join"
      /\ wpc[i.t] = "finished"
      /\ wpc' = [wpc EXCEPT ![i.t] = "idle"] /\ ic' = ic + 1
      /\ job' = job /\ reader' = reader /\ usage' = usage /\ skipped' = skipped
      /\ actual' = actual /\ used' = used /\ again' = again
      /\ UNCHANGED <<files, machine, outcome>>
  BY <1>1 DEF JoinTape, history
<1>3. RunTypes /\ Buffers /\ OtherTypes
  BY DEF Inv
<1>4. /\ prog \in Seq(Instruction) /\ ic \in 0 .. Len(prog) /\ Len(prog) \in Nat
      /\ ic + 1 \in 1 .. Len(prog) /\ ic + 1 \in DOMAIN prog
  BY <1>2, <1>3, ProgramFacts DEF RunTypes
<1>5. i \in Instruction /\ i.t \in Helper /\ i.t \in Thread /\ i.t # 0
  <2>1. i \in Instruction
    BY <1>1, <1>4
  <2>2. QED BY <1>2, <2>1, ConstantFacts DEF Instruction
<1>6. /\ wpc' \in [Thread -> {"idle", "job", "tape", "finished"}]
      /\ wpc'[i.t] = "idle" /\ \A u \in Thread : u # i.t => wpc'[u] = wpc[u]
  BY <1>2, <1>3, <1>5 DEF RunTypes
<1>7. Buffers'
  BY <1>2, <1>3 DEF Buffers
<1>8. ASSUME NEW u \in Thread, NEW k \in Kind
      PROVE  (actual[u][k] + Pending(u, k) <= SumOf(prog, k, {u})[ic])'
  <2>1. PICK n, m : n = SumOf(prog, k, {u})[ic] /\ m = SumOf(prog, k, {u})[ic + 1]
    OBVIOUS
  <2>2. m = SumOf(prog, k, {u})[ic]'
    BY <1>2, <2>1 DEF machine
  <2>3. actual[u][k] + Pending(u, k) <= n
    BY <2>1 DEF Inv, Accounts
  <2>4. n \in Nat /\ m \in Nat /\ n <= m
    <3>1. m = n + NeedsIn(prog[ic + 1], k, {u}) /\ n \in Nat /\ m \in Nat
      BY <1>2, <1>4, <2>1, SumStep
    <3>2. NeedsIn(prog[ic + 1], k, {u}) \in Nat
      BY <1>4, NeedsFacts
    <3>3. QED BY <3>1, <3>2
  <2>5. actual'[u][k] = actual[u][k] /\ actual[u][k] \in Nat /\ Pending(u, k) \in Nat
    BY <1>2, <1>3, PendingFacts
  <2>6. Left(u, k)' = Left(u, k)
    BY <1>2 DEF Left
  <2>7. Pending(u, k)' = Pending(u, k)
    BY <1>2, <1>6, <2>6 DEF Pending
  <2>8. actual'[u][k] + Pending(u, k)' <= m
    BY <2>3, <2>4, <2>5, <2>7
  <2>9. QED BY <2>2, <2>8
<1>9. wpc'[0] # "idle"
  BY <1>2, <1>5, <1>6, ConstantFacts
<1>10. ~alone
  <2>1. ASSUME MainOnly PROVE FALSE
    <3>1. i.do = "get"
      BY <1>1, <1>4, <2>1 DEF MainOnly
    <3>2. QED BY <1>2, <3>1
  <2>2. QED BY <2>1 DEF Inv
<1>11. /\ ic' \in 0 .. Len(prog)
       /\ job' \in [Thread -> [pos : [Kind -> Nat], k : Kind, n : Nat]]
       /\ reader' \in [Thread -> [Kind -> [at : Nat, left : 0 .. BufferSize]]]
       /\ usage' \in [Thread -> [Kind -> Nat]] /\ skipped' \in [Thread -> [Kind -> Nat]]
       /\ actual' \in [Thread -> [Kind -> Nat]]
       /\ used' \in [Kind -> SUBSET Nat] /\ again' \in [Kind -> SUBSET Nat]
  BY <1>2, <1>3, <1>4 DEF RunTypes, OtherTypes
<1>12. QED BY <1>2, <1>6, <1>7, <1>8, <1>9, <1>10, <1>11, ThreadsOnly

\* With the main tape only, files that were prepared for it have the next tuple.
LEMMA NoTuplesShort ==
    ASSUME Inv, alone, fit, NEW k \in Kind, Gets(0, k), disk[k].exists
    PROVE  HasTuple(0, k)
<1>1. /\ phase = "run" /\ wpc[0] = "tape" /\ ic < Len(prog)
      /\ prog[ic + 1].do = "get" /\ prog[ic + 1].k = k
  BY DEF Gets
<1>2. MainOnly /\ RunTypes /\ OtherTypes
  BY DEF Inv
<1>3. /\ prog \in Seq(Instruction) /\ ic \in 0 .. Len(prog) /\ Len(prog) \in Nat /\ prog # <<>>
      /\ ic + 1 \in 0 .. Len(prog) /\ Len(prog) \in 0 .. Len(prog) /\ ic + 1 <= Len(prog)
  BY <1>1, <1>2, ProgramFacts DEF RunTypes
<1>4. PICK n, u, v, w : /\ n = OfflineDataUsed(prog)[k] /\ u = SumOf(prog, k, {0})[ic]
                        /\ v = SumOf(prog, k, {0})[ic + 1] /\ w = SumOf(prog, k, {0})[Len(prog)]
  OBVIOUS
<1>5. v = u + 1 /\ u \in Nat
  <2>1. NeedsIn(prog[ic + 1], k, {0}) = 1
    BY <1>1 DEF NeedsIn, Target, Needs
  <2>2. QED BY <1>1, <1>3, <1>4, <2>1, SumStep
<1>6. v <= w /\ w \in Nat
  BY <1>3, <1>4, SumGrows
<1>7. w <= n /\ n \in Nat
  <2>1. PICK T : T = Thread \ {0}
    OBVIOUS
  <2>2. 0 \notin T /\ T \cup {0} = Thread
    BY <2>1, ConstantFacts
  <2>3. PICK m, x, y : m = Len(prog) /\ x = SumOf(prog, k, T)[m] /\ y = SumOf(prog, k, Thread)[m]
    OBVIOUS
  <2>4. y = x + w
    BY <1>3, <1>4, <2>2, <2>3, SumUnion
  <2>5. x \in Nat
    BY <1>3, <2>3, SumGrows
  <2>6. n = y /\ n \in Nat
    BY <1>3, <1>4, <2>3, UsedIsSum
  <2>7. QED BY <1>6, <2>4, <2>5, <2>6
<1>8. disk[k].last - disk[k].first = Rounded(n)
  BY <1>1, <1>3, <1>4 DEF Inv, SizesFit, Sized
<1>9. PICK B, m : B = BufferSize /\ m \in Nat /\ Rounded(n) = m * B /\ n <= m * B
  BY <1>7, RoundedFacts
<1>10. CASE reader[0][k].left = 0
  <2>1. PICK a : a = reader[0][k].at
    OBVIOUS
  <2>2. a \in Nat /\ a = u
    <3>1. reader[0][k].at \in Nat /\ usage[0][k] \in Nat
      BY <1>2, ConstantFacts DEF RunTypes
    <3>2. reader[0][k].at = reader[0][k].left + usage[0][k] /\ usage[0][k] = u
      BY <1>1, <1>2, <1>4 DEF MainOnly
    <3>3. QED BY <1>10, <2>1, <3>1, <3>2
  <2>3. PICK j \in Nat : a = j * B
    <3>1. PICK j \in 0 .. reader[0][k].at : reader[0][k].at = j * BufferSize
      BY <1>2 DEF MainOnly
    <3>2. j \in Nat
      BY <2>1, <2>2
    <3>3. QED BY <1>9, <2>1, <3>1, <3>2
  <2>4. B \in Nat /\ B > 0
    BY <1>9, ConstantFacts
  <2>5. j * B < m * B
    BY <1>5, <1>6, <1>7, <1>9, <2>2, <2>3, <2>4
  <2>6. j < m
    <3>1. ASSUME m <= j PROVE FALSE
      <4>1. m * B <= j * B
        <5>1. PICK d : d = j - m
          OBVIOUS
        <5>2. d \in Nat /\ j = m + d
          BY <1>9, <3>1, <5>1
        <5>3. j * B = m * B + d * B /\ d * B \in Nat /\ m * B \in Nat
          BY <1>9, <2>4, <5>2
        <5>4. QED BY <5>3
      <4>2. QED BY <1>9, <2>3, <2>4, <2>5, <4>1
    <3>2. QED BY <1>9, <3>1
  <2>7. j * B + B <= m * B
    <3>1. PICK d : d = m - j - 1
      OBVIOUS
    <3>2. d \in Nat /\ m = j + 1 + d
      BY <1>9, <2>6, <3>1
    <3>3. m * B = j * B + B + d * B /\ d * B \in Nat /\ j * B \in Nat
      BY <1>9, <2>4, <3>2
    <3>4. QED BY <2>4, <3>3
  <2>8. reader[0][k].at + BufferSize <= disk[k].last - disk[k].first
    BY <1>8, <1>9, <2>1, <2>3, <2>7
  <2>9. QED BY <2>8 DEF HasTuple, CanFill
<1>11. CASE reader[0][k].left # 0
  <2>1. reader[0][k].left \in 0 .. BufferSize
    BY <1>2, ConstantFacts DEF RunTypes
  <2>2. reader[0][k].left > 0
    BY <1>11, <2>1, ConstantFacts
  <2>3. QED BY <2>2 DEF HasTuple
<1>12. QED BY <1>10, <1>11

\* What the buffer holds when a tuple is taken.
LEMMA FilledFacts ==
    ASSUME RunTypes, OtherTypes, Buffers, NEW t \in Thread, NEW k \in Kind, HasTuple(t, k), NEW r,
           r = Filled(t, k)
    PROVE  /\ r \in [at : Nat, left : 0 .. BufferSize] /\ r.left > 0 /\ r.left <= r.at
           /\ \/ r = reader[t][k]
              \/ /\ reader[t][k].left = 0 /\ r.left = BufferSize /\ disk[k].exists
                 /\ r.at = reader[t][k].at + BufferSize
                 /\ disk[k].first + r.at <= disk[k].last
<1>1. /\ reader[t][k] \in [at : Nat, left : 0 .. BufferSize]
      /\ reader[t][k].left <= reader[t][k].at /\ BufferSize \in Nat /\ BufferSize > 0
  BY ConstantFacts DEF RunTypes, Buffers
<1>2. CASE reader[t][k].left > 0
  <2>1. r = reader[t][k]
    BY <1>2 DEF Filled
  <2>2. QED BY <1>1, <1>2, <2>1
<1>3. CASE ~(reader[t][k].left > 0)
  <2>1. r = [at |-> reader[t][k].at + BufferSize, left |-> BufferSize]
    BY <1>3 DEF Filled
  <2>2. CanFill(t, k)
    BY <1>3 DEF HasTuple
  <2>3. /\ disk[k].exists /\ disk[k].first \in Nat /\ disk[k].last \in Nat
        /\ reader[t][k].at + BufferSize <= disk[k].last - disk[k].first
    BY <2>2 DEF CanFill, OtherTypes
  <2>4. /\ r.at = reader[t][k].at + BufferSize /\ r.left = BufferSize
        /\ reader[t][k].at \in Nat /\ reader[t][k].left \in Nat
    BY <1>1, <2>1
  <2>5. reader[t][k].left = 0
    BY <1>3, <2>4
  <2>6. r \in [at : Nat, left : 0 .. BufferSize]
    BY <1>1, <2>1
  <2>7. disk[k].first + r.at <= disk[k].last
    BY <1>1, <2>3, <2>4
  <2>8. r.left > 0 /\ r.left <= r.at
    BY <1>1, <2>4
  <2>9. QED BY <2>3, <2>4, <2>5, <2>6, <2>7, <2>8
<1>4. QED BY <1>2, <1>3

\* A tuple is taken.
LEMMA GetKeeps == ASSUME Inv, NEW t \in Thread, NEW k \in Kind, Get(t, k) PROVE Inv'
<1>1. RunTypes /\ Buffers /\ OtherTypes
  BY DEF Inv
<1>2. /\ phase = "run" /\ wpc[t] = "tape" /\ Gets(t, k)
      /\ t = 0 => ic < Len(prog) /\ prog[ic + 1].do = "get" /\ prog[ic + 1].k = k
      /\ t # 0 => job[t].n > 0 /\ job[t].k = k
  BY DEF Get, Gets
<1>3. CASE ~HasTuple(t, k)
  <2>1. PICK how : how = IF disk[k].exists THEN "shortage" ELSE "missing"
    OBVIOUS
  <2>2. Throw(how)
    BY <1>3, <2>1 DEF Get
  <2>3. how = "shortage" => ~(fit /\ alone)
    <3>1. ASSUME alone PROVE t = 0
      BY <1>2, <3>1, OnlyMain DEF Inv
    <3>2. QED BY <1>2, <1>3, <2>1, <3>1, NoTuplesShort
  <2>4. how \in {"failure", "shortage", "missing", "prune"}
    BY <2>1
  <2>5. QED BY <2>2, <2>3, <2>4, ThrowKeeps
<1>4. CASE HasTuple(t, k)
  <2>1. PICK r : r = Filled(t, k)
    OBVIOUS
  <2>2. PICK i, d : i = disk[k].first + r.at - r.left /\ d = [r EXCEPT !.left = r.left - 1]
    OBVIOUS
  <2>3. /\ reader' = [reader EXCEPT ![t][k] = d]
        /\ usage' = [usage EXCEPT ![t][k] = @ + 1]
        /\ used' = [used EXCEPT ![k] = @ \cup {i}]
        /\ again' = [again EXCEPT ![k] = IF i \in used[k] THEN @ \cup {i} ELSE @]
        /\ ic' = IF t = 0 THEN ic + 1 ELSE ic
        /\ job' = IF t = 0 THEN job ELSE [job EXCEPT ![t].n = @ - 1]
        /\ UNCHANGED <<files, machine, wpc, skipped, actual, outcome>>
    BY <1>4, <2>1, <2>2 DEF Get, Input
  <2>4. /\ r \in [at : Nat, left : 0 .. BufferSize] /\ r.left > 0 /\ r.left <= r.at
        /\ \/ r = reader[t][k]
           \/ /\ reader[t][k].left = 0 /\ r.left = BufferSize /\ disk[k].exists
              /\ r.at = reader[t][k].at + BufferSize
              /\ disk[k].first + r.at <= disk[k].last
    BY <1>1, <1>4, <2>1, FilledFacts
  <2>5. /\ d \in [at : Nat, left : 0 .. BufferSize] /\ d.at = r.at /\ d.left = r.left - 1
        /\ d.left <= d.at
    <3>1. r.left \in 0 .. BufferSize /\ r.at \in Nat /\ r.left - 1 \in 0 .. BufferSize
      BY <2>4, ConstantFacts
    <3>2. d.at = r.at /\ d.left = r.left - 1
      BY <2>2, <2>4
    <3>3. d \in [at : Nat, left : 0 .. BufferSize]
      BY <2>2, <2>4, <3>1
    <3>4. QED BY <2>4, <3>1, <3>2, <3>3
  <2>6. /\ reader' \in [Thread -> [Kind -> [at : Nat, left : 0 .. BufferSize]]]
        /\ reader'[t][k] = d
        /\ \A u \in Thread, e \in Kind : ~(u = t /\ e = k) => reader'[u][e] = reader[u][e]
    <3>1. PICK f : f = [reader[t] EXCEPT ![k] = d]
      OBVIOUS
    <3>2. reader' = [reader EXCEPT ![t] = f]
      BY <2>3, <3>1
    <3>3. reader \in [Thread -> [Kind -> [at : Nat, left : 0 .. BufferSize]]]
      BY <1>1 DEF RunTypes
    <3>4. f \in [Kind -> [at : Nat, left : 0 .. BufferSize]] /\ f[k] = d
          /\ \A e \in Kind : e # k => f[e] = reader[t][e]
      BY <2>5, <3>1, <3>3
    <3>5. reader'[t] = f /\ \A u \in Thread : u # t => reader'[u] = reader[u]
      BY <3>2, <3>3
    <3>6. reader' \in [Thread -> [Kind -> [at : Nat, left : 0 .. BufferSize]]]
      BY <3>2, <3>3, <3>4
    <3>7. QED BY <3>4, <3>5, <3>6
  <2>7. /\ usage' \in [Thread -> [Kind -> Nat]]
        /\ usage'[t][k] = usage[t][k] + 1
        /\ \A u \in Thread, e \in Kind : ~(u = t /\ e = k) => usage'[u][e] = usage[u][e]
    <3>1. PICK f : f = [usage[t] EXCEPT ![k] = usage[t][k] + 1]
      OBVIOUS
    <3>2. usage' = [usage EXCEPT ![t] = f]
      BY <2>3, <3>1
    <3>3. usage \in [Thread -> [Kind -> Nat]]
      BY <1>1 DEF RunTypes
    <3>4. f \in [Kind -> Nat] /\ f[k] = usage[t][k] + 1
          /\ \A e \in Kind : e # k => f[e] = usage[t][e]
      BY <3>1, <3>3
    <3>5. usage'[t] = f /\ \A u \in Thread : u # t => usage'[u] = usage[u]
      BY <3>2, <3>3
    <3>6. usage' \in [Thread -> [Kind -> Nat]]
      BY <3>2, <3>3, <3>4
    <3>7. QED BY <3>4, <3>5, <3>6
  <2>8. /\ i \in Nat /\ used' \in [Kind -> SUBSET Nat] /\ again' \in [Kind -> SUBSET Nat]
        /\ used'[k] = used[k] \cup {i} /\ (i \notin used[k] => again'[k] = again[k])
        /\ \A e \in Kind : e # k => used'[e] = used[e] /\ again'[e] = again[e]
    <3>1. disk[k].first \in Nat /\ r.at \in Nat /\ r.left \in Nat
      BY <1>1, <2>4 DEF OtherTypes
    <3>2. i \in Nat
      BY <2>2, <2>4, <3>1
    <3>3. used \in [Kind -> SUBSET Nat] /\ again \in [Kind -> SUBSET Nat]
      BY <1>1 DEF OtherTypes
    <3>4. used' \in [Kind -> SUBSET Nat] /\ again' \in [Kind -> SUBSET Nat]
      BY <2>3, <3>2, <3>3
    <3>5. used'[k] = used[k] \cup {i} /\ (i \notin used[k] => again'[k] = again[k])
      BY <2>3, <3>3
    <3>6. \A e \in Kind : e # k => used'[e] = used[e] /\ again'[e] = again[e]
      BY <2>3, <3>3
    <3>7. QED BY <3>2, <3>4, <3>5, <3>6
  <2>9. /\ job' \in [Thread -> [pos : [Kind -> Nat], k : Kind, n : Nat]]
        /\ \A u \in Thread : job'[u].pos = job[u].pos /\ job'[u].k = job[u].k
        /\ \A u \in Thread : u # t => job'[u].n = job[u].n
        /\ t # 0 => job'[t].n = job[t].n - 1
        /\ t = 0 => job' = job
    <3>1. job \in [Thread -> [pos : [Kind -> Nat], k : Kind, n : Nat]]
      BY <1>1 DEF RunTypes
    <3>2. CASE t = 0
      BY <2>3, <3>1, <3>2
    <3>3. CASE t # 0
      <4>1. PICK o, m : o = job[t] /\ m = [o EXCEPT !.n = o.n - 1]
        OBVIOUS
      <4>2. job' = [job EXCEPT ![t] = m]
        BY <2>3, <3>3, <4>1
      <4>3. o \in [pos : [Kind -> Nat], k : Kind, n : Nat] /\ o.n - 1 \in Nat
        BY <1>2, <3>1, <3>3, <4>1
      <4>4. /\ m \in [pos : [Kind -> Nat], k : Kind, n : Nat]
            /\ m.pos = o.pos /\ m.k = o.k /\ m.n = o.n - 1
        BY <4>1, <4>3
      <4>5. job' \in [Thread -> [pos : [Kind -> Nat], k : Kind, n : Nat]]
        BY <3>1, <4>2, <4>4
      <4>6. job'[t] = m /\ \A u \in Thread : u # t => job'[u] = job[u]
        BY <3>1, <4>2
      <4>7. QED BY <3>3, <4>1, <4>4, <4>5, <4>6
    <3>4. QED BY <3>2, <3>3
  <2>10. /\ wpc' = wpc /\ skipped' = skipped /\ actual' = actual /\ prog' = prog /\ disk' = disk
         /\ fresh' = fresh /\ pruned' = pruned /\ phase' = phase
    BY <2>3 DEF files, machine
  <2>11. prog \in Seq(Instruction) /\ ic \in 0 .. Len(prog) /\ Len(prog) \in Nat
    BY <1>1, ProgramFacts DEF RunTypes
  <2>12. Buffers'
    <3>1. ASSUME NEW u \in Thread, NEW e \in Kind
          PROVE  reader'[u][e].left <= reader'[u][e].at /\ skipped'[u][e] <= usage'[u][e]
      <4>1. /\ reader[u][e].left <= reader[u][e].at /\ skipped[u][e] <= usage[u][e]
            /\ skipped[u][e] \in Nat /\ usage[u][e] \in Nat
        BY <1>1 DEF Buffers, RunTypes
      <4>2. CASE u = t /\ e = k
        BY <2>5, <2>6, <2>7, <2>10, <4>1, <4>2
      <4>3. CASE ~(u = t /\ e = k)
        BY <2>6, <2>7, <2>10, <4>1, <4>3
      <4>4. QED BY <4>2, <4>3
    <3>2. QED BY <3>1 DEF Buffers
  <2>13. ASSUME NEW u \in Thread, NEW e \in Kind
         PROVE  (actual[u][e] + Pending(u, e) <= SumOf(prog, e, {u})[ic])'
    <3>1. PICK n, m : n = SumOf(prog, e, {u})[ic] /\ m = SumOf(prog, e, {u})[ic']
      OBVIOUS
    <3>2. m = SumOf(prog, e, {u})[ic]'
      BY <2>10, <3>1
    <3>3. actual[u][e] + Pending(u, e) <= n
      BY <3>1 DEF Inv, Accounts
    <3>4. /\ n \in Nat /\ m \in Nat /\ n <= m
          /\ t = 0 /\ u = 0 /\ e = k => m = n + 1
      <4>1. CASE t = 0
        <5>1. ic' = ic + 1 /\ ic < Len(prog)
          BY <1>2, <2>3, <4>1
        <5>2. m = n + NeedsIn(prog[ic + 1], e, {u}) /\ n \in Nat /\ m \in Nat
          BY <2>11, <3>1, <5>1, SumStep
        <5>3. NeedsIn(prog[ic + 1], e, {u}) \in Nat
          <6>1. ic + 1 \in 1 .. Len(prog)
            BY <2>11, <5>1
          <6>2. QED BY <2>11, <6>1, NeedsFacts
        <5>4. u = 0 /\ e = k => NeedsIn(prog[ic + 1], e, {u}) = 1
          BY <1>2, <4>1 DEF NeedsIn, Target, Needs
        <5>5. QED BY <5>2, <5>3, <5>4
      <4>2. CASE t # 0
        BY <2>3, <2>11, <3>1, <4>2, SumGrows
      <4>3. QED BY <4>1, <4>2
    <3>5. /\ actual'[u][e] = actual[u][e] /\ actual[u][e] \in Nat /\ Pending(u, e) \in Nat
          /\ usage[u][e] \in Nat /\ skipped[u][e] \in Nat /\ job[u].n \in Nat
      <4>1. actual[u][e] \in Nat /\ Pending(u, e) \in Nat
        BY <1>1, PendingFacts
      <4>2. usage[u][e] \in Nat /\ skipped[u][e] \in Nat /\ job[u].n \in Nat
        BY <1>1 DEF RunTypes
      <4>3. QED BY <2>10, <4>1, <4>2
    <3>6. CASE u = t /\ e = k
      <4>1. Pending(u, e) = usage[t][k] - skipped[t][k] + Left(t, k)
        BY <1>2, <3>6 DEF Pending
      <4>2. Pending(u, e)' = (usage[t][k] + 1) - skipped[t][k] + Left(t, k)'
        <5>1. PICK x, y : x = Pending(u, e)' /\ y = Left(t, k)'
          OBVIOUS
        <5>2. x = usage'[t][k] - skipped'[t][k] + y
          BY <1>2, <2>10, <3>6, <5>1 DEF Pending
        <5>3. usage'[t][k] = usage[t][k] + 1 /\ skipped'[t][k] = skipped[t][k]
          BY <2>7, <2>10
        <5>4. x = (usage[t][k] + 1) - skipped[t][k] + y
          BY <5>2, <5>3
        <5>5. QED BY <5>1, <5>4
      <4>3. CASE t = 0
        <5>1. Left(t, k)' = 0 /\ Left(t, k) = 0
          BY <4>3 DEF Left
        <5>2. m = n + 1
          BY <3>4, <3>6, <4>3
        <5>3. actual'[u][e] + Pending(u, e)' <= m
          BY <3>3, <3>4, <3>5, <3>6, <4>1, <4>2, <5>1, <5>2
        <5>4. QED BY <3>2, <5>3
      <4>4. CASE t # 0
        <5>1. Left(t, k) = job[t].n /\ Left(t, k)' = job[t].n - 1
          BY <1>2, <2>9, <4>4 DEF Left
        <5>2. actual'[u][e] + Pending(u, e)' <= m
          BY <3>3, <3>4, <3>5, <3>6, <4>1, <4>2, <5>1
        <5>3. QED BY <3>2, <5>2
      <4>5. QED BY <4>3, <4>4
    <3>7. CASE ~(u = t /\ e = k)
      <4>1. Left(u, e)' = Left(u, e)
        BY <1>2, <2>9, <3>7 DEF Left
      <4>2. Pending(u, e)' = Pending(u, e)
        <5>1. usage'[u][e] = usage[u][e]
          BY <2>7, <3>7
        <5>2. QED BY <2>10, <4>1, <5>1 DEF Pending
      <4>3. actual'[u][e] + Pending(u, e)' <= m
        BY <3>3, <3>4, <3>5, <4>2
      <4>4. QED BY <3>2, <4>3
    <3>8. QED BY <3>6, <3>7
  <2>14. wpc'[0] # "idle"
    BY <1>2, <2>10 DEF Inv, Phases
  <2>15. ASSUME alone
         PROVE  MainOnly /\ t = 0 /\ ic' = ic + 1 /\ r.at = r.left + usage[0][k]
    <3>1. MainOnly
      BY <2>15 DEF Inv
    <3>2. t = 0
      BY <1>2, <3>1, OnlyMain
    <3>3. /\ reader[0][k].at = reader[0][k].left + usage[0][k]
          /\ reader[0][k].at \in Nat /\ reader[0][k].left \in Nat /\ usage[0][k] \in Nat
      BY <1>1, <3>1, ConstantFacts DEF MainOnly, RunTypes
    <3>4. r.at = r.left + usage[0][k]
      BY <2>4, <3>2, <3>3, ConstantFacts
    <3>5. QED BY <2>3, <3>1, <3>2, <3>4
  <2>16. ASSUME alone PROVE MainOnly'
    <3>1. ASSUME NEW e \in Kind
          PROVE  /\ reader'[0][e].at = reader'[0][e].left + usage'[0][e]
                 /\ \E j \in 0 .. reader'[0][e].at : reader'[0][e].at = j * BufferSize
                 /\ usage'[0][e] = SumOf(prog', e, {0})[ic']
      <4>1. /\ reader[0][e].at = reader[0][e].left + usage[0][e]
            /\ \E j \in 0 .. reader[0][e].at : reader[0][e].at = j * BufferSize
            /\ usage[0][e] = SumOf(prog, e, {0})[ic]
        BY <1>2, <2>15, <2>16 DEF MainOnly
      <4>2. /\ SumOf(prog', e, {0})[ic'] = SumOf(prog, e, {0})[ic] + NeedsIn(prog[ic + 1], e, {0})
        BY <1>2, <2>10, <2>11, <2>15, <2>16, SumStep
      <4>3. NeedsIn(prog[ic + 1], e, {0}) = IF e = k THEN 1 ELSE 0
        BY <1>2, <2>15, <2>16 DEF NeedsIn, Target, Needs
      <4>4. usage[0][e] \in Nat
        BY <1>1, ConstantFacts DEF RunTypes
      <4>5. CASE e # k
        <5>1. reader'[0][e] = reader[0][e] /\ usage'[0][e] = usage[0][e]
          BY <2>6, <2>7, <4>5, ConstantFacts
        <5>2. QED BY <4>1, <4>2, <4>3, <4>4, <4>5, <5>1
      <4>6. CASE e = k
        <5>1. reader'[0][e] = d /\ usage'[0][e] = usage[0][k] + 1
          BY <2>6, <2>7, <2>15, <2>16, <4>6
        <5>2. d.at = r.at /\ d.left = r.left - 1 /\ r.left \in Nat /\ r.at \in Nat
          BY <2>4, <2>5
        <5>3. d.at = d.left + (usage[0][k] + 1)
          BY <2>15, <2>16, <4>4, <4>6, <5>2
        <5>4. \E j \in 0 .. d.at : d.at = j * BufferSize
          <6>1. PICK j \in 0 .. reader[0][k].at : reader[0][k].at = j * BufferSize
            BY <4>1, <4>6
          <6>2. CASE r = reader[t][k]
            BY <2>5, <2>15, <2>16, <6>1, <6>2
          <6>3. CASE r.at = reader[t][k].at + BufferSize
            <7>1. PICK B, a : B = BufferSize /\ a = reader[0][k].at
              OBVIOUS
            <7>2. B \in Nat /\ B > 0 /\ a \in Nat /\ j \in 0 .. a /\ a = j * B
              BY <1>1, <6>1, <7>1, ConstantFacts DEF RunTypes
            <7>3. d.at = a + B
              BY <2>5, <2>15, <2>16, <6>3, <7>1
            <7>4. a + B = (j + 1) * B /\ j + 1 \in 0 .. a + B
              BY <7>2
            <7>5. QED BY <7>1, <7>3, <7>4
          <6>4. QED BY <2>4, <6>2, <6>3
        <5>5. usage'[0][e] = SumOf(prog', e, {0})[ic']
          BY <4>1, <4>2, <4>3, <4>6, <5>1
        <5>6. QED BY <5>1, <5>3, <5>4, <5>5
      <4>7. QED BY <4>5, <4>6
    <3>2. MainOnly /\ job' = job /\ wpc[0] = "tape" /\ phase' = "run"
      BY <1>2, <2>9, <2>10, <2>15, <2>16
    <3>3. /\ \A j \in DOMAIN prog' : prog'[j].do = "get"
          /\ \A u \in Helper : wpc'[u] = "idle" /\ actual'[u] = Zero
          /\ job'[0].pos = Zero /\ skipped'[0] = Zero /\ actual'[0] = Zero /\ wpc'[0] = "tape"
      BY <2>10, <3>2 DEF MainOnly
    <3>4. QED BY <3>1, <3>2, <3>3 DEF MainOnly
  <2>17. ASSUME alone, clean, NEW e \in Kind \ Dabits PROVE HandedOut(e)'
    <3>1. HandedOut(e)
      BY <2>17 DEF Inv
    <3>2. Pruned(e)' = Pruned(e)
      BY <2>10 DEF Pruned
    <3>3. CASE e # k
      <4>1. reader'[0][e] = reader[0][e] /\ usage'[0][e] = usage[0][e]
        BY <2>6, <2>7, <3>3, ConstantFacts
      <4>2. Unused(e)' = Unused(e)
        BY <2>10, <3>2, <4>1 DEF Unused
      <4>3. QED BY <2>8, <2>10, <3>1, <3>2, <3>3, <4>1, <4>2 DEF HandedOut
    <3>4. CASE e = k
      <4>1. ~Pruned(k)
        <5>1. pruned = 0
          BY <1>2 DEF Inv, Phases
        <5>2. QED BY <5>1 DEF Pruned
      <4>2. PICK f, u : f = disk[k].first /\ u = usage[0][k]
        OBVIOUS
      <4>3. f \in Nat /\ u \in Nat /\ r.at \in Nat /\ r.left \in Nat /\ r.at = r.left + u
        BY <1>1, <2>4, <2>15, <2>17, <4>2, ConstantFacts DEF RunTypes, OtherTypes
      <4>4. Unused(k) = f + u /\ i = f + u
        <5>1. Unused(k) = f + u
          BY <4>1, <4>2 DEF Unused
        <5>2. QED BY <2>2, <4>2, <4>3, <5>1
      <4>5. disk[k].exists /\ f + r.at <= disk[k].last
        <5>1. CASE r = reader[t][k]
          <6>1. r = reader[0][k]
            BY <2>15, <2>17, <5>1
          <6>2. reader[0][k].at # 0
            BY <2>4, <4>3, <6>1
          <6>3. disk[k].exists /\ disk[k].first + reader[0][k].at <= disk[k].last
            BY <3>1, <3>4, <4>1, <6>2 DEF HandedOut
          <6>4. QED BY <4>2, <6>1, <6>3
        <5>2. CASE r # reader[t][k]
          BY <2>4, <4>2, <5>2
        <5>3. QED BY <5>1, <5>2
      <4>6. /\ disk[k].from <= f /\ f <= disk[k].last /\ disk[k].last = fresh[k]
            /\ disk[k].from \in Nat /\ fresh[k] \in Nat
        BY <1>1, <4>2, <4>5 DEF Inv, FilesHold, OtherTypes
      <4>7. i \in disk[k].from .. fresh[k] - 1 /\ i < fresh[k]
        BY <2>4, <4>3, <4>4, <4>5, <4>6
      <4>8. /\ again[k] = {} /\ \A x \in used[k] : x < fresh[k]
            /\ \A x \in disk[k].from .. fresh[k] - 1 : x \in used[k] <=> x < f + u
        BY <3>1, <3>4, <4>4, <4>5 DEF HandedOut
      <4>9. i \notin used[k]
        BY <4>3, <4>4, <4>7, <4>8
      <4>10. again'[k] = {} /\ \A x \in used'[k] : x < fresh[k]
        BY <2>8, <4>7, <4>8, <4>9
      <4>11. Unused(k)' = f + u + 1
        <5>1. usage'[0][k] = u + 1
          BY <2>7, <2>15, <2>17, <4>2
        <5>2. Unused(k)' = f + (u + 1)
          BY <2>10, <3>2, <3>4, <4>1, <4>2, <5>1 DEF Unused
        <5>3. QED BY <4>3, <5>2
      <4>12. \A x \in disk[k].from .. fresh[k] - 1 : x \in used'[k] <=> x < f + u + 1
        <5>1. ASSUME NEW x \in disk[k].from .. fresh[k] - 1
              PROVE  x \in used'[k] <=> x < f + u + 1
          <6>1. x \in Int
            BY <4>6
          <6>2. x \in used[k] <=> x < f + u
            BY <4>8
          <6>3. x \in used'[k] <=> x < f + u \/ x = f + u
            BY <2>8, <4>4, <6>2
          <6>4. QED BY <4>3, <6>1, <6>3
        <5>2. QED BY <5>1
      <4>13. f + reader'[0][k].at <= disk[k].last
        BY <2>5, <2>6, <2>15, <2>17, <4>5
      <4>14. QED BY <2>10, <3>4, <4>2, <4>5, <4>10, <4>11, <4>12, <4>13 DEF HandedOut
    <3>5. QED BY <3>3, <3>4
  <2>18. ic' \in 0 .. Len(prog)
    <3>1. CASE t = 0
      BY <1>2, <2>3, <2>11, <3>1
    <3>2. CASE t # 0
      BY <2>3, <2>11, <3>2
    <3>3. QED BY <3>1, <3>2
  <2>19. /\ wpc' \in [Thread -> {"idle", "job", "tape", "finished"}]
         /\ skipped' \in [Thread -> [Kind -> Nat]] /\ actual' \in [Thread -> [Kind -> Nat]]
         /\ UNCHANGED <<files, machine, outcome>>
    BY <1>1, <2>3, <2>10 DEF RunTypes
  <2>20. QED BY <1>2, <2>6, <2>7, <2>8, <2>9, <2>12, <2>13, <2>14, <2>16, <2>17, <2>18, <2>19,
                ThreadsOnly
<1>5. QED BY <1>3, <1>4

-----------------------------------------------------------------------------
(* The theorems.                                                           *)

\* Where nothing happens.
LEMMA NothingKeeps == ASSUME Inv, UNCHANGED vars PROVE Inv'
<1>1. /\ fit' = fit /\ alone' = alone /\ runs' = runs /\ phase' = phase /\ prog' = prog /\ pos' = pos
      /\ counted' = counted /\ summed' = summed /\ pruned' = pruned /\ ic' = ic /\ wpc' = wpc
      /\ job' = job /\ reader' = reader /\ usage' = usage /\ skipped' = skipped /\ actual' = actual
      /\ used' = used /\ again' = again /\ clean' = clean /\ why' = why
      /\ disk' = disk /\ fresh' = fresh /\ prepared' = prepared
  BY DEF vars, files, machine, threads, history, outcome
<1>2. RunTypes' /\ OtherTypes'
  BY <1>1 DEF Inv, RunTypes, OtherTypes
<1>3. Buffers' /\ FilesHold'
  BY <1>1 DEF Inv, Buffers, FilesHold
<1>4. Phases'
  BY <1>1 DEF Inv, Phases
<1>5. Accounts'
  BY <1>1 DEF Inv, Accounts, Pending, Left
<1>6. SizesFit'
  BY <1>1 DEF Inv, SizesFit, Sized
<1>7. alone' => MainOnly'
  BY <1>1 DEF Inv, MainOnly
<1>8. ASSUME alone', clean', NEW k \in Kind \ Dabits PROVE HandedOut(k)'
  <2>1. HandedOut(k)
    BY <1>1, <1>8 DEF Inv
  <2>2. Pruned(k)' = Pruned(k)
    BY <1>1 DEF Pruned
  <2>3. QED BY <1>1, <2>1, <2>2 DEF HandedOut, Unused
<1>9. NoShortage' /\ NoExcess'
  BY <1>1 DEF Inv, NoShortage, NoExcess
<1>10. QED BY <1>1, <1>2, <1>3, <1>4, <1>5, <1>6, <1>7, <1>8, <1>9 DEF Inv

\* Every step.
LEMMA StepKeeps == Inv /\ [Next]_vars => Inv'
<1> SUFFICES ASSUME Inv, [Next]_vars PROVE Inv'
  OBVIOUS
<1>1. CASE GenerateBulk
  BY <1>1, GenerateBulkKeeps
<1>2. ASSUME NEW q \in Program, Generate(q) PROVE Inv'
  BY <1>2, GenerateKeeps
<1>3. ASSUME NEW q \in Program, StartRun(q) PROVE Inv'
  BY <1>3, StartRunKeeps
<1>4. CASE RunStep
  <2>1. ASSUME NEW k \in Kind, Increase(k) PROVE Inv'
    BY <2>1, IncreaseKeeps
  <2>2. ASSUME NEW t \in Thread, BeginTape(t) PROVE Inv'
    BY <2>2, BeginTapeKeeps
  <2>3. ASSUME NEW t \in Thread, EndTape(t) PROVE Inv'
    BY <2>3, EndTapeKeeps
  <2>4. ASSUME NEW t \in Thread, CollectUsage(t) PROVE Inv'
    BY <2>4, CollectUsageKeeps
  <2>5. ASSUME NEW t \in Thread, NEW k \in Kind, Get(t, k) PROVE Inv'
    BY <2>5, GetKeeps
  <2>6. CASE RunTape
    BY <2>6, RunTapeKeeps
  <2>7. CASE JoinTape
    BY <2>7, JoinTapeKeeps
  <2>8. CASE JoinMain
    BY <2>8, JoinMainKeeps
  <2>9. CASE CheckUsage
    BY <2>9, CheckUsageKeeps
  <2>10. CASE PruneFile
    BY <2>10, PruneFileKeeps
  <2>11. CASE EndRun
    BY <2>11, EndRunKeeps
  <2>12. QED BY <1>4, <2>1, <2>2, <2>3, <2>4, <2>5, <2>6, <2>7, <2>8, <2>9, <2>10, <2>11
             DEF RunStep
<1>5. CASE Fail
  <2>1. Throw("failure")
    BY <1>5 DEF Fail
  <2>2. QED BY <2>1, ThrowKeeps
<1>6. CASE UNCHANGED vars
  BY <1>6, NothingKeeps
<1>7. QED BY <1>1, <1>2, <1>3, <1>4, <1>5, <1>6 DEF Next

\* The invariant holds throughout.
THEOREM AccountsKept == Spec => []Inv
<1>1. Init => Inv
  BY StartsRight
<1>2. QED BY <1>1, StepKeeps, PTL DEF Spec

\* Types are kept; files that were prepared for a program with one tape have
\* every tuple it gets, by whole buffers; and no run is refused for using more
\* than its program says, whatever tapes it starts (OfflineMachine, Machine::run).
THEOREM EnoughPrepared == Spec => []Enough
<1>1. Inv => Enough
  BY TypeParts DEF Inv, Enough
<1>2. QED BY <1>1, AccountsKept, PTL

\* No tuple but a daBit is handed out twice as long as programs have one tape and
\* end well, in one run or in several, and what they leave in a file begins with
\* the first tuple they have not used (Buffer::fill_buffer, Buffer::prune,
\* Data_Files::prune). What is excluded, and where the code does otherwise, is
\* said at HandedOutOnce.
THEOREM OthersOnce == Spec => []HandedOutOnce
<1>1. Inv /\ alone /\ clean => \A k \in Pruning : HandedOut(k)
  BY DEF Inv, Pruning
<1>2. Inv => NoReuseAlone
  BY <1>1 DEF NoReuseAlone, HandedOut
<1>3. ASSUME Inv, phase = "off", clean, alone, NEW k \in Pruning, disk[k].exists
      PROVE  \A i \in disk[k].from .. fresh[k] - 1 : i \in used[k] <=> i < disk[k].first
  <2>1. usage[0] = Zero /\ pruned = 0
    BY <1>3 DEF Inv, Phases
  <2>2. k \in Kind
    BY <1>3 DEF Pruning
  <2>3. Unused(k) = disk[k].first + 0
    BY <2>1, <2>2 DEF Unused, Pruned, Zero
  <2>4. disk[k].first \in Nat
    BY <1>3, <2>2 DEF Inv, OtherTypes
  <2>5. Unused(k) = disk[k].first
    BY <2>3, <2>4
  <2>6. QED BY <1>1, <1>3, <2>5 DEF HandedOut
<1>4. Inv => PrunedExactly
  BY <1>3 DEF PrunedExactly
<1>5. Inv => HandedOutOnce
  BY <1>2, <1>4 DEF HandedOutOnce
<1>6. QED BY <1>5, AccountsKept, PTL

=============================================================================
