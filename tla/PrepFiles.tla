------------------------------ MODULE PrepFiles ------------------------------
(***************************************************************************)
(* Preprocessing read from files by one party (Data_Files, Buffer): runs of *)
(* the online machine one after the other over the same files, each reading *)
(* through buffers from positions in tuples, skipping what it leaves to the *)
(* tapes it starts, and pruning the files by what was used at its end.      *)
(*                                                                          *)
(* A tuple is an index; a file holds those from first to last - 1, and what *)
(* is generated has indices never used before. A tuple has one element, so  *)
(* BufferSize counts tuples. Builds without INSECURE.                       *)
(***************************************************************************)
EXTENDS Integers, Sequences, FiniteSets

CONSTANTS Kinds,       \* the kinds of files, in the order they are pruned in
          Dabits,      \* those among them that hold daBits
          Helper,      \* threads besides 0
          Program,     \* the main tapes that may be run
          BufferSize,  \* BUFFER_SIZE
          Bulk,        \* tuples per file of a bulk generator, 0: there is none
          Required,    \* TRUE: the offline machine prepares what a program needs
          MayFail,     \* TRUE: a job may throw (failed check, lost connection)
          MaxRuns      \* bound: runs of the online machine

Kind == {Kinds[i] : i \in DOMAIN Kinds}
Thread == Helper \cup {0}

ASSUME KindAssumption ==
    /\ Kinds \in Seq(Kind) /\ Kinds # <<>> /\ Dabits \subseteq Kind
    /\ \A i, j \in DOMAIN Kinds : Kinds[i] = Kinds[j] => i = j
ASSUME ThreadAssumption == Helper \subseteq Nat \ {0}
ASSUME BufferSizeAssumption == BufferSize \in Nat \ {0}
ASSUME GeneratorAssumption == Bulk \in Nat /\ Required \in BOOLEAN
ASSUME RunAssumption == MaxRuns \in Nat /\ MayFail \in BOOLEAN

\* An instruction of the main tape: get a tuple of kind k; start on thread t a
\* tape that gets n of them; join it. (A run_tapes with several threads is one
\* after the other.) Thread 0 is running the main tape.
Instruction ==
    {i \in [do : {"get", "tape", "join"}, k : Kind, t : Thread, n : Nat] :
        i.do # "get" => i.t \in Helper}
ASSUME ProgramAssumption == Program \subseteq Seq(Instruction)

VARIABLES
    disk,      \* [k] the file: whether it exists, its tuples first .. last - 1,
               \* and from, the first one when it was generated
    fresh,     \* [k] the next index to be generated
    prepared,  \* the program the files were just generated for, or <<>>
    fit,       \* they were, when the last run started
    alone,     \* history: no run had a tape besides the main one
    runs,      \* runs started
    phase,     \* "off", "run", "count" (summing the usage) or "prune"
    prog, ic,  \* the main tape, instructions of it done
    pos,       \* [k] Machine::pos
    counted,   \* kinds that run() has added the main tape's usage of
    summed,    \* threads whose usage has been collected
    pruned,    \* files seen to by prune
    wpc,       \* [t] "idle", "job" (scheduled), "tape" (running), "finished"
    job,       \* [t] pos of the job, and what its tape has still to get
    reader,    \* [t][k] position in the file, tuples left in the buffer
    usage,     \* [t][k] Data_Files::usage
    skipped,   \* [t][k] Data_Files::skipped
    actual,    \* [t][k] actual_usage
    used,      \* [k] history: the tuples handed out
    again,     \* [k] history: those handed out more than once
    clean,     \* history: no run has thrown
    why        \* how the last run ended

files == <<disk, fresh, prepared>>
machine == <<fit, alone, runs, phase, prog, pos, counted, summed, pruned>>
threads == <<ic, wpc, job, reader, usage, skipped, actual>>
history == <<used, again>>
outcome == <<clean, why>>
vars == <<files, machine, threads, history, outcome>>

Zero == [k \in Kind |-> 0]
AtStart == [at |-> 0, left |-> 0]
NoWork == [pos |-> Zero, k |-> Kinds[1], n |-> 0]

\* Every variable has its type; a buffer never holds more than BufferSize.
TypeOK ==
    /\ disk \in [Kind -> [exists : BOOLEAN, from : Nat, first : Nat, last : Nat]]
    /\ fresh \in [Kind -> Nat]
    /\ {prepared, prog} \subseteq Program \cup {<<>>}
    /\ fit \in BOOLEAN
    /\ alone \in BOOLEAN
    /\ runs \in 0 .. MaxRuns
    /\ phase \in {"off", "run", "count", "prune"}
    /\ ic \in 0 .. Len(prog)
    /\ pos \in [Kind -> Nat]
    /\ counted \subseteq Kind
    /\ summed \subseteq Thread
    /\ pruned \in 0 .. Len(Kinds)
    /\ wpc \in [Thread -> {"idle", "job", "tape", "finished"}]
    /\ job \in [Thread -> [pos : [Kind -> Nat], k : Kind, n : Nat]]
    /\ reader \in [Thread -> [Kind -> [at : Nat, left : 0 .. BufferSize]]]
    /\ {usage, skipped, actual} \subseteq [Thread -> [Kind -> Nat]]
    /\ clean \in BOOLEAN
    /\ {used, again} \subseteq [Kind -> SUBSET Nat]
    /\ why \in {"none", "ok", "failure", "shortage", "missing", "prune", "excess"}

Init ==
    /\ disk = [k \in Kind |-> [exists |-> FALSE, from |-> 0, first |-> 0, last |-> 0]]
    /\ fresh = Zero
    /\ prepared = <<>>
    /\ fit = FALSE
    /\ alone = TRUE
    /\ runs = 0
    /\ phase = "off"
    /\ prog = <<>>
    /\ ic = 0
    /\ pos = Zero
    /\ counted = {}
    /\ summed = {}
    /\ pruned = 0
    /\ wpc = [t \in Thread |-> "idle"]
    /\ job = [t \in Thread |-> NoWork]
    /\ reader = [t \in Thread |-> [k \in Kind |-> AtStart]]
    /\ usage = [t \in Thread |-> Zero]
    /\ skipped = [t \in Thread |-> Zero]
    /\ actual = [t \in Thread |-> Zero]
    /\ used = [k \in Kind |-> {}]
    /\ again = [k \in Kind |-> {}]
    /\ clean = TRUE
    /\ why = "none"

-----------------------------------------------------------------------------
(* What a program needs, and its preparation.                              *)

Needs(i, k) ==
    IF i.k # k \/ i.do = "join" THEN 0 ELSE IF i.do = "get" THEN 1 ELSE i.n

\* get_offline_data_used of the main tape: the compiler adds its children's.
OfflineDataUsed(q) ==
    [k \in Kind |->
        LET sum[i \in 0 .. Len(q)] ==
                IF i = 0 THEN 0 ELSE sum[i - 1] + Needs(q[i], k)
        IN sum[Len(q)]]

\* Mutant: what is needed and no more.
NotRounded(n) == n

\* Enough full buffers, because files are read by full buffers.
Rounded(n) == ((n + BufferSize - 1) \div BufferSize) * BufferSize

\* Files of n[k] fresh tuples, none where n[k] = 0.
Write(n) ==
    /\ disk' = [k \in Kind |-> [exists |-> n[k] > 0, from |-> fresh[k],
                                first |-> fresh[k], last |-> fresh[k] + n[k]]]
    /\ fresh' = [k \in Kind |-> fresh[k] + n[k]]

\* The offline machine, for program q.
Generate(q) ==
    /\ Required
    /\ phase = "off"
    /\ runs < MaxRuns
    /\ prepared = <<>>
    /\ Write([k \in Kind |-> Rounded(OfflineDataUsed(q)[k])])
    /\ prepared' = q
    /\ UNCHANGED <<machine, threads, history, outcome>>

\* A generator that fills every file whatever the program.
GenerateBulk ==
    /\ Bulk > 0
    /\ phase = "off"
    /\ runs < MaxRuns
    /\ prepared = <<>>
    /\ \E k \in Kind : ~disk[k].exists
    /\ Write([k \in Kind |-> Bulk])
    /\ UNCHANGED <<prepared, machine, threads, history, outcome>>

-----------------------------------------------------------------------------
(* The process of one run.                                                 *)

\* Where a process begins, and what is left of it when it has ended.
Process(ph, q) ==
    /\ phase' = ph
    /\ prog' = q
    /\ ic' = 0
    /\ pos' = Zero
    /\ counted' = {}
    /\ summed' = {}
    /\ pruned' = 0
    /\ job' = [t \in Thread |-> NoWork]
    /\ reader' = [t \in Thread |-> [k \in Kind |-> AtStart]]
    /\ usage' = [t \in Thread |-> Zero]
    /\ skipped' = [t \in Thread |-> Zero]
    /\ actual' = [t \in Thread |-> Zero]

\* The machine set up, run() schedules the main tape at position 0.
StartRun(q) ==
    /\ phase = "off"
    /\ runs < MaxRuns
    /\ runs' = runs + 1
    /\ Process("run", q)
    /\ wpc' = [t \in Thread |-> IF t = 0 THEN "job" ELSE "idle"]
    /\ fit' = (prepared = q)
    /\ alone' = (alone /\ \A i \in DOMAIN q : q[i].do = "get")
    /\ prepared' = <<>>
    /\ why' = "none"
    /\ UNCHANGED <<disk, fresh, history, clean>>

\* purge removes the files among opened; purge_preprocessing calls it on
\* Data_Files of its own, which have not opened any.
Purge(opened) ==
    [k \in Kind |-> IF k \in opened THEN [disk[k] EXCEPT !.exists = FALSE]
                                    ELSE disk[k]]

\* An exception: purge_preprocessing, and the process ends.
Throw(how) ==
    /\ disk' = Purge({})
    /\ Process("off", <<>>)
    /\ wpc' = [t \in Thread |-> "idle"]
    /\ why' = how
    /\ clean' = FALSE
    /\ UNCHANGED <<fresh, prepared, fit, alone, runs, history>>

\* run() adds the main tape's usage to pos while that tape is running already,
\* field by field and without a lock.
Increase(k) ==
    /\ phase = "run"
    /\ k \notin counted
    /\ pos' = [pos EXCEPT ![k] = @ + OfflineDataUsed(prog)[k]]
    /\ counted' = counted \cup {k}
    /\ UNCHANGED <<files, fit, alone, runs, phase, prog, summed, pruned, threads,
                   history, outcome>>

-----------------------------------------------------------------------------
(* Buffers.                                                                *)

\* A position past the end is fine, one in a file that is not there is not.
SeekFails(p) == \E k \in Kind : p[k] # 0 /\ ~disk[k].exists

\* seekg drops the buffer. The daBits are read through dabit_buffer, which it
\* leaves alone.
Seekg(t, p) ==
    [k \in Kind |-> IF k \in Dabits THEN reader[t][k]
                    ELSE [at |-> p[k], left |-> 0]]

\* A full buffer can be read.
CanFill(t, k) ==
    /\ disk[k].exists
    /\ reader[t][k].at + BufferSize <= disk[k].last - disk[k].first

\* The reader after fill_buffer if need be.
Filled(t, k) ==
    IF reader[t][k].left > 0 THEN reader[t][k]
    ELSE [at |-> reader[t][k].at + BufferSize, left |-> BufferSize]

\* input: thread t takes the next tuple of kind k and counts it.
Input(t, k) ==
    LET r == Filled(t, k)
        i == disk[k].first + r.at - r.left
    IN /\ reader' = [reader EXCEPT ![t][k] = [r EXCEPT !.left = @ - 1]]
       /\ usage' = [usage EXCEPT ![t][k] = @ + 1]
       /\ used' = [used EXCEPT ![k] = @ \cup {i}]
       /\ again' = [again EXCEPT ![k] = IF i \in used[k] THEN @ \cup {i} ELSE @]

HasTuple(t, k) == reader[t][k].left > 0 \/ CanFill(t, k)

-----------------------------------------------------------------------------
(* Threads.                                                                *)

\* A tape begins: seek to the position of the job, and count from there.
BeginTape(t) ==
    /\ phase = "run"
    /\ wpc[t] = "job"
    /\ \/ /\ SeekFails(job[t].pos)
          /\ Throw("missing")
       \/ /\ ~SeekFails(job[t].pos)
          /\ reader' = [reader EXCEPT ![t] = Seekg(t, job[t].pos)]
          /\ usage' = [usage EXCEPT ![t] = Zero]
          /\ skipped' = [skipped EXCEPT ![t] = Zero]
          /\ wpc' = [wpc EXCEPT ![t] = "tape"]
          /\ UNCHANGED <<files, machine, ic, job, actual, history, outcome>>

\* What the tape of thread t has next, if it is to get something of kind k.
Gets(t, k) ==
    /\ phase = "run"
    /\ wpc[t] = "tape"
    /\ IF t = 0 THEN ic < Len(prog) /\ prog[ic + 1].do = "get" /\ prog[ic + 1].k = k
                ELSE job[t].n > 0 /\ job[t].k = k

Get(t, k) ==
    /\ Gets(t, k)
    /\ \/ /\ HasTuple(t, k)
          /\ Input(t, k)
          /\ ic' = IF t = 0 THEN ic + 1 ELSE ic
          /\ job' = IF t = 0 THEN job ELSE [job EXCEPT ![t].n = @ - 1]
          /\ UNCHANGED <<files, machine, wpc, skipped, actual, outcome>>
       \/ /\ ~HasTuple(t, k)
          /\ Throw(IF disk[k].exists THEN "shortage" ELSE "missing")

\* actual_usage after a tape of thread t: without what it left to others.
UsedBy(t) == [k \in Kind |-> actual[t][k] + usage[t][k] - skipped[t][k]]

\* Mutant: the job stays in the queue.
EndTapeKeepsJob(t) ==
    /\ phase = "run"
    /\ wpc[t] = "tape"
    /\ IF t = 0 THEN ic = Len(prog) ELSE job[t].n = 0
    /\ actual' = [actual EXCEPT ![t] = UsedBy(t)]
    /\ wpc' = [wpc EXCEPT ![t] = "job"]
    /\ UNCHANGED <<files, machine, ic, job, reader, usage, skipped, history, outcome>>

\* A tape ends. The main tape's thread has joined all others.
EndTape(t) ==
    /\ phase = "run"
    /\ wpc[t] = "tape"
    /\ IF t = 0 THEN ic = Len(prog) ELSE job[t].n = 0
    /\ actual' = [actual EXCEPT ![t] = UsedBy(t)]
    /\ wpc' = [wpc EXCEPT ![t] = "finished"]
    /\ UNCHANGED <<files, machine, ic, job, reader, usage, skipped, history, outcome>>

\* run_tapes: the job gets the machine's pos; the main tape skips what the
\* other will use.
RunTape ==
    /\ phase = "run"
    /\ wpc[0] = "tape"
    /\ ic < Len(prog)
    /\ prog[ic + 1].do = "tape"
    /\ LET i == prog[ic + 1]
           newPos == [k \in Kind |-> usage[0][k] + Needs(i, k)]
       IN \/ /\ SeekFails(newPos)
             /\ Throw("missing")
          \/ /\ ~SeekFails(newPos)
             /\ job' = [job EXCEPT ![i.t] = [pos |-> pos, k |-> i.k, n |-> i.n]]
             /\ wpc' = [wpc EXCEPT ![i.t] = "job"]
             /\ skipped' = [skipped EXCEPT ![0] =
                              [k \in Kind |-> @[k] + Needs(i, k)]]
             /\ reader' = [reader EXCEPT ![0] = Seekg(0, newPos)]
             /\ usage' = [usage EXCEPT ![0] = newPos]
             /\ ic' = ic + 1
             /\ UNCHANGED <<files, machine, actual, history, outcome>>

JoinTape ==
    /\ phase = "run"
    /\ wpc[0] = "tape"
    /\ ic < Len(prog)
    /\ prog[ic + 1].do = "join"
    /\ wpc[prog[ic + 1].t] = "finished"
    /\ wpc' = [wpc EXCEPT ![prog[ic + 1].t] = "idle"]
    /\ ic' = ic + 1
    /\ UNCHANGED <<files, machine, job, reader, usage, skipped, actual, history,
                   outcome>>

\* Something else goes wrong in a job.
Fail ==
    /\ MayFail
    /\ phase = "run"
    /\ Throw("failure")

-----------------------------------------------------------------------------
(* The end of run().                                                       *)

\* The main tape joined: "reset to sum actual usage".
JoinMain ==
    /\ phase = "run"
    /\ wpc[0] = "finished"
    /\ counted = Kind
    /\ phase' = "count"
    /\ pos' = Zero
    /\ UNCHANGED <<files, fit, alone, runs, prog, counted, summed, pruned, threads,
                   history, outcome>>

CollectUsage(t) ==
    /\ phase = "count"
    /\ t \notin summed
    /\ \A u \in Thread : u < t => u \in summed
    /\ pos' = [k \in Kind |-> pos[k] + actual[t][k]]
    /\ summed' = summed \cup {t}
    /\ UNCHANGED <<files, fit, alone, runs, phase, prog, counted, pruned, threads,
                   history, outcome>>

\* The check against the program, then Data_Files of the machine's own are
\* sent to pos.
CheckUsage ==
    /\ phase = "count"
    /\ summed = Thread
    /\ IF \E k \in Kind : pos[k] > OfflineDataUsed(prog)[k] THEN Throw("excess")
       ELSE IF SeekFails(pos) THEN Throw("missing")
       ELSE /\ phase' = "prune"
            /\ UNCHANGED <<files, fit, alone, runs, prog, pos, counted, summed, pruned,
                           threads, history, outcome>>

\* Mutant: the recorded tuple size of a kind is one too small.
PruneShort(k) == IF k \in Dabits \/ pos[k] = 0 THEN 0 ELSE pos[k] - 1

\* How far into the file of kind k the seek went: the tuple size recorded for
\* daBits is 0.
PrunePosition(k) == IF k \in Dabits THEN 0 ELSE pos[k]

\* prune of the next file, by copying what comes after the position. A stream
\* that failed to open is at -1, and copying nothing counts as a failed write.
PruneFile ==
    /\ phase = "prune"
    /\ pruned < Len(Kinds)
    /\ LET k == Kinds[pruned + 1]
           at == PrunePosition(k)
           empty == ~disk[k].exists \/ (at > 0 /\ disk[k].first + at >= disk[k].last)
       IN \/ /\ empty
             /\ Throw("prune")
          \/ /\ ~empty
             /\ disk' = [disk EXCEPT ![k].first = @ + at]
             /\ pruned' = pruned + 1
             /\ UNCHANGED <<fresh, prepared, fit, alone, runs, phase, prog, pos, counted,
                            summed, threads, history, outcome>>

EndRun ==
    /\ phase = "prune"
    /\ pruned = Len(Kinds)
    /\ Process("off", <<>>)
    /\ wpc' = [t \in Thread |-> "idle"]
    /\ why' = "ok"
    /\ UNCHANGED <<files, fit, alone, runs, history, clean>>

RunStep ==
    \/ \E k \in Kind : Increase(k)
    \/ \E t \in Thread : BeginTape(t) \/ EndTape(t) \/ CollectUsage(t)
    \/ \E t \in Thread, k \in Kind : Get(t, k)
    \/ RunTape \/ JoinTape \/ JoinMain \/ CheckUsage \/ PruneFile \/ EndRun

Over == phase = "off" /\ runs = MaxRuns

Next ==
    \/ GenerateBulk
    \/ \E q \in Program : Generate(q) \/ StartRun(q)
    \/ RunStep
    \/ Fail
    \/ Over /\ UNCHANGED vars

Spec == Init /\ [][Next]_vars

\* A run that can go on does; nobody has to generate or to start anything.
FairSpec == Spec /\ WF_vars(RunStep)

-----------------------------------------------------------------------------
(* Properties.                                                             *)

\* "The preprocessed data can only be used once" (README.md:685), as long as
\* every run ends well.
NoReuse == clean => \A k \in Kind : again[k] = {}

\* Kinds whose files are sought and pruned. Not so the daBits: tuple_size gives 0
\* for them and dabit_buffer is left out of seekg and prune, so that the next run
\* reads the same ones (DataPositions.cpp:13, Data_Files.hpp:157-183).
Pruning == Kind \ Dabits

\* Without further tapes no tuple, daBits apart, is handed out twice, neither in
\* one run, by one buffer or the next, nor in two runs (Buffer.h:173-184,
\* Buffer.cpp:23-70, Machine.hpp:405-409).
NoReuseAlone == alone /\ clean => \A k \in Pruning : again[k] = {}

\* What a run leaves behind, daBits apart, begins with the first tuple it has not
\* used: every tuple from there on is unused, and every one before it was used
\* (Machine.hpp:303-315, 405-409).
PrunedExactly ==
    phase = "off" /\ clean /\ alone =>
        \A k \in Pruning : disk[k].exists =>
            \A i \in disk[k].from .. fresh[k] - 1 : i \in used[k] <=> i < disk[k].first

\* A run whose preprocessing was prepared for its program does not find too
\* little of it (OfflineMachine.hpp:65-99). Only of programs with one tape: a
\* seek to the middle of a buffer makes the last one come out short.
NoShortage == ~(why = "shortage" /\ fit /\ alone)

\* The threads together use no more than the program says, so that the check
\* after a computation never refuses it (Machine.hpp:396-398).
NoExcess == why # "excess"

\* Nothing is handed out twice without a second tape, and a run leaves files
\* that begin with the first unused tuple (Buffer::prune, Data_Files::prune).
\* Three exclusions, where the code does otherwise: daBits (Pruning); tapes
\* that share a position (alone; NoReuse fails in the run prep_tapes); and runs
\* that throw, which leave what they used in place (clean; Buffer.cpp:62-74).
HandedOutOnce == NoReuseAlone /\ PrunedExactly

\* Prepared files suffice and the usage that is counted is no more than what
\* was declared (OfflineMachine, Machine::run, DataPositions).
Enough == TypeOK /\ NoShortage /\ NoExcess

\* Every run that was started ends.
RunsEnd == phase # "off" ~> phase = "off"

=============================================================================
