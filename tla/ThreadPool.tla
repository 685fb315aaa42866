----------------------------- MODULE ThreadPool -----------------------------
(***************************************************************************)
(* The online machine's threads: Machine (Machine.hpp) creates NThreads     *)
(* workers (Online-Thread.hpp), each behind a ThreadQueue, and thread 0     *)
(* runs the main tape, which starts and joins further tapes and spreads     *)
(* preprocessing over the idle threads (ThreadQueues.cpp).                  *)
(*                                                                          *)
(* All parties run the same program. Thread t of one party talks only to    *)
(* thread t of the others, so a job in which it does ends only once thread  *)
(* t of every party has begun as many jobs; Silent says which jobs may do   *)
(* without. Nothing else synchronises the parties.                          *)
(*                                                                          *)
(* WaitQueue.tla justifies queues that are plain sequences here. "left" is  *)
(* touched by the callers only, so schedule and result are one step each.   *)
(***************************************************************************)
EXTENDS Integers, Sequences, FiniteSets, TLC

CONSTANTS Party,       \* the computing parties
          NThreads,    \* nthreads of the schedule file
          ItemCount,   \* how many items a distribute may be asked for
          Silent,      \* kinds of jobs in which no messages are exchanged
          Nested,      \* bound: FALSE leaves out the programs that Nests is about
          MaxOps       \* bound: operations of the main tape before its last joins

ASSUME PartyAssumption == Party # {}
ASSUME NThreadsAssumption == NThreads \in Nat \ {0}
ASSUME ItemCountAssumption == ItemCount \subseteq Nat \ {0}
ASSUME SilentAssumption == Silent \subseteq {"tape", "slice"}
ASSUME NestedAssumption == Nested \in BOOLEAN
ASSUME MaxOpsAssumption == MaxOps \in Nat

\* The parties are interchangeable.
PartySymmetry == Permutations(Party)

Thread == 0 .. NThreads - 1
Helper == Thread \ {0}

\* ThreadJob. prog is prognum (and, for a slice, stands for the output
\* pointer, 0 for a nested one), lo and hi are begin and end. The default job {} has prognum 0,
\* which is the main tape's; a thread's last answer carries its usage.
Job == [kind : {"none", "tape", "slice", "stop", "usage"},
        prog : Nat \cup {-1}, lo : Nat, hi : Nat]
NoJob == [kind |-> "none", prog |-> 0, lo |-> 0, hi |-> 0]
StopJob == [kind |-> "stop", prog |-> -1, lo |-> 0, hi |-> 0]
Usage == [kind |-> "usage", prog |-> 0, lo |-> 0, hi |-> 0]
TapeJob(n) == [kind |-> "tape", prog |-> n, lo |-> 0, hi |-> 0]
SliceJob(n, b, e) == [kind |-> "slice", prog |-> n, lo |-> b, hi |-> e]

\* The operations of the main tape: start tapes on threads ts, after making n
\* items for each of them centrally (n = 0: enough are there); join a tape;
\* make n items for itself. nest: the caller's slice runs out of bit triples
\* (GC/BitAdder.hpp:45) and distributes their generation (GC/RepPrep.hpp:56).
Op == [op : {"tapes", "join", "dist"}, ts : SUBSET Helper, n : Nat,
       nest : BOOLEAN]

\* What thread 0 does for them, one thread of ts at a time, lowest first.
Todo == [do : {"dist", "inner", "own", "wrap", "fill", "sched", "join"},
         ts : SUBSET Helper, n : Nat, j : Job]
Step(d, ts, n) == [do |-> d, ts |-> ts, n |-> n, j |-> NoJob]
OwnStep(j) == [do |-> "own", ts |-> {}, n |-> 0, j |-> j]

VARIABLES
    prog,      \* the main tape, chosen as the first party gets there
    over,      \* it has no more operations
    mpc, mi,   \* [p] Machine's own thread: where it is, its loop index
    left,      \* [p][t] ThreadQueue::left
    in, out,   \* [p][t] the queue's two directions
    deleted,   \* [p] queues that have been freed
    wpc, job,  \* [p][t] worker: where it is, its current job
    ip,        \* [p] operations of the main tape begun
    todo,      \* [p] what is left to do for the current one
    available, \* [p] ThreadQueues::available
    log,       \* [p][t] history: jobs begun, in order
    need,      \* [p] history: items the last distribute was asked for
    made,      \* [p] history: slices of it finished
    mains      \* [p] history: how often the main tape was started

machineVars == <<mpc, mi, deleted>>
queueVars == <<left, in, out>>
workerVars == <<wpc, job>>
tapeVars == <<prog, over, ip, todo, available>>
historyVars == <<log, need, made, mains>>
vars == <<machineVars, queueVars, workerVars, tapeVars, historyVars>>

MachineControl == {"create", "sync", "run", "joinmain", "stop", "wind",
                   "windresult", "windjoin", "done"}
WorkerControl == {"unborn", "start", "setup", "loop", "busy", "checks",
                  "last", "exited"}

\* Every variable has its type.
TypeOK ==
    /\ prog \in Seq(Op)
    /\ over \in BOOLEAN
    /\ mpc \in [Party -> MachineControl]
    /\ mi \in [Party -> 0 .. NThreads]
    /\ left \in [Party -> [Thread -> Int]]
    /\ in \in [Party -> [Thread -> Seq(Job)]]
    /\ out \in [Party -> [Thread -> Seq(Job)]]
    /\ deleted \in [Party -> SUBSET Thread]
    /\ wpc \in [Party -> [Thread -> WorkerControl]]
    /\ job \in [Party -> [Thread -> Job]]
    /\ ip \in [Party -> Nat]
    /\ todo \in [Party -> Seq(Todo)]
    /\ available \in [Party -> SUBSET Helper]
    /\ log \in [Party -> [Thread -> Seq(Job)]]
    /\ need \in [Party -> Nat]
    /\ made \in [Party -> SUBSET (Thread \X Nat \X Nat)]
    /\ mains \in [Party -> Nat]

Init ==
    /\ prog = <<>>
    /\ over = FALSE
    /\ mpc = [p \in Party |-> "create"]
    /\ mi = [p \in Party |-> 0]
    /\ left = [p \in Party |-> [t \in Thread |-> 0]]
    /\ in = [p \in Party |-> [t \in Thread |-> <<>>]]
    /\ out = [p \in Party |-> [t \in Thread |-> <<>>]]
    /\ deleted = [p \in Party |-> {}]
    /\ wpc = [p \in Party |-> [t \in Thread |-> "unborn"]]
    /\ job = [p \in Party |-> [t \in Thread |-> NoJob]]
    /\ ip = [p \in Party |-> 0]
    /\ todo = [p \in Party |-> <<>>]
    /\ available = [p \in Party |-> {}]
    /\ log = [p \in Party |-> [t \in Thread |-> <<>>]]
    /\ need = [p \in Party |-> 0]
    /\ made = [p \in Party |-> {}]
    /\ mains = [p \in Party |-> 0]

-----------------------------------------------------------------------------
(* ThreadQueue.                                                            *)

\* schedule(j[t]) on the queue of every t in ts: count it, then queue it.
Schedule(p, ts, j) ==
    /\ left' = [left EXCEPT ![p] =
                  [t \in Thread |-> left[p][t] + IF t \in ts THEN 1 ELSE 0]]
    /\ in' = [in EXCEPT ![p] =
                [t \in Thread |-> IF t \in ts THEN Append(in[p][t], j[t])
                                              ELSE in[p][t]]]
    /\ out' = out

\* result(): blocks until there is an answer.
Result(p, t) ==
    /\ out[p][t] # <<>>
    /\ out' = [out EXCEPT ![p][t] = Tail(@)]
    /\ left' = [left EXCEPT ![p][t] = @ - 1]
    /\ in' = in

\* next(), by the worker.
TakeJob(p, t) ==
    /\ in[p][t] # <<>>
    /\ in' = [in EXCEPT ![p][t] = Tail(@)]
    /\ UNCHANGED <<left, out>>

\* Mutant: the worker, not the caller, takes the job off the count.
FinishedDecrements(p, t, j) ==
    /\ out' = [out EXCEPT ![p][t] = Append(@, j)]
    /\ left' = [left EXCEPT ![p][t] = @ - 1]
    /\ in' = in

\* finished(j), by the worker; left stays as it is.
Finished(p, t, j) ==
    /\ out' = [out EXCEPT ![p][t] = Append(@, j)]
    /\ UNCHANGED <<left, in>>

-----------------------------------------------------------------------------
(* Machine: constructor and run().                                         *)

Always(j) == [t \in Thread |-> j]

CreateThreads(p) ==
    /\ mpc[p] = "create"
    /\ Schedule(p, Thread, Always(NoJob))
    /\ wpc' = [wpc EXCEPT ![p] = [t \in Thread |-> "start"]]
    /\ mpc' = [mpc EXCEPT ![p] = "sync"]
    /\ mi' = [mi EXCEPT ![p] = 0]
    /\ UNCHANGED <<deleted, job, tapeVars, historyVars>>

\* "synchronize with clients before starting timer"
Synchronize(p) ==
    /\ mpc[p] = "sync"
    /\ Result(p, mi[p])
    /\ mi' = [mi EXCEPT ![p] = @ + 1]
    /\ mpc' = [mpc EXCEPT ![p] = IF mi[p] + 1 = NThreads THEN "run" ELSE @]
    /\ UNCHANGED <<deleted, workerVars, tapeVars, historyVars>>

RunMainTape(p) ==
    /\ mpc[p] = "run"
    /\ Schedule(p, {0}, Always(TapeJob(0)))
    /\ mpc' = [mpc EXCEPT ![p] = "joinmain"]
    /\ UNCHANGED <<mi, deleted, workerVars, tapeVars, historyVars>>

JoinMainTape(p) ==
    /\ mpc[p] = "joinmain"
    /\ Result(p, 0)
    /\ mpc' = [mpc EXCEPT ![p] = "stop"]
    /\ UNCHANGED <<mi, deleted, workerVars, tapeVars, historyVars>>

\* Mutant: thread 0 is not told to stop.
StopHelpers(p) ==
    /\ mpc[p] = "stop"
    /\ Schedule(p, Helper, Always(StopJob))
    /\ mpc' = [mpc EXCEPT ![p] = "wind"]
    /\ mi' = [mi EXCEPT ![p] = 0]
    /\ UNCHANGED <<deleted, workerVars, tapeVars, historyVars>>

\* "Tell all C-threads to stop"
StopThreads(p) ==
    /\ mpc[p] = "stop"
    /\ Schedule(p, Thread, Always(StopJob))
    /\ mpc' = [mpc EXCEPT ![p] = "wind"]
    /\ mi' = [mi EXCEPT ![p] = 0]
    /\ UNCHANGED <<deleted, workerVars, tapeVars, historyVars>>

\* "Wait until all clients have signed out", thread by thread.
SignOut(p) ==
    /\ mpc[p] = "wind"
    /\ Schedule(p, {mi[p]}, Always(NoJob))
    /\ mpc' = [mpc EXCEPT ![p] = "windresult"]
    /\ UNCHANGED <<mi, deleted, workerVars, tapeVars, historyVars>>

CollectUsage(p) ==
    /\ mpc[p] = "windresult"
    /\ Result(p, mi[p])
    /\ mpc' = [mpc EXCEPT ![p] = "windjoin"]
    /\ UNCHANGED <<mi, deleted, workerVars, tapeVars, historyVars>>

JoinThread(p) ==
    /\ mpc[p] = "windjoin"
    /\ wpc[p][mi[p]] = "exited"
    /\ deleted' = [deleted EXCEPT ![p] = @ \cup {mi[p]}]
    /\ mi' = [mi EXCEPT ![p] = @ + 1]
    /\ mpc' = [mpc EXCEPT ![p] =
                 IF mi[p] + 1 = NThreads THEN "done" ELSE "wind"]
    /\ UNCHANGED <<queueVars, workerVars, tapeVars, historyVars>>

MachineStep(p) ==
    \/ CreateThreads(p) \/ Synchronize(p) \/ RunMainTape(p) \/ JoinMainTape(p)
    \/ StopThreads(p) \/ SignOut(p) \/ CollectUsage(p) \/ JoinThread(p)

-----------------------------------------------------------------------------
(* Workers: thread_info::Sub_Main_Func.                                    *)

\* Thread t of every party has got as far as this one has.
Met(p, t) == \A q \in Party : Len(log[q][t]) >= Len(log[p][t])
MetIn(kind, p, t) == kind \in Silent \/ Met(p, t)

Goto(p, t, where) == wpc' = [wpc EXCEPT ![p][t] = where]
Begin(p, t, j) == log' = [log EXCEPT ![p][t] = Append(@, j)]

\* The stand-in job taken, the thread connects to the same thread elsewhere.
Start(p, t) ==
    /\ wpc[p][t] = "start"
    /\ TakeJob(p, t)
    /\ Begin(p, t, Head(in[p][t]))
    /\ Goto(p, t, "setup")
    /\ UNCHANGED <<machineVars, job, tapeVars, need, made, mains>>

SetUp(p, t) ==
    /\ wpc[p][t] = "setup"
    /\ Met(p, t)
    /\ Finished(p, t, NoJob)
    /\ Goto(p, t, "loop")
    /\ UNCHANGED <<machineVars, job, tapeVars, historyVars>>

\* prognum -1 ends the loop; a typed job is done by its type; anything else,
\* {} included, runs tape prognum.
Dispatch(p, t) ==
    /\ wpc[p][t] = "loop"
    /\ TakeJob(p, t)
    /\ LET j == Head(in[p][t])
       IN /\ Begin(p, t, j)
          /\ job' = [job EXCEPT ![p][t] = j]
          /\ Goto(p, t, IF j.prog = -1 THEN "checks" ELSE "busy")
          /\ mains' = [mains EXCEPT ![p] =
                         IF j.kind \in {"none", "tape"} /\ j.prog = 0
                         THEN @ + 1 ELSE @]
    /\ UNCHANGED <<machineVars, tapeVars, need, made>>

RunsMain(p, t) == t = 0 /\ wpc[p][t] = "busy" /\ job[p][t] = TapeJob(0)

\* The slices of the distribute under way are what is recorded.
Produced(p, t, j) ==
    made' = [made EXCEPT ![p] =
               IF j.prog = 0 THEN @ ELSE @ \cup {<<t, j.lo, j.hi>>}]

FinishSlice(p, t) ==
    /\ wpc[p][t] = "busy"
    /\ job[p][t].kind = "slice"
    /\ MetIn("slice", p, t)
    /\ Produced(p, t, job[p][t])
    /\ Finished(p, t, job[p][t])
    /\ Goto(p, t, "loop")
    /\ UNCHANGED <<machineVars, job, tapeVars, log, need, mains>>

\* A tape ends when its instructions do; for the main tape, see below.
FinishTape(p, t) ==
    /\ wpc[p][t] = "busy"
    /\ job[p][t].kind # "slice"
    /\ RunsMain(p, t) => over /\ ip[p] = Len(prog) /\ todo[p] = <<>>
    /\ MetIn("tape", p, t)
    /\ Finished(p, t, job[p][t])
    /\ Goto(p, t, "loop")
    /\ UNCHANGED <<machineVars, job, tapeVars, historyVars>>

\* Protocol check, MAC checks and broadcast check, with the other parties.
FinalChecks(p, t) ==
    /\ wpc[p][t] = "checks"
    /\ Met(p, t)
    /\ Goto(p, t, "last")
    /\ UNCHANGED <<machineVars, queueVars, job, tapeVars, historyVars>>

\* Take the last job as the permission to wind down, report the usage.
WindDown(p, t) ==
    /\ wpc[p][t] = "last"
    /\ in[p][t] # <<>>
    /\ in' = [in EXCEPT ![p][t] = Tail(@)]
    /\ out' = [out EXCEPT ![p][t] = Append(@, Usage)]
    /\ Goto(p, t, "exited")
    /\ UNCHANGED <<machineVars, left, job, tapeVars, historyVars>>

WorkerStep(p, t) ==
    \/ Start(p, t) \/ SetUp(p, t) \/ Dispatch(p, t) \/ FinishSlice(p, t)
    \/ FinishTape(p, t) \/ FinalChecks(p, t) \/ WindDown(p, t)

-----------------------------------------------------------------------------
(* The main tape, on thread 0.                                             *)

\* Threads with a tape that the program has not joined yet (the compiler's
\* complement of free_threads), before operation k.
Outstanding(k) ==
    {t \in Helper : \E i \in 1 .. k - 1 :
        /\ prog[i].op = "tapes"
        /\ t \in prog[i].ts
        /\ \A i2 \in i + 1 .. k - 1 : prog[i2].op # "join" \/ t \notin prog[i2].ts}

\* What the compiler lets a program do next. Unless Nested, there is a nested
\* distribute only where no thread is available to either.
Allowed ==
    LET busy == Outstanding(Len(prog) + 1)
        nests == IF Nested \/ busy = Helper THEN BOOLEAN ELSE {FALSE}
    IN [op : {"tapes"}, ts : (SUBSET (Helper \ busy)) \ {{}}, n : {0},
        nest : {FALSE}]
       \cup [op : {"tapes"}, ts : (SUBSET (Helper \ busy)) \ {{}}, n : ItemCount,
             nest : nests]
       \cup [op : {"join"}, ts : {{t} : t \in busy}, n : {0}, nest : {FALSE}]
       \cup [op : {"dist"}, ts : {{}}, n : ItemCount, nest : nests]

\* A distribute before every transfer if the buffers run short.
Central(n) == IF n = 0 THEN <<>> ELSE <<Step("dist", {}, n)>>

\* The steps of one operation; run_tapes fills the buffers of all its threads
\* before it starts any of them.
Steps(o) ==
    CASE o.op = "tapes" -> Central(o.n) \o <<Step("fill", o.ts, o.n),
                                             Step("sched", o.ts, 0)>>
      [] o.op = "join" -> <<Step("join", o.ts, 0)>>
      [] o.op = "dist" -> <<Step("dist", {}, o.n)>>

\* The next operation of the tape; the first party to get there picks it.
NextOp(p) ==
    /\ RunsMain(p, 0)
    /\ todo[p] = <<>>
    /\ \/ /\ ip[p] < Len(prog)
          /\ todo' = [todo EXCEPT ![p] = Steps(prog[ip[p] + 1])]
          /\ prog' = prog
       \/ /\ ip[p] = Len(prog)
          /\ ~over
          /\ \E o \in Allowed : /\ o.op = "join" \/ Len(prog) < MaxOps
                                /\ prog' = Append(prog, o)
                                /\ todo' = [todo EXCEPT ![p] = Steps(o)]
    /\ ip' = [ip EXCEPT ![p] = @ + 1]
    /\ UNCHANGED <<machineVars, queueVars, workerVars, over, available,
                   historyVars>>

\* The tape's last instruction; every tape has been joined by then.
EndOfTape(p) ==
    /\ RunsMain(p, 0)
    /\ todo[p] = <<>>
    /\ ip[p] = Len(prog)
    /\ ~over
    /\ Outstanding(Len(prog) + 1) = {}
    /\ over' = TRUE
    /\ UNCHANGED <<machineVars, queueVars, workerVars, prog, ip, todo,
                   available, historyVars>>

Doing(p, d) == RunsMain(p, 0) /\ todo[p] # <<>> /\ Head(todo[p]).do = d

\* t is the thread the current step is about next.
At(p, t) ==
    /\ t \in Head(todo[p]).ts
    /\ \A u \in Head(todo[p]).ts : t <= u

\* Done with t; before is what has to be done before the next thread.
DoneWith(p, t, before) ==
    LET rest == Head(todo[p]).ts \ {t}
    IN todo' = [todo EXCEPT ![p] =
                  (IF rest = {} THEN <<>>
                   ELSE before \o <<[Head(todo[p]) EXCEPT !.ts = rest]>>)
                  \o Tail(@)]

\* Mutant: threads with a job are given slices too.
FindAll(p) == Helper

FindAvailable(p) == {t \in Helper : left[p][t] = 0}

\* get_n_per_thread with granularity 1, for a threads besides the caller.
NPerThread(n, a) == n \div (a + 1)

\* Mutant: threads counted from 1.
SliceFromOne(o, n, a, i) ==
    SliceJob(o, (i - 1) * NPerThread(n, a), i * NPerThread(n, a))

\* Mutant: the end is taken to be inclusive.
SliceInclusive(o, n, a, i) ==
    SliceJob(o, i * NPerThread(n, a), (i + 1) * NPerThread(n, a) + 1)

\* The slice of the i-th available thread, i from 0.
SliceOf(o, n, a, i) ==
    SliceJob(o, i * NPerThread(n, a), (i + 1) * NPerThread(n, a))

\* distribute: a slice for every available thread, the rest for the caller,
\* who may have to distribute something else while at it.
Distribute(p) ==
    /\ Doing(p, "dist") \/ Doing(p, "inner")
    /\ LET outer == Doing(p, "dist")
           id == IF outer THEN ip[p] ELSE 0
           n == Head(todo[p]).n
           av == FindAvailable(p)
           a == Cardinality(av)
           rank(t) == Cardinality({u \in av : u < t})
           own == SliceJob(id, a * NPerThread(n, a), n)
           nested == IF outer /\ prog[ip[p]].nest
                     THEN <<Step("inner", {}, n)>> ELSE <<>>
       IN /\ available' = [available EXCEPT ![p] = av]
          /\ Schedule(p, av, [t \in Thread |-> SliceOf(id, n, a, rank(t))])
          /\ Begin(p, 0, own)
          /\ todo' = [todo EXCEPT ![p] = nested \o <<OwnStep(own)>> \o Tail(@)]
          /\ need' = IF outer THEN [need EXCEPT ![p] = n] ELSE need
          /\ made' = IF outer THEN [made EXCEPT ![p] = {}] ELSE made
    /\ UNCHANGED <<machineVars, workerVars, prog, over, ip, mains>>

\* The caller's slice done, wrap_up collects from every thread in available,
\* which it reads only now.
OwnSlice(p) ==
    /\ Doing(p, "own")
    /\ MetIn("slice", p, 0)
    /\ Produced(p, 0, Head(todo[p]).j)
    /\ todo' = [todo EXCEPT ![p] =
                  (IF available[p] = {} THEN <<>>
                   ELSE <<Step("wrap", available[p], 0)>>) \o Tail(@)]
    /\ UNCHANGED <<machineVars, queueVars, workerVars, prog, over, ip,
                   available, log, need, mains>>

WrapUp(p, t) ==
    /\ Doing(p, "wrap")
    /\ At(p, t)
    /\ Result(p, t)
    /\ DoneWith(p, t, <<>>)
    /\ UNCHANGED <<machineVars, workerVars, prog, over, ip, available,
                   historyVars>>

\* fill_buffers' transfer: thread 0 writes to the buffers of thread t.
FillBuffers(p, t) ==
    /\ Doing(p, "fill")
    /\ At(p, t)
    /\ DoneWith(p, t, Central(Head(todo[p]).n))
    /\ UNCHANGED <<machineVars, queueVars, workerVars, prog, over, ip,
                   available, historyVars>>

RunTape(p, t) ==
    /\ Doing(p, "sched")
    /\ At(p, t)
    /\ Schedule(p, {t}, Always(TapeJob(ip[p])))
    /\ DoneWith(p, t, <<>>)
    /\ UNCHANGED <<machineVars, workerVars, prog, over, ip, available,
                   historyVars>>

JoinTape(p, t) ==
    /\ Doing(p, "join")
    /\ At(p, t)
    /\ Result(p, t)
    /\ DoneWith(p, t, <<>>)
    /\ UNCHANGED <<machineVars, workerVars, prog, over, ip, available,
                   historyVars>>

TapeStep(p) ==
    \/ NextOp(p) \/ EndOfTape(p) \/ Distribute(p) \/ OwnSlice(p)
    \/ \E t \in Helper :
          WrapUp(p, t) \/ FillBuffers(p, t) \/ RunTape(p, t) \/ JoinTape(p, t)

-----------------------------------------------------------------------------
AllDone == \A p \in Party : mpc[p] = "done"

Next ==
    \/ \E p \in Party : MachineStep(p) \/ TapeStep(p)
    \/ \E p \in Party, t \in Thread : WorkerStep(p, t)
    \/ AllDone /\ UNCHANGED vars

Spec == Init /\ [][Next]_vars

\* Every thread of every party that can go on does so eventually: they are
\* operating-system threads, and Met stands for messages that arrive.
FairSpec ==
    /\ Spec
    /\ \A p \in Party : WF_vars(MachineStep(p)) /\ WF_vars(TapeStep(p))
    /\ \A p \in Party, t \in Thread : WF_vars(WorkerStep(p, t))

-----------------------------------------------------------------------------
(* Properties.                                                             *)

\* Jobs of t that were scheduled and have no result waiting or in the making:
\* the worker's current one, and the stop job, which is never answered.
Held(p, t) ==
    IF wpc[p][t] \in {"setup", "busy", "checks", "last", "exited"} THEN 1 ELSE 0

\* left counts the jobs in flight, although only the caller's side changes it:
\* queued, held by the worker, or answered and not collected
\* (ThreadQueue.cpp:9-40).
LeftCounts ==
    \A p \in Party, t \in Thread :
        left[p][t] = Len(in[p][t]) + Len(out[p][t]) + Held(p, t)

\* Thread t begins the same jobs in the same order at all parties, slices with
\* the same bounds included. It holds only because find_available depends on
\* the program and not on how fast the workers are (ThreadQueues.cpp:17-27).
SameJobs ==
    \A p, q \in Party, t \in Thread :
        \A k \in 1 .. Len(log[p][t]) :
            k <= Len(log[q][t]) => log[p][t][k] = log[q][t][k]

\* The answer the caller is about to collect is the one it waits for: the
\* assertion of wrap_up (ThreadQueues.cpp:54), the tape of
\* join_tape, and a thread's usage when the machine winds down, which is what
\* the preprocessing files are pruned by.
ResultsMatch ==
    \A p \in Party :
        /\ \A d \in {"wrap", "join"}, t \in Helper :
              Doing(p, d) /\ At(p, t) /\ out[p][t] # <<>> =>
                  LET answer == Head(out[p][t])
                  IN \/ d = "wrap" /\ answer.kind = "slice"
                                 /\ answer.prog \in {0, ip[p]}
                     \/ d = "join" /\ answer.kind = "tape"
        /\ mpc[p] = "windresult" /\ out[p][mi[p]] # <<>> =>
              Head(out[p][mi[p]]) = Usage

\* Thread 0 writes to the buffers of a thread, or runs its share of a
\* distribute, only while that thread is set up and waits for a job: there is
\* no lock around them (Machine.hpp:187-229).
FillBuffersIdle ==
    \A p \in Party : Doing(p, "fill") =>
        \A t \in Head(todo[p]).ts :
            wpc[p][t] = "loop" /\ in[p][t] = <<>> /\ out[p][t] = <<>>

\* When the caller goes on after a distribute, every item it asked for has
\* been produced, by exactly one thread.
SlicesCover ==
    \A p \in Party :
        RunsMain(p, 0) /\ ~(\E d \in {"inner", "own", "wrap"} : Doing(p, d)) =>
            \A i \in 0 .. need[p] - 1 :
                Cardinality({s \in made[p] : s[2] <= i /\ i < s[3]}) = 1

\* The main tape runs once, on thread 0, although the default job {} that the
\* machine uses as a signal names it too (Online-Thread.hpp:126-133, 239).
MainOnce ==
    \A p \in Party : mains[p] <= 1 /\ (mpc[p] = "done" => mains[p] = 1)

\* A queue is freed only when nobody will touch it again and no answer is lost
\* with it (Machine.hpp:314-315).
FreedQueuesQuiet ==
    \A p \in Party : \A t \in deleted[p] :
        wpc[p][t] = "exited" /\ in[p][t] = <<>> /\ out[p][t] = <<>>

\* A distribute has been begun that nests another while threads are free. From
\* then on find_available has cleared the set that the outer wrap_up goes by
\* (ThreadQueues.cpp:19), and answers go to operations that did not ask for
\* them: that is what the run pool_nested shows of ResultsMatch.
Nests == \E k \in 1 .. Len(prog) : prog[k].nest /\ Outstanding(k) # Helper

\* Jobs meet at both parties, answers go to who waits for them, buffers are
\* filled and queues freed only while their thread is quiet
\* (ThreadQueues::distribute, wrap_up, Machine::fill_buffers, Machine::run).
\* Not so once a distribute nests another while threads are free.
JobsInOrder ==
    ~Nests => SameJobs /\ ResultsMatch /\ FillBuffersIdle /\ FreedQueuesQuiet

\* Every item is produced once, and so is the main tape run
\* (ThreadQueues::get_n_per_thread, Machine::run). Not so once a distribute nests
\* another while threads are free: the outer one returns without its slices.
WorkOnce == ~Nests => SlicesCover /\ MainOnce

\* No party waits for another forever: every machine comes to its end.
Termination == <>AllDone

=============================================================================
