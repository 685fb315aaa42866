-------------------------- MODULE ThreadPoolProofs --------------------------
(***************************************************************************)
(* Theorems about ThreadPool for any number of parties, threads, items and *)
(* operations.                                                             *)
(***************************************************************************)
EXTENDS ThreadPool, FiniteSetTheorems, SequenceTheorems, TLAPS

-----------------------------------------------------------------------------
(* Facts about the operators.                                              *)

\* How many of the threads satisfy something is a natural number.
LEMMA CountType ==
    ASSUME NEW S \in SUBSET Thread
    PROVE  IsFiniteSet(S) /\ Cardinality(S) \in Nat
<1>1. NThreads - 1 \in Int
  BY NThreadsAssumption
<1>2. IsFiniteSet(Thread)
  BY <1>1, FS_Interval DEF Thread
<1>3. IsFiniteSet(S)
  BY <1>2, FS_Subset
<1>4. QED BY <1>3, FS_CardinalityType

\* Thread 0, which runs the main tape, always exists.
LEMMA ZeroIsThread == 0 \in Thread
  BY NThreadsAssumption DEF Thread

\* Dividing items among threads gives a natural number, and so do multiples.
LEMMA NPerThreadType ==
    ASSUME NEW n \in Nat, NEW a \in Nat
    PROVE  NPerThread(n, a) \in Nat
  BY DEF NPerThread

\* Natural numbers multiply to a natural number.
LEMMA ProductType ==
    ASSUME NEW a \in Nat, NEW b \in Nat
    PROVE  a * b \in Nat
  OBVIOUS

\* The slice of any thread of a distribute is a well-formed job.
LEMMA SliceType ==
    ASSUME NEW o \in Nat, NEW n \in Nat, NEW a \in Nat, NEW i \in Nat
    PROVE  SliceOf(o, n, a, i) \in Job
<1>1. NPerThread(n, a) \in Nat
  BY NPerThreadType
<1>2. i * NPerThread(n, a) \in Nat /\ (i + 1) * NPerThread(n, a) \in Nat
  BY <1>1, ProductType
<1>3. QED BY <1>2 DEF SliceOf, SliceJob, Job

\* The jobs the machine schedules are jobs.
LEMMA ConstantJobs ==
    /\ NoJob \in Job
    /\ StopJob \in Job
    /\ Usage \in Job
    /\ \A n \in Nat : TapeJob(n) \in Job
  BY DEF NoJob, StopJob, Usage, TapeJob, Job

-----------------------------------------------------------------------------
(* The type invariant, by component.                                       *)

MachineType ==
    /\ mpc \in [Party -> MachineControl]
    /\ mi \in [Party -> 0 .. NThreads]
    /\ deleted \in [Party -> SUBSET Thread]
QueueType ==
    /\ left \in [Party -> [Thread -> Int]]
    /\ in \in [Party -> [Thread -> Seq(Job)]]
    /\ out \in [Party -> [Thread -> Seq(Job)]]
WorkerType ==
    /\ wpc \in [Party -> [Thread -> WorkerControl]]
    /\ job \in [Party -> [Thread -> Job]]
TapeType ==
    /\ prog \in Seq(Op)
    /\ over \in BOOLEAN
    /\ ip \in [Party -> Nat]
    /\ todo \in [Party -> Seq(Todo)]
    /\ available \in [Party -> SUBSET Helper]
HistoryType ==
    /\ log \in [Party -> [Thread -> Seq(Job)]]
    /\ need \in [Party -> Nat]
    /\ made \in [Party -> SUBSET (Thread \X Nat \X Nat)]
    /\ mains \in [Party -> Nat]

\* The machine's loop index names a thread wherever it is used as one.
IndexOK ==
    \A p \in Party :
        mpc[p] \in {"sync", "wind", "windresult", "windjoin"} => mi[p] \in Thread

TypeInv ==
    MachineType /\ QueueType /\ WorkerType /\ TapeType /\ HistoryType /\ IndexOK

\* The type invariant by component, with IndexOK, gives TypeOK.
LEMMA TypeInvIsType == TypeInv => TypeOK
  BY DEF TypeInv, TypeOK, MachineType, QueueType, WorkerType, TapeType,
         HistoryType

\* It holds before the machine does anything.
LEMMA InitType == Init => TypeInv
<1> SUFFICES ASSUME Init PROVE TypeInv
  OBVIOUS
<1> USE DEF Init
<1>1. MachineType /\ IndexOK
  BY NThreadsAssumption, ZeroIsThread
  DEF MachineType, IndexOK, MachineControl
<1>2. QueueType
  BY DEF QueueType
<1>3. WorkerType
  BY ConstantJobs DEF WorkerType, WorkerControl
<1>4. TapeType
  <2>1. prog \in Seq(Op) /\ todo \in [Party -> Seq(Todo)]
    OBVIOUS
  <2>2. QED BY <2>1, Zenon DEF TapeType
<1>5. HistoryType
  BY DEF HistoryType
<1>6. QED BY <1>1, <1>2, <1>3, <1>4, <1>5 DEF TypeInv

-----------------------------------------------------------------------------
(* The four operations of a ThreadQueue keep its types.                    *)

\* schedule keeps the types of the queues.
LEMMA ScheduleType ==
    ASSUME QueueType, NEW p \in Party, NEW ts, NEW j \in [Thread -> Job],
           Schedule(p, ts, j)
    PROVE  QueueType'
<1>1. left' \in [Party -> [Thread -> Int]]
  BY DEF QueueType, Schedule
<1>2. in' \in [Party -> [Thread -> Seq(Job)]]
  <2>1. ASSUME NEW t \in Thread
        PROVE  Append(in[p][t], j[t]) \in Seq(Job) /\ in[p][t] \in Seq(Job)
    BY DEF QueueType
  <2>2. [t \in Thread |-> IF t \in ts THEN Append(in[p][t], j[t])
                                      ELSE in[p][t]]
          \in [Thread -> Seq(Job)]
    BY <2>1
  <2>3. QED BY <2>2 DEF QueueType, Schedule
<1>3. QED BY <1>1, <1>2 DEF QueueType, Schedule

\* result keeps the types of the queues.
LEMMA ResultType ==
    ASSUME QueueType, NEW p \in Party, NEW t \in Thread, Result(p, t)
    PROVE  QueueType'
<1>1. Tail(out[p][t]) \in Seq(Job)
  BY DEF QueueType, Result
<1>2. left[p][t] - 1 \in Int
  BY DEF QueueType
<1>3. QED BY <1>1, <1>2 DEF QueueType, Result

\* next keeps the types of the queues, and returns a job.
LEMMA TakeJobType ==
    ASSUME QueueType, NEW p \in Party, NEW t \in Thread, TakeJob(p, t)
    PROVE  QueueType' /\ Head(in[p][t]) \in Job
<1>1. Tail(in[p][t]) \in Seq(Job) /\ Head(in[p][t]) \in Job
  BY DEF QueueType, TakeJob
<1>2. QED BY <1>1 DEF QueueType, TakeJob

\* finished keeps the types of the queues.
LEMMA FinishedType ==
    ASSUME QueueType, NEW p \in Party, NEW t \in Thread, NEW j \in Job,
           Finished(p, t, j)
    PROVE  QueueType'
<1>1. Append(out[p][t], j) \in Seq(Job)
  BY DEF QueueType
<1>2. QED BY <1>1 DEF QueueType, Finished

\* Beginning a job appends it to a thread's history.
LEMMA BeginType ==
    ASSUME NEW p \in Party, NEW t \in Thread, NEW j \in Job, Begin(p, t, j),
           log \in [Party -> [Thread -> Seq(Job)]]
    PROVE  log' \in [Party -> [Thread -> Seq(Job)]]
<1>1. Append(log[p][t], j) \in Seq(Job)
  OBVIOUS
<1>2. QED BY <1>1 DEF Begin

\* The same job for every thread.
LEMMA AlwaysType ==
    ASSUME NEW j \in Job
    PROVE  Always(j) \in [Thread -> Job]
  BY DEF Always

-----------------------------------------------------------------------------
(* Every step keeps the type invariant.                                    *)

\* The machine's own steps keep the type invariant; IndexOK is what makes
\* its queue accesses ones of queues that exist.
LEMMA MachineStepType ==
    ASSUME TypeInv, NEW p \in Party, MachineStep(p)
    PROVE  TypeInv'
<1> USE DEF TypeInv
<1>a. UNCHANGED <<tapeVars, historyVars>> /\ job' = job
  BY DEF MachineStep, CreateThreads, Synchronize, RunMainTape, JoinMainTape,
         StopThreads, SignOut, CollectUsage, JoinThread, workerVars
<1>b. TapeType' /\ HistoryType'
  BY <1>a DEF tapeVars, historyVars, TapeType, HistoryType
<1>c. ASSUME NEW j \in Job PROVE Always(j) \in [Thread -> Job]
  BY AlwaysType
<1>1. QueueType'
  <2>1. CASE CreateThreads(p)
    BY <2>1, <1>c, ConstantJobs, ScheduleType DEF CreateThreads
  <2>2. CASE Synchronize(p)
    BY <2>2, ResultType DEF Synchronize, IndexOK
  <2>3. CASE RunMainTape(p)
    BY <2>3, <1>c, ConstantJobs, ScheduleType DEF RunMainTape
  <2>4. CASE JoinMainTape(p)
    BY <2>4, ResultType, ZeroIsThread DEF JoinMainTape
  <2>5. CASE StopThreads(p)
    BY <2>5, <1>c, ConstantJobs, ScheduleType DEF StopThreads
  <2>6. CASE SignOut(p)
    BY <2>6, <1>c, ConstantJobs, ScheduleType DEF SignOut
  <2>7. CASE CollectUsage(p)
    BY <2>7, ResultType DEF CollectUsage, IndexOK
  <2>8. CASE JoinThread(p)
    BY <2>8 DEF JoinThread, queueVars, QueueType
  <2>9. QED
    BY <2>1, <2>2, <2>3, <2>4, <2>5, <2>6, <2>7, <2>8 DEF MachineStep
<1>2. WorkerType'
  BY <1>a DEF MachineStep, CreateThreads, Synchronize, RunMainTape,
     JoinMainTape, StopThreads, SignOut, CollectUsage, JoinThread, workerVars,
     WorkerType, WorkerControl
<1>3. MachineType' /\ IndexOK'
  <2> USE NThreadsAssumption DEF MachineType, MachineControl, IndexOK, Thread
  <2>1. CASE CreateThreads(p)
    BY <2>1 DEF CreateThreads
  <2>2. CASE Synchronize(p)
    BY <2>2 DEF Synchronize
  <2>3. CASE RunMainTape(p) \/ JoinMainTape(p)
    BY <2>3 DEF RunMainTape, JoinMainTape
  <2>4. CASE SignOut(p) \/ CollectUsage(p)
    BY <2>4 DEF SignOut, CollectUsage
  <2>5. CASE StopThreads(p)
    BY <2>5 DEF StopThreads
  <2>6. CASE JoinThread(p)
    BY <2>6 DEF JoinThread
  <2>7. QED BY <2>1, <2>2, <2>3, <2>4, <2>5, <2>6 DEF MachineStep
<1>4. QED BY <1>b, <1>1, <1>2, <1>3

\* The workers' steps keep the type invariant.
LEMMA WorkerStepType ==
    ASSUME TypeInv, NEW p \in Party, NEW t \in Thread, WorkerStep(p, t)
    PROVE  TypeInv'
<1> USE DEF TypeInv
<1>a. UNCHANGED <<machineVars, tapeVars>> /\ need' = need
  BY DEF WorkerStep, Start, SetUp, Dispatch, FinishSlice, FinishTape,
         FinalChecks, WindDown, historyVars
<1>b. TapeType' /\ MachineType' /\ IndexOK'
  BY <1>a DEF machineVars, tapeVars, TapeType, MachineType, IndexOK
<1>c. job[p][t] \in Job
  BY DEF WorkerType
<1>1. CASE Start(p, t)
  <2>1. QueueType' /\ Head(in[p][t]) \in Job
    BY <1>1, TakeJobType DEF Start
  <2>2. HistoryType'
    BY <1>1, <2>1, BeginType DEF Start, HistoryType
  <2>3. WorkerType'
    BY <1>1 DEF Start, Goto, WorkerType, WorkerControl
  <2>4. QED BY <1>b, <2>1, <2>2, <2>3
<1>2. CASE SetUp(p, t)
  <2>1. QueueType'
    BY <1>2, FinishedType, ConstantJobs DEF SetUp
  <2>2. QED
    BY <1>2, <1>b, <2>1
    DEF SetUp, Goto, WorkerType, WorkerControl, HistoryType, historyVars
<1>3. CASE Dispatch(p, t)
  <2>1. QueueType' /\ Head(in[p][t]) \in Job
    BY <1>3, TakeJobType DEF Dispatch
  <2>2. log' \in [Party -> [Thread -> Seq(Job)]]
    BY <1>3, <2>1, BeginType DEF Dispatch, HistoryType
  <2>3. mains' \in [Party -> Nat] /\ made' = made
    BY <1>3 DEF Dispatch, HistoryType
  <2>4. HistoryType'
    BY <1>a, <2>2, <2>3 DEF HistoryType
  <2>5. WorkerType'
    BY <1>3, <2>1 DEF Dispatch, Goto, WorkerType, WorkerControl
  <2>6. QED BY <1>b, <2>1, <2>4, <2>5
<1>4. CASE FinishSlice(p, t)
  <2>1. QueueType'
    BY <1>4, <1>c, FinishedType DEF FinishSlice
  <2>2. <<t, job[p][t].lo, job[p][t].hi>> \in Thread \X Nat \X Nat
    BY <1>c DEF Job
  <2>3. HistoryType'
    BY <1>4, <2>2 DEF FinishSlice, Produced, HistoryType
  <2>4. WorkerType'
    BY <1>4 DEF FinishSlice, Goto, WorkerType, WorkerControl
  <2>5. QED BY <1>b, <2>1, <2>3, <2>4
<1>5. CASE FinishTape(p, t)
  <2>1. QueueType'
    BY <1>5, <1>c, FinishedType DEF FinishTape
  <2>2. QED
    BY <1>5, <1>b, <2>1
    DEF FinishTape, Goto, WorkerType, WorkerControl, HistoryType, historyVars
<1>6. CASE FinalChecks(p, t)
  BY <1>6, <1>b
  DEF FinalChecks, Goto, WorkerType, WorkerControl, HistoryType, historyVars,
      QueueType, queueVars
<1>7. CASE WindDown(p, t)
  <2>1. Tail(in[p][t]) \in Seq(Job) /\ Append(out[p][t], Usage) \in Seq(Job)
    BY <1>7, ConstantJobs DEF WindDown, QueueType
  <2>2. QueueType'
    BY <1>7, <2>1 DEF WindDown, QueueType
  <2>3. QED
    BY <1>7, <1>b, <2>2
    DEF WindDown, Goto, WorkerType, WorkerControl, HistoryType, historyVars
<1>8. QED
  BY <1>1, <1>2, <1>3, <1>4, <1>5, <1>6, <1>7 DEF WorkerStep

\* The steps thread 0 puts on its list are steps.
LEMMA StepType ==
    ASSUME NEW d \in {"dist", "inner", "wrap", "fill", "sched", "join"},
           NEW ts \in SUBSET Helper, NEW n \in Nat
    PROVE  Step(d, ts, n) \in Todo
  BY ConstantJobs DEF Step, Todo

\* What has to be made centrally is a list of steps.
LEMMA CentralType ==
    ASSUME NEW n \in Nat
    PROVE  Central(n) \in Seq(Todo)
<1>1. Step("dist", {}, n) \in Todo
  BY StepType
<1>2. QED BY <1>1 DEF Central

\* The steps of an operation are steps.
LEMMA StepsType ==
    ASSUME NEW o \in Op
    PROVE  Steps(o) \in Seq(Todo)
<1>1. o.ts \in SUBSET Helper /\ o.n \in Nat /\ o.op \in {"tapes", "join", "dist"}
  BY DEF Op
<1>2. /\ Step("fill", o.ts, o.n) \in Todo
      /\ Step("sched", o.ts, 0) \in Todo
      /\ Step("join", o.ts, 0) \in Todo
      /\ Step("dist", {}, o.n) \in Todo
  BY <1>1, StepType
<1>3. Central(o.n) \in Seq(Todo)
  BY <1>1, CentralType
<1>4. Central(o.n) \o <<Step("fill", o.ts, o.n), Step("sched", o.ts, 0)>>
        \in Seq(Todo)
  BY <1>2, <1>3
<1>5. QED
  BY <1>1, <1>2, <1>4 DEF Steps

\* A set of records is a set of operations if each field is of its type.
LEMMA OpSet ==
    ASSUME NEW k \in {"tapes", "join", "dist"}, NEW T, T \subseteq SUBSET Helper,
           NEW N, N \subseteq Nat, NEW B, B \subseteq BOOLEAN
    PROVE  [op : {k}, ts : T, n : N, nest : B] \subseteq Op
  BY DEF Op

\* What a program may do next is an operation.
LEMMA AllowedType == Allowed \subseteq Op
<1> DEFINE busy == Outstanding(Len(prog) + 1)
           nests == IF Nested \/ busy = Helper THEN BOOLEAN ELSE {FALSE}
           free == (SUBSET (Helper \ busy)) \ {{}}
           joins == {{t} : t \in busy}
           none == {0}
           never == {FALSE}
<1>1. busy \in SUBSET Helper
  BY DEF Outstanding
<1>2. nests \subseteq BOOLEAN /\ never \subseteq BOOLEAN
  BY Zenon
<1>3. free \subseteq SUBSET Helper /\ joins \subseteq SUBSET Helper
  BY <1>1
<1>4. ItemCount \subseteq Nat /\ none \subseteq Nat /\ {{}} \subseteq SUBSET Helper
  BY ItemCountAssumption
<1> HIDE DEF busy, nests, free, joins, none, never
<1>5. [op : {"tapes"}, ts : free, n : none, nest : never] \subseteq Op
  BY <1>2, <1>3, <1>4, OpSet, Zenon
<1>6. [op : {"tapes"}, ts : free, n : ItemCount, nest : nests] \subseteq Op
  BY <1>2, <1>3, <1>4, OpSet, Zenon
<1>7. [op : {"join"}, ts : joins, n : none, nest : never] \subseteq Op
  BY <1>2, <1>3, <1>4, OpSet, Zenon
<1>8. [op : {"dist"}, ts : {{}}, n : ItemCount, nest : nests] \subseteq Op
  BY <1>2, <1>4, OpSet, Zenon
<1>9. QED
  BY <1>5, <1>6, <1>7, <1>8, Zenon DEF Allowed, busy, nests, free, joins, none, never

\* The step at the head of the list, and what it says, is of its type.
LEMMA HeadType ==
    ASSUME TapeType, NEW p \in Party, todo[p] # <<>>
    PROVE  /\ Head(todo[p]) \in Todo
           /\ Head(todo[p]).n \in Nat
           /\ Head(todo[p]).j \in Job
<1>1. todo[p] \in Seq(Todo)
  BY DEF TapeType
<1>2. Head(todo[p]) \in Todo
  BY <1>1
<1>3. QED BY <1>2 DEF Todo

\* Replacing the first step by others keeps the list's type.
LEMMA ReplaceHeadType ==
    ASSUME TapeType, NEW p \in Party, todo[p] # <<>>, NEW s \in Seq(Todo)
    PROVE  /\ Head(todo[p]) \in Todo
           /\ s \o Tail(todo[p]) \in Seq(Todo)
<1>1. todo[p] \in Seq(Todo)
  BY DEF TapeType
<1>2. Head(todo[p]) \in Todo /\ Tail(todo[p]) \in Seq(Todo)
  BY <1>1
<1>3. QED BY <1>2

\* Being done with one thread of a step keeps the list's type.
LEMMA DoneWithType ==
    ASSUME TapeType, NEW p \in Party, NEW t, todo[p] # <<>>,
           NEW b \in Seq(Todo), DoneWith(p, t, b)
    PROVE  todo' \in [Party -> Seq(Todo)]
<1> DEFINE rest == Head(todo[p]).ts \ {t}
           h == [Head(todo[p]) EXCEPT !.ts = rest]
           s == IF rest = {} THEN <<>> ELSE b \o <<h>>
<1>1. Head(todo[p]) \in Todo
  BY HeadType
<1>2. h \in Todo
  BY <1>1 DEF Todo
<1>3. s \in Seq(Todo)
  BY <1>2
<1>4. s \o Tail(todo[p]) \in Seq(Todo)
  BY <1>3, ReplaceHeadType
<1>5. QED BY <1>4 DEF DoneWith, TapeType

\* The jobs a distribute schedules are jobs, one for each available thread.
LEMMA DistributeJobs ==
    ASSUME QueueType, TapeType, NEW p \in Party, Distribute(p)
    PROVE  \E ts : \E j \in [Thread -> Job] : Schedule(p, ts, j)
<1> DEFINE id == IF Doing(p, "dist") THEN ip[p] ELSE 0
           n == Head(todo[p]).n
           av == FindAvailable(p)
           a == Cardinality(av)
           rank(t) == Cardinality({u \in av : u < t})
           js == [t \in Thread |-> SliceOf(id, n, a, rank(t))]
<1>1. n \in Nat
  BY HeadType DEF Distribute, Doing
<1>2. id \in Nat
  BY DEF TapeType
<1>3. av \in SUBSET Thread
  BY DEF FindAvailable, Helper
<1>4. a \in Nat
  BY <1>3, CountType
<1>5. ASSUME NEW t \in Thread PROVE rank(t) \in Nat
  BY <1>3, CountType
<1>6. Schedule(p, av, js)
  BY DEF Distribute
<1> HIDE DEF id, n, av, a, rank
<1>7. js \in [Thread -> Job]
  BY <1>1, <1>2, <1>4, <1>5, SliceType
<1>8. QED BY <1>6, <1>7

\* The steps of the main tape keep the type invariant.
LEMMA TapeStepType ==
    ASSUME TypeInv, NEW p \in Party, TapeStep(p)
    PROVE  TypeInv'
<1> USE DEF TypeInv
<1>a. UNCHANGED <<machineVars, workerVars>> /\ mains' = mains
  BY DEF TapeStep, NextOp, EndOfTape, Distribute, OwnSlice, WrapUp,
         FillBuffers, RunTape, JoinTape, historyVars
<1>b. MachineType' /\ IndexOK' /\ WorkerType'
  BY <1>a DEF machineVars, workerVars, MachineType, IndexOK, WorkerType
<1>c. ASSUME UNCHANGED <<prog, over, ip, available>>,
             todo' \in [Party -> Seq(Todo)]
      PROVE  TapeType'
  BY <1>c DEF TapeType
<1>d. ASSUME UNCHANGED queueVars PROVE QueueType'
  BY <1>d DEF queueVars, QueueType
<1>e. ASSUME UNCHANGED historyVars PROVE HistoryType'
  BY <1>e DEF historyVars, HistoryType
<1>1. CASE NextOp(p)
  <2>1. ip' \in [Party -> Nat] /\ UNCHANGED <<over, available>>
    BY <1>1 DEF NextOp, TapeType
  <2>2. prog' \in Seq(Op) /\ todo' \in [Party -> Seq(Todo)]
    <3>1. CASE /\ ip[p] < Len(prog)
               /\ todo' = [todo EXCEPT ![p] = Steps(prog[ip[p] + 1])]
               /\ prog' = prog
      <4>1. prog[ip[p] + 1] \in Op
        BY <3>1 DEF TapeType
      <4>2. QED BY <3>1, <4>1, StepsType DEF TapeType
    <3>2. CASE \E o \in Allowed : /\ prog' = Append(prog, o)
                                 /\ todo' = [todo EXCEPT ![p] = Steps(o)]
      <4>1. PICK o \in Allowed : /\ prog' = Append(prog, o)
                                 /\ todo' = [todo EXCEPT ![p] = Steps(o)]
        BY <3>2
      <4>2. o \in Op
        BY AllowedType
      <4>3. Append(prog, o) \in Seq(Op)
        BY <4>2 DEF TapeType
      <4>4. QED BY <4>1, <4>2, <4>3, StepsType DEF TapeType
    <3>3. QED BY <1>1, <3>1, <3>2 DEF NextOp
  <2>3. TapeType'
    BY <2>1, <2>2 DEF TapeType
  <2>4. QED BY <1>1, <1>b, <1>d, <1>e, <2>3 DEF NextOp
<1>2. CASE EndOfTape(p)
  <2>1. TapeType'
    BY <1>2, Zenon DEF EndOfTape, TapeType
  <2>2. QED BY <1>2, <1>b, <1>d, <1>e, <2>1 DEF EndOfTape
<1>3. CASE Distribute(p)
  <2> DEFINE outer == Doing(p, "dist")
             id == IF outer THEN ip[p] ELSE 0
             n == Head(todo[p]).n
             av == FindAvailable(p)
             a == Cardinality(av)
             rank(t) == Cardinality({u \in av : u < t})
             own == SliceJob(id, a * NPerThread(n, a), n)
             nested == IF outer /\ prog[ip[p]].nest
                       THEN <<Step("inner", {}, n)>> ELSE <<>>
             js == [t \in Thread |-> SliceOf(id, n, a, rank(t))]
  <2>1. todo[p] # <<>>
    BY <1>3 DEF Distribute, Doing
  <2>2. n \in Nat
    BY <2>1, HeadType
  <2>3. id \in Nat
    BY DEF TapeType
  <2>4. av \in SUBSET Helper /\ av \in SUBSET Thread
    BY DEF FindAvailable, Helper
  <2>5. a \in Nat
    BY <2>4, CountType
  <2>6. ASSUME NEW t \in Thread PROVE rank(t) \in Nat
    BY <2>4, CountType
  <2> HIDE DEF id, n, av, a, rank
  <2>7. js \in [Thread -> Job]
    BY <2>2, <2>3, <2>5, <2>6, SliceType
  <2>8. a * NPerThread(n, a) \in Nat
    BY <2>2, <2>5, NPerThreadType, ProductType
  <2>9. own \in Job
    BY <2>2, <2>3, <2>8 DEF SliceJob, Job
  <2>10. nested \in Seq(Todo)
    BY <2>2, StepType
  <2> HIDE DEF outer, own, nested, js
  <2>11. OwnStep(own) \in Todo
    BY <2>9 DEF OwnStep, Todo
  <2>12. nested \o <<OwnStep(own)>> \in Seq(Todo)
    BY <2>10, <2>11
  <2>13. (nested \o <<OwnStep(own)>>) \o Tail(todo[p]) \in Seq(Todo)
    BY <2>1, <2>12, ReplaceHeadType
  <2>14. /\ available' = [available EXCEPT ![p] = av]
         /\ Schedule(p, av, js)
         /\ Begin(p, 0, own)
         /\ todo' = [todo EXCEPT ![p] =
                       (nested \o <<OwnStep(own)>>) \o Tail(todo[p])]
         /\ need' = IF outer THEN [need EXCEPT ![p] = n] ELSE need
         /\ made' = IF outer THEN [made EXCEPT ![p] = {}] ELSE made
         /\ UNCHANGED <<prog, over, ip, mains>>
    BY <1>3 DEF Distribute, outer, id, n, av, a, rank, own, nested, js
  <2>15. QueueType'
    BY <2>7, <2>14, ScheduleType
  <2>16. log' \in [Party -> [Thread -> Seq(Job)]]
    BY <2>9, <2>14, BeginType, ZeroIsThread DEF HistoryType
  <2>17. HistoryType'
    BY <2>2, <2>14, <2>16 DEF HistoryType
  <2>18. todo' \in [Party -> Seq(Todo)] /\ available' \in [Party -> SUBSET Helper]
    BY <2>4, <2>13, <2>14 DEF TapeType
  <2>19. TapeType'
    BY <2>14, <2>18 DEF TapeType
  <2>20. QED BY <1>b, <2>15, <2>17, <2>19
<1>4. CASE OwnSlice(p)
  <2> DEFINE s == IF available[p] = {} THEN <<>>
                  ELSE <<Step("wrap", available[p], 0)>>
             j == Head(todo[p]).j
  <2>1. todo[p] # <<>>
    BY <1>4 DEF OwnSlice, Doing
  <2>2. Step("wrap", available[p], 0) \in Todo
    BY StepType DEF TapeType
  <2>3. s \in Seq(Todo)
    BY <2>2
  <2>4. s \o Tail(todo[p]) \in Seq(Todo)
    BY <2>1, <2>3, ReplaceHeadType
  <2>5. TapeType'
    BY <1>4, <2>4, <1>c DEF OwnSlice, TapeType
  <2>6. j \in Job
    BY <2>1, HeadType
  <2>7. <<0, j.lo, j.hi>> \in Thread \X Nat \X Nat
    BY <2>6, ZeroIsThread DEF Job
  <2>8. HistoryType'
    BY <1>4, <2>7 DEF OwnSlice, Produced, HistoryType
  <2>9. QED BY <1>4, <1>b, <1>d, <2>5, <2>8 DEF OwnSlice
<1>5. ASSUME NEW t \in Helper,
             WrapUp(p, t) \/ FillBuffers(p, t) \/ RunTape(p, t) \/ JoinTape(p, t)
      PROVE  TypeInv'
  <2>1. todo[p] # <<>> /\ t \in Thread
    BY <1>5 DEF WrapUp, FillBuffers, RunTape, JoinTape, Doing, Helper
  <2>2. HistoryType'
    BY <1>5, <1>e DEF WrapUp, FillBuffers, RunTape, JoinTape
  <2>3. Head(todo[p]).n \in Nat
    BY <2>1, HeadType
  <2>4. Central(Head(todo[p]).n) \in Seq(Todo) /\ <<>> \in Seq(Todo)
    BY <2>3, CentralType
  <2>5. todo' \in [Party -> Seq(Todo)]
    BY <1>5, <2>1, <2>4, DoneWithType
    DEF WrapUp, FillBuffers, RunTape, JoinTape
  <2>6. TapeType'
    BY <1>5, <1>c, <2>5 DEF WrapUp, FillBuffers, RunTape, JoinTape
  <2>7. Always(TapeJob(ip[p])) \in [Thread -> Job]
    BY ConstantJobs, AlwaysType DEF TapeType
  <2>8. QueueType'
    <3>1. CASE WrapUp(p, t)
      BY <3>1, <2>1, ResultType DEF WrapUp
    <3>2. CASE FillBuffers(p, t)
      BY <3>2, <1>d DEF FillBuffers
    <3>3. CASE RunTape(p, t)
      BY <3>3, <2>7, ScheduleType DEF RunTape
    <3>4. CASE JoinTape(p, t)
      BY <3>4, <2>1, ResultType DEF JoinTape
    <3>5. QED BY <1>5, <3>1, <3>2, <3>3, <3>4
  <2>9. QED BY <1>b, <2>2, <2>6, <2>8
<1>6. QED
  BY <1>1, <1>2, <1>3, <1>4, <1>5 DEF TapeStep

\* The type invariant is inductive.
LEMMA NextType == TypeInv /\ [Next]_vars => TypeInv'
<1> SUFFICES ASSUME TypeInv, [Next]_vars PROVE TypeInv'
  OBVIOUS
<1>1. CASE UNCHANGED vars
  BY <1>1
  DEF vars, machineVars, queueVars, workerVars, tapeVars, historyVars, TypeInv,
      MachineType, QueueType, WorkerType, TapeType, HistoryType, IndexOK
<1>2. CASE Next
  BY <1>1, <1>2, MachineStepType, TapeStepType, WorkerStepType DEF Next
<1>3. QED BY <1>1, <1>2

\* Every variable keeps its type: in particular no slice has a negative bound,
\* however few items a distribute is asked for (ThreadQueues.cpp:29-49), and
\* the machine's loops never pass the last thread (Machine.hpp:261-315).
THEOREM TypeCorrect == Spec => []TypeOK
<1>1. Spec => []TypeInv
  BY InitType, NextType, PTL DEF Spec
<1>2. QED BY <1>1, TypeInvIsType, PTL

-----------------------------------------------------------------------------
(* The count of jobs in flight. What the queue operations do to it:        *)

\* What the count says beyond the jobs lying in the two queues.
Beyond(p, t) == left[p][t] - (Len(in[p][t]) + Len(out[p][t]))

\* The queues are sequences and their lengths and the count are numbers.
LEMMA QueueNumbers ==
    ASSUME QueueType, NEW p \in Party, NEW t \in Thread
    PROVE  Len(in[p][t]) \in Nat /\ Len(out[p][t]) \in Nat /\ left[p][t] \in Int
<1>1. in[p][t] \in Seq(Job) /\ out[p][t] \in Seq(Job) /\ left[p][t] \in Int
  BY DEF QueueType
<1>2. QED BY <1>1

\* What one more or one less in a queue does to the difference.
LEMMA Arithmetic ==
    ASSUME NEW l \in Int, NEW i \in Nat, NEW o \in Nat
    PROVE  /\ (l + 1) - ((i + 1) + o) = l - (i + o)
           /\ (l - 1) - (i + (o - 1)) = l - (i + o)
           /\ l - ((i - 1) + o) = (l - (i + o)) + 1
           /\ l - (i + (o + 1)) = (l - (i + o)) - 1
           /\ l - ((i - 1) + (o + 1)) = l - (i + o)
           /\ (l - (i + o)) + 0 = l - (i + o)
           /\ (l - (i + o)) - 0 = l - (i + o)
           /\ \A h \in Int : l - (i + o) = h => l = i + o + h
  OBVIOUS

\* Scheduling counts exactly the jobs it queues.
LEMMA ScheduleBeyond ==
    ASSUME QueueType, NEW p \in Party, NEW ts, NEW j \in [Thread -> Job],
           Schedule(p, ts, j), NEW q \in Party, NEW u \in Thread
    PROVE  Beyond(q, u)' = Beyond(q, u)
<1>a. in[q][u] \in Seq(Job) /\ out[q][u] \in Seq(Job)
  BY DEF QueueType
<1>1. Len(in[q][u]) \in Nat /\ Len(out[q][u]) \in Nat /\ left[q][u] \in Int
  BY QueueNumbers
<1>3. CASE q = p /\ u \in ts
  <2>1. left'[q][u] = left[q][u] + 1 /\ in'[q][u] = Append(in[q][u], j[u])
    BY <1>3 DEF Schedule, QueueType
  <2>2. Len(in'[q][u]) = Len(in[q][u]) + 1 /\ out' = out
    BY <1>a, <2>1 DEF Schedule
  <2>3. left'[q][u] = left[q][u] + 1
    BY <2>1
  <2>4. Beyond(q, u)' = (left[q][u] + 1) - ((Len(in[q][u]) + 1) + Len(out[q][u]))
    BY <2>2, <2>3 DEF Beyond
  <2>5. (left[q][u] + 1) - ((Len(in[q][u]) + 1) + Len(out[q][u])) = left[q][u] - (Len(in[q][u]) + Len(out[q][u]))
    BY <1>1, Arithmetic
  <2>6. QED BY <2>4, <2>5 DEF Beyond
<1>4. CASE ~(q = p /\ u \in ts)
  <2>1. left'[q][u] = left[q][u] /\ in'[q][u] = in[q][u]
    BY <1>4 DEF Schedule, QueueType
  <2>2. QED BY <2>1 DEF Beyond, Schedule
<1>5. QED BY <1>3, <1>4

\* Collecting a result takes it off the count.
LEMMA ResultBeyond ==
    ASSUME QueueType, NEW p \in Party, NEW t \in Thread, Result(p, t),
           NEW q \in Party, NEW u \in Thread
    PROVE  Beyond(q, u)' = Beyond(q, u)
<1>a. in[q][u] \in Seq(Job) /\ out[q][u] \in Seq(Job)
  BY DEF QueueType
<1>1. Len(in[q][u]) \in Nat /\ Len(out[q][u]) \in Nat /\ left[q][u] \in Int
  BY QueueNumbers
<1>2. CASE q = p /\ u = t
  <2>1. Len(Tail(out[q][u])) = Len(out[q][u]) - 1
    BY <1>a, <1>2 DEF Result
  <2>2. left'[q][u] = left[q][u] - 1 /\ out'[q][u] = Tail(out[q][u])
    BY <1>2 DEF Result, QueueType
  <2>3. /\ left'[q][u] = left[q][u] - 1 /\ Len(out'[q][u]) = Len(out[q][u]) - 1
        /\ in' = in
    BY <2>1, <2>2 DEF Result
  <2>4. Beyond(q, u)' = (left[q][u] - 1) - (Len(in[q][u]) + (Len(out[q][u]) - 1))
    BY <2>3 DEF Beyond
  <2>5. (left[q][u] - 1) - (Len(in[q][u]) + (Len(out[q][u]) - 1)) = left[q][u] - (Len(in[q][u]) + Len(out[q][u]))
    BY <1>1, Arithmetic
  <2>6. QED BY <2>4, <2>5 DEF Beyond
<1>3. CASE ~(q = p /\ u = t)
  <2>1. left'[q][u] = left[q][u] /\ out'[q][u] = out[q][u]
    BY <1>3 DEF Result, QueueType
  <2>2. QED BY <2>1 DEF Beyond, Result
<1>4. QED BY <1>2, <1>3

\* A worker that takes a job has one more to answer for, and no other has.
LEMMA TakeJobBeyond ==
    ASSUME QueueType, NEW p \in Party, NEW t \in Thread, TakeJob(p, t),
           NEW q \in Party, NEW u \in Thread
    PROVE  Beyond(q, u)' = Beyond(q, u) + IF q = p /\ u = t THEN 1 ELSE 0
<1>a. in[q][u] \in Seq(Job) /\ out[q][u] \in Seq(Job)
  BY DEF QueueType
<1>1. Len(in[q][u]) \in Nat /\ Len(out[q][u]) \in Nat /\ left[q][u] \in Int
  BY QueueNumbers
<1>2. CASE q = p /\ u = t
  <2>1. Len(Tail(in[q][u])) = Len(in[q][u]) - 1
    BY <1>a, <1>2 DEF TakeJob
  <2>2. in'[q][u] = Tail(in[q][u])
    BY <1>2 DEF TakeJob, QueueType
  <2>3. Len(in'[q][u]) = Len(in[q][u]) - 1 /\ UNCHANGED <<left, out>>
    BY <2>1, <2>2 DEF TakeJob
  <2>4. Beyond(q, u)' = left[q][u] - ((Len(in[q][u]) - 1) + Len(out[q][u]))
    BY <2>3 DEF Beyond
  <2>5. left[q][u] - ((Len(in[q][u]) - 1) + Len(out[q][u])) = (left[q][u] - (Len(in[q][u]) + Len(out[q][u]))) + 1
    BY <1>1, Arithmetic
  <2>6. QED BY <1>2, <2>4, <2>5 DEF Beyond
<1>3. CASE ~(q = p /\ u = t)
  <2>1. in'[q][u] = in[q][u]
    BY <1>3 DEF TakeJob, QueueType
  <2>2. Beyond(q, u)' = Beyond(q, u)
    BY <2>1 DEF Beyond, TakeJob
  <2>3. (left[q][u] - (Len(in[q][u]) + Len(out[q][u]))) + 0 = left[q][u] - (Len(in[q][u]) + Len(out[q][u]))
    BY <1>1, Arithmetic
  <2>4. QED BY <1>3, <2>2, <2>3 DEF Beyond
<1>4. QED BY <1>2, <1>3

\* A worker that answers has one fewer to answer for, and no other has.
LEMMA FinishedBeyond ==
    ASSUME QueueType, NEW p \in Party, NEW t \in Thread, NEW j \in Job,
           Finished(p, t, j), NEW q \in Party, NEW u \in Thread
    PROVE  Beyond(q, u)' = Beyond(q, u) - IF q = p /\ u = t THEN 1 ELSE 0
<1>a. in[q][u] \in Seq(Job) /\ out[q][u] \in Seq(Job)
  BY DEF QueueType
<1>1. Len(in[q][u]) \in Nat /\ Len(out[q][u]) \in Nat /\ left[q][u] \in Int
  BY QueueNumbers
<1>2. CASE q = p /\ u = t
  <2>1. Len(Append(out[q][u], j)) = Len(out[q][u]) + 1
    BY <1>a
  <2>2. out'[q][u] = Append(out[q][u], j)
    BY <1>2 DEF Finished, QueueType
  <2>3. Len(out'[q][u]) = Len(out[q][u]) + 1 /\ UNCHANGED <<left, in>>
    BY <2>1, <2>2 DEF Finished
  <2>4. Beyond(q, u)' = left[q][u] - (Len(in[q][u]) + (Len(out[q][u]) + 1))
    BY <2>3 DEF Beyond
  <2>5. left[q][u] - (Len(in[q][u]) + (Len(out[q][u]) + 1)) = (left[q][u] - (Len(in[q][u]) + Len(out[q][u]))) - 1
    BY <1>1, Arithmetic
  <2>6. QED BY <1>2, <2>4, <2>5 DEF Beyond
<1>3. CASE ~(q = p /\ u = t)
  <2>1. out'[q][u] = out[q][u]
    BY <1>3 DEF Finished, QueueType
  <2>2. Beyond(q, u)' = Beyond(q, u)
    BY <2>1 DEF Beyond, Finished
  <2>3. (left[q][u] - (Len(in[q][u]) + Len(out[q][u]))) - 0 = left[q][u] - (Len(in[q][u]) + Len(out[q][u]))
    BY <1>1, Arithmetic
  <2>4. QED BY <1>3, <2>2, <2>3 DEF Beyond
<1>4. QED BY <1>2, <1>3

-----------------------------------------------------------------------------
(* The count as an inductive invariant.                                    *)

\* Threads do not exist before the machine has created them.
BornInCreate ==
    \A p \in Party : mpc[p] = "create" => \A t \in Thread : wpc[p][t] = "unborn"

CountInv ==
    /\ TypeInv
    /\ BornInCreate
    /\ \A p \in Party, t \in Thread : Beyond(p, t) = Held(p, t)

\* The invariant gives the property.
LEMMA CountInvCounts == CountInv => LeftCounts
<1> SUFFICES ASSUME CountInv, NEW p \in Party, NEW t \in Thread
             PROVE  left[p][t] = Len(in[p][t]) + Len(out[p][t]) + Held(p, t)
  BY DEF LeftCounts
<1>1. Len(in[p][t]) \in Nat /\ Len(out[p][t]) \in Nat /\ left[p][t] \in Int
  BY QueueNumbers DEF CountInv, TypeInv
<1>2. Held(p, t) \in Int
  BY DEF Held
<1>3. left[p][t] - (Len(in[p][t]) + Len(out[p][t])) = Held(p, t)
  BY DEF CountInv, Beyond
<1>4. QED BY <1>1, <1>2, <1>3, Arithmetic, Zenon

\* It holds before the machine does anything.
LEMMA InitCount == Init => CountInv
<1> SUFFICES ASSUME Init PROVE CountInv
  OBVIOUS
<1>1. TypeInv
  BY InitType
<1>2. BornInCreate
  BY DEF Init, BornInCreate
<1>3. ASSUME NEW p \in Party, NEW t \in Thread PROVE Beyond(p, t) = Held(p, t)
  <2>1. left[p][t] = 0 /\ in[p][t] = <<>> /\ out[p][t] = <<>> /\ wpc[p][t] = "unborn"
    BY DEF Init
  <2>2. Len(in[p][t]) = 0 /\ Len(out[p][t]) = 0 /\ Held(p, t) = 0
    BY <2>1 DEF Held
  <2>3. left[p][t] = 0
    BY <2>1
  <2>4. QED BY <2>2, <2>3 DEF Beyond
<1>4. QED BY <1>1, <1>2, <1>3 DEF CountInv

\* The machine's steps keep the count.
LEMMA MachineStepCount ==
    ASSUME CountInv, NEW p \in Party, MachineStep(p)
    PROVE  CountInv'
<1> USE DEF CountInv
<1>a. TypeInv'
  BY MachineStepType
<1>b. QueueType /\ IndexOK /\ MachineType /\ WorkerType
  BY DEF TypeInv
<1>c. ASSUME NEW j \in Job PROVE Always(j) \in [Thread -> Job]
  BY AlwaysType
<1>1. ASSUME NEW q \in Party, NEW u \in Thread
      PROVE  Beyond(q, u)' = Beyond(q, u)
  <2>1. CASE CreateThreads(p)
    BY <2>1, <1>b, <1>c, ConstantJobs, ScheduleBeyond DEF CreateThreads
  <2>2. CASE Synchronize(p)
    BY <2>2, <1>b, ResultBeyond DEF Synchronize, IndexOK
  <2>3. CASE RunMainTape(p)
    BY <2>3, <1>b, <1>c, ConstantJobs, ScheduleBeyond DEF RunMainTape
  <2>4. CASE JoinMainTape(p)
    BY <2>4, <1>b, ResultBeyond, ZeroIsThread DEF JoinMainTape
  <2>5. CASE StopThreads(p)
    BY <2>5, <1>b, <1>c, ConstantJobs, ScheduleBeyond DEF StopThreads
  <2>6. CASE SignOut(p)
    BY <2>6, <1>b, <1>c, ConstantJobs, ScheduleBeyond DEF SignOut
  <2>7. CASE CollectUsage(p)
    BY <2>7, <1>b, ResultBeyond DEF CollectUsage, IndexOK
  <2>8. CASE JoinThread(p)
    BY <2>8 DEF JoinThread, queueVars, Beyond
  <2>9. QED
    BY <2>1, <2>2, <2>3, <2>4, <2>5, <2>6, <2>7, <2>8 DEF MachineStep
<1>2. ASSUME NEW q \in Party, NEW u \in Thread
      PROVE  Held(q, u)' = Held(q, u)
  <2>1. CASE CreateThreads(p)
    <3>1. CASE q = p
      <4>1. wpc[q][u] = "unborn" /\ wpc'[q][u] = "start"
        BY <2>1, <3>1, <1>b DEF CreateThreads, BornInCreate, WorkerType
      <4>2. QED BY <4>1 DEF Held
    <3>2. CASE q # p
      BY <2>1, <3>2, <1>b DEF CreateThreads, Held, WorkerType
    <3>3. QED BY <3>1, <3>2
  <2>2. CASE ~CreateThreads(p)
    <3>1. wpc' = wpc
      BY <2>2 DEF MachineStep, Synchronize, RunMainTape, JoinMainTape,
         StopThreads, SignOut, CollectUsage, JoinThread, workerVars
    <3>2. QED BY <3>1 DEF Held
  <2>3. QED BY <2>1, <2>2
<1>3. BornInCreate'
  <2>1. \A q \in Party : mpc'[q] = "create" => q # p /\ mpc[q] = "create"
    BY <1>b DEF MachineStep, CreateThreads, Synchronize, RunMainTape,
       JoinMainTape, StopThreads, SignOut, CollectUsage, JoinThread, MachineType
  <2>2. \A q \in Party \ {p} : wpc'[q] = wpc[q]
    BY <1>b DEF MachineStep, CreateThreads, Synchronize, RunMainTape,
       JoinMainTape, StopThreads, SignOut, CollectUsage, JoinThread, workerVars,
       WorkerType
  <2>3. QED BY <2>1, <2>2 DEF BornInCreate
<1>4. QED BY <1>a, <1>1, <1>2, <1>3

\* The workers' steps keep the count: they move a job from the queue to
\* themselves and from there to the answers.
LEMMA WorkerStepCount ==
    ASSUME CountInv, NEW p \in Party, NEW t \in Thread, WorkerStep(p, t)
    PROVE  CountInv'
<1> USE DEF CountInv
<1>a. TypeInv'
  BY WorkerStepType
<1>b. QueueType /\ WorkerType /\ job[p][t] \in Job
  BY DEF TypeInv, WorkerType
<1>c. BornInCreate'
  <2>1. mpc' = mpc /\ wpc[p][t] # "unborn"
    BY DEF WorkerStep, Start, SetUp, Dispatch, FinishSlice, FinishTape,
           FinalChecks, WindDown, machineVars
  <2>2. \A q \in Party : q # p => wpc'[q] = wpc[q]
    BY <1>b DEF WorkerStep, Start, SetUp, Dispatch, FinishSlice, FinishTape,
           FinalChecks, WindDown, Goto, WorkerType
  <2>3. QED BY <2>1, <2>2 DEF BornInCreate
<1> SUFFICES ASSUME NEW q \in Party, NEW u \in Thread
             PROVE  Beyond(q, u)' = Held(q, u)'
  BY <1>a, <1>c
<1>d. Beyond(q, u) = Held(q, u)
  OBVIOUS
<1>e. ASSUME NEW w, Goto(p, t, w)
      PROVE  wpc'[q][u] = IF q = p /\ u = t THEN w ELSE wpc[q][u]
  BY <1>b, <1>e DEF Goto, WorkerType
<1>1. CASE Start(p, t)
  <2>1. Beyond(q, u)' = Beyond(q, u) + IF q = p /\ u = t THEN 1 ELSE 0
    BY <1>1, <1>b, TakeJobBeyond DEF Start
  <2>2. QED BY <1>1, <1>d, <1>e, <2>1 DEF Start, Held
<1>2. CASE SetUp(p, t)
  <2>1. Beyond(q, u)' = Beyond(q, u) - IF q = p /\ u = t THEN 1 ELSE 0
    BY <1>2, <1>b, ConstantJobs, FinishedBeyond DEF SetUp
  <2>2. QED BY <1>2, <1>d, <1>e, <2>1 DEF SetUp, Held
<1>3. CASE Dispatch(p, t)
  <2>1. Beyond(q, u)' = Beyond(q, u) + IF q = p /\ u = t THEN 1 ELSE 0
    BY <1>3, <1>b, TakeJobBeyond DEF Dispatch
  <2>2. PICK w \in {"checks", "busy"} : Goto(p, t, w)
    BY <1>3 DEF Dispatch
  <2>3. wpc[p][t] = "loop"
    BY <1>3 DEF Dispatch
  <2>4. QED BY <1>d, <1>e, <2>1, <2>2, <2>3 DEF Held
<1>4. CASE FinishSlice(p, t)
  <2>1. Beyond(q, u)' = Beyond(q, u) - IF q = p /\ u = t THEN 1 ELSE 0
    BY <1>4, <1>b, FinishedBeyond DEF FinishSlice
  <2>2. QED BY <1>4, <1>d, <1>e, <2>1 DEF FinishSlice, Held
<1>5. CASE FinishTape(p, t)
  <2>1. Beyond(q, u)' = Beyond(q, u) - IF q = p /\ u = t THEN 1 ELSE 0
    BY <1>5, <1>b, FinishedBeyond DEF FinishTape
  <2>2. QED BY <1>5, <1>d, <1>e, <2>1 DEF FinishTape, Held
<1>6. CASE FinalChecks(p, t)
  <2>1. Beyond(q, u)' = Beyond(q, u)
    BY <1>6 DEF FinalChecks, queueVars, Beyond
  <2>2. QED BY <1>6, <1>d, <1>e, <2>1 DEF FinalChecks, Held
<1>7. CASE WindDown(p, t)
  <2>1. Beyond(q, u)' = Beyond(q, u)
    <3>1. in[q][u] \in Seq(Job) /\ out[q][u] \in Seq(Job)
      BY <1>b DEF QueueType
    <3>a. Len(in[q][u]) \in Nat /\ Len(out[q][u]) \in Nat /\ left[q][u] \in Int
      BY <1>b, QueueNumbers
    <3>2. CASE q = p /\ u = t
      <4>1. /\ in'[q][u] = Tail(in[q][u])
            /\ out'[q][u] = Append(out[q][u], Usage)
            /\ left' = left
        BY <1>7, <1>b, <3>2 DEF WindDown, QueueType
      <4>2. /\ Len(Tail(in[q][u])) = Len(in[q][u]) - 1
            /\ Len(Append(out[q][u], Usage)) = Len(out[q][u]) + 1
        BY <1>7, <3>1, <3>2, ConstantJobs DEF WindDown
      <4>3. /\ Len(in'[q][u]) = Len(in[q][u]) - 1
            /\ Len(out'[q][u]) = Len(out[q][u]) + 1
            /\ left' = left
        BY <4>1, <4>2
      <4>4. Beyond(q, u)' = left[q][u] - ((Len(in[q][u]) - 1) + (Len(out[q][u]) + 1))
        BY <4>3 DEF Beyond
      <4>5. left[q][u] - ((Len(in[q][u]) - 1) + (Len(out[q][u]) + 1)) = left[q][u] - (Len(in[q][u]) + Len(out[q][u]))
        BY <3>a, Arithmetic
      <4>6. QED BY <4>4, <4>5 DEF Beyond
    <3>3. CASE ~(q = p /\ u = t)
      BY <1>7, <1>b, <3>3 DEF WindDown, QueueType, Beyond
    <3>4. QED BY <3>2, <3>3
  <2>2. QED BY <1>7, <1>d, <1>e, <2>1 DEF WindDown, Held
<1>8. QED
  BY <1>1, <1>2, <1>3, <1>4, <1>5, <1>6, <1>7 DEF WorkerStep

\* The main tape's steps keep the count, nested distributes included.
LEMMA TapeStepCount ==
    ASSUME CountInv, NEW p \in Party, TapeStep(p)
    PROVE  CountInv'
<1> USE DEF CountInv
<1>a. TypeInv'
  BY TapeStepType
<1>b. QueueType /\ TapeType
  BY DEF TypeInv
<1>c. mpc' = mpc /\ wpc' = wpc
  BY DEF TapeStep, NextOp, EndOfTape, Distribute, OwnSlice, WrapUp,
         FillBuffers, RunTape, JoinTape, machineVars, workerVars
<1>d. BornInCreate'
  BY <1>c DEF BornInCreate
<1>1. ASSUME NEW q \in Party, NEW u \in Thread
      PROVE  Beyond(q, u)' = Beyond(q, u)
  <2>1. CASE UNCHANGED queueVars
    BY <2>1 DEF queueVars, Beyond
  <2>2. CASE \E ts : \E j \in [Thread -> Job] : Schedule(p, ts, j)
    BY <2>2, <1>b, ScheduleBeyond
  <2>3. CASE \E t \in Thread : Result(p, t)
    BY <2>3, <1>b, ResultBeyond
  <2>4. Distribute(p) => \E ts : \E j \in [Thread -> Job] : Schedule(p, ts, j)
    BY <1>b, DistributeJobs
  <2>5. ASSUME NEW t \in Helper, RunTape(p, t)
        PROVE  \E ts : \E j \in [Thread -> Job] : Schedule(p, ts, j)
    <3>1. Always(TapeJob(ip[p])) \in [Thread -> Job]
      BY <1>b, ConstantJobs, AlwaysType DEF TapeType
    <3>2. QED BY <3>1, <2>5 DEF RunTape
  <2>6. ASSUME NEW t \in Helper, WrapUp(p, t) \/ JoinTape(p, t)
        PROVE  \E u1 \in Thread : Result(p, u1)
    BY <2>6 DEF WrapUp, JoinTape, Helper
  <2>7. ASSUME NextOp(p) \/ EndOfTape(p) \/ OwnSlice(p)
        PROVE  UNCHANGED queueVars
    BY <2>7 DEF NextOp, EndOfTape, OwnSlice
  <2>8. ASSUME NEW t \in Helper, FillBuffers(p, t) PROVE UNCHANGED queueVars
    BY <2>8 DEF FillBuffers
  <2>9. QED
    BY <2>1, <2>2, <2>3, <2>4, <2>5, <2>6, <2>7, <2>8 DEF TapeStep
<1>2. QED BY <1>a, <1>c, <1>d, <1>1 DEF Held

\* In every state left is the number of jobs of the thread that are queued,
\* in the worker's hands or answered and not collected, for any number of
\* threads and parties and any program, nested distributes included
\* (ThreadQueue.cpp:9-40): so left = 0, the test of find_available
\* (ThreadQueues.cpp:17-27), finds no thread that has anything to do.
THEOREM LeftIsExact == Spec => []LeftCounts
<1>1. CountInv /\ [Next]_vars => CountInv'
  <2> SUFFICES ASSUME CountInv, [Next]_vars PROVE CountInv'
    OBVIOUS
  <2>1. CASE UNCHANGED vars
    <3>1. TypeInv'
      BY <2>1, NextType DEF CountInv
    <3>2. QED
      BY <2>1, <3>1 DEF vars, machineVars, queueVars, workerVars, CountInv,
         BornInCreate, Beyond, Held
  <2>2. CASE Next
    BY <2>1, <2>2, MachineStepCount, TapeStepCount, WorkerStepCount DEF Next
  <2>3. QED BY <2>1, <2>2
<1>2. QED BY InitCount, <1>1, CountInvCounts, PTL DEF Spec

-----------------------------------------------------------------------------
(* Where every thread is and what it carries: the invariant behind          *)
(* JobsInOrder and WorkOnce. It holds until a distribute nests another      *)
(* while threads are available (Nests), after which answers do get mixed    *)
(* up.                                                                      *)

Standing(p, t, w, i, o) == wpc[p][t] = w /\ in[p][t] = i /\ out[p][t] = o

Unborn(p, t) == Standing(p, t, "unborn", <<>>, <<>>)
Idle(p, t) == Standing(p, t, "loop", <<>>, <<>>)
Gone(p, t) == Standing(p, t, "exited", <<>>, <<>>)

\* On its way from creation to the loop.
Arriving(p, t) ==
    \/ Standing(p, t, "start", <<NoJob>>, <<>>)
    \/ Standing(p, t, "setup", <<>>, <<>>)
    \/ Standing(p, t, "loop", <<>>, <<NoJob>>)

\* Job j has been scheduled and its answer not been collected.
Flight(p, t, j) ==
    \/ Standing(p, t, "loop", <<j>>, <<>>)
    \/ Standing(p, t, "busy", <<>>, <<>>) /\ job[p][t] = j
    \/ Standing(p, t, "loop", <<>>, <<j>>)

\* Told to stop; then also allowed to wind down.
Stopping(p, t) ==
    \/ Standing(p, t, "loop", <<StopJob>>, <<>>)
    \/ Standing(p, t, "checks", <<>>, <<>>)
    \/ Standing(p, t, "last", <<>>, <<>>)
Leaving(p, t) ==
    \/ Standing(p, t, "loop", <<StopJob, NoJob>>, <<>>)
    \/ Standing(p, t, "checks", <<NoJob>>, <<>>)
    \/ Standing(p, t, "last", <<NoJob>>, <<>>)
    \/ Standing(p, t, "exited", <<>>, <<Usage>>)

\* The threads without a tape before operation k, and the slices a distribute
\* in operation k makes for them and for the caller.
Free(k) == Helper \ Outstanding(k)
Rank(S, t) == Cardinality({u \in S : u < t})
GivenSlice(k, t) ==
    SliceOf(k, prog[k].n, Cardinality(Free(k)), Rank(Free(k), t))
OwnSliceOf(k) ==
    SliceJob(k, Cardinality(Free(k)) * NPerThread(prog[k].n, Cardinality(Free(k))),
             prog[k].n)

\* What the compiler lets a program do.
TapesAt(k) ==
    /\ prog[k].op = "tapes" /\ ~prog[k].nest
    /\ prog[k].ts # {} /\ prog[k].ts \subseteq Free(k)
JoinAt(k) ==
    /\ prog[k].op = "join" /\ ~prog[k].nest /\ prog[k].n = 0
    /\ \E t \in Outstanding(k) : prog[k].ts = {t}
DistAt(k) ==
    /\ prog[k].op = "dist" /\ prog[k].n # 0 /\ prog[k].ts = {}
    /\ prog[k].nest => Free(k) = {}
ProgOK ==
    /\ \A k \in 1 .. Len(prog) : TapesAt(k) \/ JoinAt(k) \/ DistAt(k)
    /\ over => Outstanding(Len(prog) + 1) = {}

\* What is left of operation k after a distribute, when the buffers of the
\* threads S are still to be filled; of a plain distribute, nothing.
Filling(k, S) ==
    IF prog[k].op = "dist" THEN <<>>
    ELSE <<Step("fill", S, prog[k].n), Step("sched", prog[k].ts, 0)>>

\* The list of an operation: as it is while a thread is joined, tapes are
\* started, buffers filled, a distribute is at its start, in the caller's slice,
\* or collecting; or in the caller's slice with another distribute in it.
Joining(p, k) == JoinAt(k) /\ todo[p] = <<Step("join", prog[k].ts, 0)>>
Starting(p, k, S) ==
    TapesAt(k) /\ S # {} /\ S \subseteq prog[k].ts /\ todo[p] = <<Step("sched", S, 0)>>
Part(k, S) ==
    \/ TapesAt(k) /\ S # {} /\ S \subseteq prog[k].ts
    \/ DistAt(k) /\ S = {}
Transferring(p, k, S) == Part(k, S) /\ TapesAt(k) /\ todo[p] = Filling(k, S)
Beginning(p, k, S) ==
    /\ Part(k, S) /\ prog[k].n # 0
    /\ todo[p] = <<Step("dist", {}, prog[k].n)>> \o Filling(k, S)
Working(p, k, S) ==
    /\ Part(k, S) /\ prog[k].n # 0 /\ available[p] = Free(k)
    /\ todo[p] = <<OwnStep(OwnSliceOf(k))>> \o Filling(k, S)
Collecting(p, k, S, W) ==
    /\ Part(k, S) /\ prog[k].n # 0 /\ W # {} /\ W \subseteq Free(k)
    /\ todo[p] = <<Step("wrap", W, 0)>> \o Filling(k, S)
Nesting(p, k, s) ==
    /\ DistAt(k) /\ prog[k].nest /\ available[p] = {}
    /\ s \in {Step("inner", {}, prog[k].n), OwnStep(SliceJob(0, 0, prog[k].n))}
    /\ todo[p] = <<s>> \o <<OwnStep(OwnSliceOf(k))>>

Listed(p, k) ==
    \/ Joining(p, k)
    \/ \E S \in SUBSET Helper :
          \/ Starting(p, k, S) \/ Transferring(p, k, S)
          \/ Beginning(p, k, S) \/ Working(p, k, S)
          \/ \E W \in SUBSET Helper : Collecting(p, k, S, W)
    \/ \E s \in Todo : Nesting(p, k, s)

ListOK(p) ==
    /\ ip[p] <= Len(prog)
    /\ todo[p] # <<>> => ip[p] \in 1 .. Len(prog) /\ Listed(p, ip[p])

\* Who has a slice, and who has a tape.
Sliced(p) ==
    IF todo[p] = <<>> THEN {}
    ELSE IF Head(todo[p]).do = "own" THEN available[p]
    ELSE IF Head(todo[p]).do = "wrap" THEN Head(todo[p]).ts
    ELSE {}
Taped(p) ==
    IF todo[p] = <<>> THEN Outstanding(ip[p] + 1)
    ELSE IF Head(todo[p]).do = "sched"
         THEN Outstanding(ip[p]) \cup (prog[ip[p]].ts \ Head(todo[p]).ts)
    ELSE Outstanding(ip[p])

\* The main tape has not begun; it has been run.
Fresh(p) == ip[p] = 0 /\ todo[p] = <<>> /\ need[p] = 0 /\ mains[p] = 0
Ended(p) == over /\ ip[p] = Len(prog) /\ todo[p] = <<>> /\ mains[p] = 1

MainThread(p) ==
    \/ Standing(p, 0, "loop", <<TapeJob(0)>>, <<>>) /\ Fresh(p)
    \/ /\ Standing(p, 0, "busy", <<>>, <<>>)
       /\ job[p][0] = TapeJob(0) /\ mains[p] = 1
    \/ Standing(p, 0, "loop", <<>>, <<TapeJob(0)>>) /\ Ended(p)
HelperThread(p, t) ==
    /\ t \in Sliced(p) => Flight(p, t, GivenSlice(ip[p], t))
    /\ t \in Taped(p) => \E i \in Nat \ {0} : Flight(p, t, TapeJob(i))
    /\ t \notin Sliced(p) \cup Taped(p) => Idle(p, t)

Winding(p) == mpc[p] \in {"wind", "windresult", "windjoin"}

\* What a thread is at, by the place of the machine.
Shape(p, t) ==
    /\ mpc[p] = "create" => Unborn(p, t)
    /\ mpc[p] = "sync" /\ t < mi[p] => Idle(p, t)
    /\ mpc[p] = "sync" /\ t >= mi[p] => Arriving(p, t)
    /\ mpc[p] \in {"run", "stop"} => Idle(p, t)
    /\ mpc[p] = "joinmain" /\ t = 0 => MainThread(p)
    /\ mpc[p] = "joinmain" /\ t # 0 => HelperThread(p, t)
    /\ Winding(p) /\ t < mi[p] => Gone(p, t)
    /\ Winding(p) /\ t > mi[p] => Stopping(p, t)
    /\ mpc[p] = "wind" /\ t = mi[p] => Stopping(p, t)
    /\ mpc[p] = "windresult" /\ t = mi[p] => Leaving(p, t)
    /\ mpc[p] = "windjoin" /\ t = mi[p] => Gone(p, t)
    /\ mpc[p] = "done" => Gone(p, t)

\* How far the main tape is, and which queues are freed.
Control(p) ==
    /\ mpc[p] \in {"create", "sync", "run"} => Fresh(p)
    /\ mpc[p] \in {"stop", "wind", "windresult", "windjoin", "done"} => Ended(p)
    /\ mpc[p] \in {"create", "sync", "run", "joinmain", "stop"} => deleted[p] = {}
    /\ Winding(p) => deleted[p] = {t \in Thread : t < mi[p]}

InOrder(p) == ListOK(p) /\ Control(p) /\ \A t \in Thread : Shape(p, t)

OrderInv == CountInv /\ ProgOK /\ \A p \in Party : InOrder(p)

-----------------------------------------------------------------------------
(* The queue operations, thread by thread.                                 *)

\* Scheduling appends a job to the queues of some threads.
LEMMA ScheduleAt ==
    ASSUME QueueType, NEW p \in Party, NEW ts, NEW j \in [Thread -> Job],
           Schedule(p, ts, j), NEW q \in Party, NEW u \in Thread
    PROVE  /\ out'[q][u] = out[q][u]
           /\ q = p /\ u \in ts => in'[q][u] = Append(in[q][u], j[u])
           /\ ~(q = p /\ u \in ts) => in'[q][u] = in[q][u]
  BY DEF Schedule, QueueType

\* Collecting takes the first answer of one thread.
LEMMA ResultAt ==
    ASSUME QueueType, NEW p \in Party, NEW t \in Thread, Result(p, t),
           NEW q \in Party, NEW u \in Thread
    PROVE  /\ out[p][t] # <<>>
           /\ in'[q][u] = in[q][u]
           /\ q = p /\ u = t => out'[q][u] = Tail(out[q][u])
           /\ ~(q = p /\ u = t) => out'[q][u] = out[q][u]
  BY DEF Result, QueueType

\* A worker takes its first job.
LEMMA TakeJobAt ==
    ASSUME QueueType, NEW p \in Party, NEW t \in Thread, TakeJob(p, t),
           NEW q \in Party, NEW u \in Thread
    PROVE  /\ in[p][t] # <<>>
           /\ out'[q][u] = out[q][u]
           /\ q = p /\ u = t => in'[q][u] = Tail(in[q][u])
           /\ ~(q = p /\ u = t) => in'[q][u] = in[q][u]
  BY DEF TakeJob, QueueType

\* A worker appends an answer.
LEMMA FinishedAt ==
    ASSUME QueueType, NEW p \in Party, NEW t \in Thread, NEW j \in Job,
           Finished(p, t, j), NEW q \in Party, NEW u \in Thread
    PROVE  /\ in'[q][u] = in[q][u]
           /\ q = p /\ u = t => out'[q][u] = Append(out[q][u], j)
           /\ ~(q = p /\ u = t) => out'[q][u] = out[q][u]
  BY DEF Finished, QueueType

\* A worker goes to its next place.
LEMMA GotoAt ==
    ASSUME WorkerType, NEW p \in Party, NEW t \in Thread, NEW w,
           Goto(p, t, w), NEW q \in Party, NEW u \in Thread
    PROVE  /\ q = p /\ u = t => wpc'[q][u] = w
           /\ ~(q = p /\ u = t) => wpc'[q][u] = wpc[q][u]
  BY DEF Goto, WorkerType

\* Short queues.
LEMMA ShortQueues ==
    ASSUME NEW S, NEW x \in S, NEW y \in S
    PROVE  /\ Append(<<>>, x) = <<x>>
           /\ Append(<<x>>, y) = <<x, y>>
           /\ <<x>> \o <<y>> = <<x, y>>
           /\ Head(<<x>>) = x /\ Tail(<<x>>) = <<>> /\ <<x>> # <<>>
           /\ Head(<<x, y>>) = x /\ Tail(<<x, y>>) = <<y>> /\ <<x, y>> # <<>>
<1>1. /\ Append(<<x>>, y) \in Seq(S) /\ Len(Append(<<x>>, y)) = 2
      /\ <<x>> \o <<y>> \in Seq(S) /\ Len(<<x>> \o <<y>>) = 2
      /\ <<x, y>> \in Seq(S) /\ Len(<<x, y>>) = 2
  OBVIOUS
<1>2. /\ Append(<<x>>, y)[1] = x /\ Append(<<x>>, y)[2] = y
      /\ (<<x>> \o <<y>>)[1] = x /\ (<<x>> \o <<y>>)[2] = y
  OBVIOUS
<1>3. \A i \in 1 .. 2 : /\ Append(<<x>>, y)[i] = <<x, y>>[i]
                         /\ (<<x>> \o <<y>>)[i] = <<x, y>>[i]
  BY <1>2
<1>4. Append(<<x>>, y) = <<x, y>>
  BY <1>1, <1>3, SeqEqual
<1>5. <<x>> \o <<y>> = <<x, y>>
  BY <1>1, <1>3, SeqEqual
<1>6. Append(<<>>, x) = <<x>>
  OBVIOUS
<1>7. Head(<<x>>) = x /\ Tail(<<x>>) = <<>> /\ <<x>> # <<>>
  OBVIOUS
<1>8. Head(<<x, y>>) = x /\ Tail(<<x, y>>) = <<y>> /\ <<x, y>> # <<>>
  OBVIOUS
<1>9. QED BY <1>4, <1>5, <1>6, <1>7, <1>8

\* A thread whose queues, place and job stay is where it was.
Unmoved(p, t) ==
    /\ wpc'[p][t] = wpc[p][t] /\ job'[p][t] = job[p][t]
    /\ in'[p][t] = in[p][t] /\ out'[p][t] = out[p][t]

\* It is then in the same case.
LEMMA UnmovedStays ==
    ASSUME NEW p \in Party, NEW t \in Thread, Unmoved(p, t)
    PROVE  /\ Unborn(p, t)' = Unborn(p, t)
           /\ Idle(p, t)' = Idle(p, t)
           /\ Gone(p, t)' = Gone(p, t)
           /\ Arriving(p, t)' = Arriving(p, t)
           /\ \A j : Flight(p, t, j)' = Flight(p, t, j)
           /\ Stopping(p, t)' = Stopping(p, t)
           /\ Leaving(p, t)' = Leaving(p, t)
           /\ \A w, i, o : Standing(p, t, w, i, o)' = Standing(p, t, w, i, o)
<1>1. \A w, i, o : Standing(p, t, w, i, o)' = Standing(p, t, w, i, o)
  BY DEF Unmoved, Standing
<1>2. job'[p][t] = job[p][t]
  BY DEF Unmoved
<1>3. Unborn(p, t)' = Unborn(p, t) /\ Idle(p, t)' = Idle(p, t) /\ Gone(p, t)' = Gone(p, t)
  BY DEF Unmoved, Standing, Unborn, Idle, Gone
<1>4. Arriving(p, t)' = Arriving(p, t)
  BY DEF Unmoved, Standing, Arriving
<1>5. \A j : Flight(p, t, j)' = Flight(p, t, j)
  BY DEF Unmoved, Standing, Flight
<1>6. Stopping(p, t)' = Stopping(p, t)
  BY DEF Unmoved, Standing, Stopping
<1>7. Leaving(p, t)' = Leaving(p, t)
  BY DEF Unmoved, Standing, Leaving
<1>8. QED BY <1>1, <1>3, <1>4, <1>5, <1>6, <1>7

-----------------------------------------------------------------------------
(* What a worker's step does to the case its thread is in.                 *)

\* Only the thread itself moves.
LEMMA WorkerAlone ==
    ASSUME TypeInv, NEW p \in Party, NEW t \in Thread, WorkerStep(p, t),
           NEW q \in Party, NEW u \in Thread, ~(q = p /\ u = t)
    PROVE  Unmoved(q, u)
<1>1. QueueType /\ WorkerType /\ job[p][t] \in Job
  BY DEF TypeInv, WorkerType
<1>2. CASE Start(p, t)
  BY <1>1, <1>2, TakeJobAt, GotoAt DEF Start, Unmoved
<1>3. CASE SetUp(p, t)
  BY <1>1, <1>3, FinishedAt, GotoAt, ConstantJobs DEF SetUp, Unmoved
<1>4. CASE Dispatch(p, t)
  <2>1. TakeJob(p, t) /\ (\E w : Goto(p, t, w)) /\ job'[q][u] = job[q][u]
    BY <1>1, <1>4 DEF Dispatch, WorkerType
  <2>2. QED BY <1>1, <2>1, TakeJobAt, GotoAt DEF Unmoved
<1>5. CASE FinishSlice(p, t)
  BY <1>1, <1>5, FinishedAt, GotoAt DEF FinishSlice, Unmoved
<1>6. CASE FinishTape(p, t)
  BY <1>1, <1>6, FinishedAt, GotoAt DEF FinishTape, Unmoved
<1>7. CASE FinalChecks(p, t)
  BY <1>1, <1>7, GotoAt DEF FinalChecks, queueVars, Unmoved
<1>8. CASE WindDown(p, t)
  <2>1. /\ in'[q][u] = in[q][u] /\ out'[q][u] = out[q][u] /\ job' = job
        /\ Goto(p, t, "exited")
    BY <1>1, <1>8 DEF WindDown, QueueType
  <2>2. QED BY <1>1, <2>1, GotoAt DEF Unmoved
<1>9. QED
  BY <1>2, <1>3, <1>4, <1>5, <1>6, <1>7, <1>8 DEF WorkerStep

\* What each step does to the thread.
LEMMA WorkerMoves ==
    ASSUME TypeInv, NEW p \in Party, NEW t \in Thread, WorkerStep(p, t)
    PROVE  \/ /\ Start(p, t) /\ wpc[p][t] = "start" /\ in[p][t] # <<>>
              /\ wpc'[p][t] = "setup" /\ in'[p][t] = Tail(in[p][t])
              /\ out'[p][t] = out[p][t]
           \/ /\ SetUp(p, t) /\ wpc[p][t] = "setup"
              /\ wpc'[p][t] = "loop" /\ in'[p][t] = in[p][t]
              /\ out'[p][t] = Append(out[p][t], NoJob)
           \/ /\ Dispatch(p, t) /\ wpc[p][t] = "loop" /\ in[p][t] # <<>>
              /\ job'[p][t] = Head(in[p][t]) /\ in'[p][t] = Tail(in[p][t])
              /\ wpc'[p][t] = (IF Head(in[p][t]).prog = -1 THEN "checks" ELSE "busy")
              /\ out'[p][t] = out[p][t]
           \/ /\ FinishSlice(p, t) \/ FinishTape(p, t)
              /\ wpc[p][t] = "busy" /\ wpc'[p][t] = "loop"
              /\ in'[p][t] = in[p][t]
              /\ out'[p][t] = Append(out[p][t], job[p][t])
           \/ /\ FinalChecks(p, t) /\ wpc[p][t] = "checks"
              /\ wpc'[p][t] = "last"
              /\ in'[p][t] = in[p][t] /\ out'[p][t] = out[p][t]
           \/ /\ WindDown(p, t) /\ wpc[p][t] = "last" /\ in[p][t] # <<>>
              /\ wpc'[p][t] = "exited" /\ in'[p][t] = Tail(in[p][t])
              /\ out'[p][t] = Append(out[p][t], Usage)
<1>1. QueueType /\ WorkerType /\ job[p][t] \in Job
  BY DEF TypeInv, WorkerType
<1>2. CASE Start(p, t)
  BY <1>1, <1>2, TakeJobAt, GotoAt DEF Start
<1>3. CASE SetUp(p, t)
  BY <1>1, <1>3, FinishedAt, GotoAt, ConstantJobs DEF SetUp
<1>4. CASE Dispatch(p, t)
  <2>1. /\ TakeJob(p, t) /\ job'[p][t] = Head(in[p][t]) /\ wpc[p][t] = "loop"
        /\ Goto(p, t, IF Head(in[p][t]).prog = -1 THEN "checks" ELSE "busy")
    BY <1>1, <1>4 DEF Dispatch, WorkerType
  <2>2. wpc'[p][t] = (IF Head(in[p][t]).prog = -1 THEN "checks" ELSE "busy")
    BY <1>1, <2>1, GotoAt
  <2>3. in[p][t] # <<>> /\ in'[p][t] = Tail(in[p][t]) /\ out'[p][t] = out[p][t]
    BY <1>1, <2>1, TakeJobAt
  <2>4. QED BY <1>4, <2>1, <2>2, <2>3
<1>5. CASE FinishSlice(p, t)
  BY <1>1, <1>5, FinishedAt, GotoAt DEF FinishSlice
<1>6. CASE FinishTape(p, t)
  BY <1>1, <1>6, FinishedAt, GotoAt DEF FinishTape
<1>7. CASE FinalChecks(p, t)
  BY <1>1, <1>7, GotoAt DEF FinalChecks, queueVars
<1>8. CASE WindDown(p, t)
  <2>1. /\ in'[p][t] = Tail(in[p][t]) /\ out'[p][t] = Append(out[p][t], Usage)
        /\ Goto(p, t, "exited") /\ wpc[p][t] = "last" /\ in[p][t] # <<>>
    BY <1>1, <1>8 DEF WindDown, QueueType
  <2>2. QED BY <1>1, <1>8, <2>1, GotoAt
<1>9. QED
  BY <1>2, <1>3, <1>4, <1>5, <1>6, <1>7, <1>8 DEF WorkerStep

\* A worker's step leaves its thread in the case it is in; there is none for a
\* thread that is not born, waits for a job, or has gone.
LEMMA WorkerShape ==
    ASSUME TypeInv, NEW p \in Party, NEW t \in Thread, WorkerStep(p, t)
    PROVE  /\ ~Unborn(p, t) /\ ~Idle(p, t) /\ ~Gone(p, t)
           /\ Arriving(p, t) => Arriving(p, t)'
           /\ \A j \in Job : j.prog # -1 /\ Flight(p, t, j) => Flight(p, t, j)'
           /\ Stopping(p, t) => Stopping(p, t)'
           /\ Leaving(p, t) => Leaving(p, t)'
<1> USE DEF Standing
<1>a. \A j \in Job : /\ Append(<<>>, j) = <<j>> /\ Head(<<j>>) = j
                     /\ Tail(<<j>>) = <<>> /\ <<j>> # <<>>
  BY ShortQueues
<1>b. /\ Append(<<>>, NoJob) = <<NoJob>> /\ Tail(<<NoJob>>) = <<>>
      /\ Append(<<>>, Usage) = <<Usage>>
      /\ Head(<<StopJob>>) = StopJob /\ Tail(<<StopJob>>) = <<>>
      /\ Head(<<StopJob, NoJob>>) = StopJob
      /\ Tail(<<StopJob, NoJob>>) = <<NoJob>>
  BY ConstantJobs, ShortQueues
<1>c. StopJob.prog = -1
  BY DEF StopJob
<1>1. ~Unborn(p, t) /\ ~Idle(p, t) /\ ~Gone(p, t)
  BY WorkerMoves DEF Unborn, Idle, Gone
<1>2. ASSUME Arriving(p, t) PROVE Arriving(p, t)'
  <2>1. CASE Standing(p, t, "start", <<NoJob>>, <<>>)
    BY <2>1, <1>b, WorkerMoves DEF Arriving
  <2>2. CASE Standing(p, t, "setup", <<>>, <<>>)
    BY <2>2, <1>b, WorkerMoves DEF Arriving
  <2>3. CASE Standing(p, t, "loop", <<>>, <<NoJob>>)
    BY <2>3, WorkerMoves
  <2>4. QED BY <1>2, <2>1, <2>2, <2>3 DEF Arriving
<1>3. ASSUME NEW j \in Job, j.prog # -1, Flight(p, t, j) PROVE Flight(p, t, j)'
  <2>a. /\ Append(<<>>, j) = <<j>> /\ Head(<<j>>) = j
        /\ Tail(<<j>>) = <<>>
    BY <1>a
  <2>1. CASE Standing(p, t, "loop", <<j>>, <<>>)
    <3>1. /\ job'[p][t] = Head(in[p][t]) /\ in'[p][t] = Tail(in[p][t])
          /\ wpc'[p][t] = (IF Head(in[p][t]).prog = -1 THEN "checks" ELSE "busy")
          /\ out'[p][t] = out[p][t]
      BY <2>1, WorkerMoves
    <3>2. Head(in[p][t]) = j /\ Tail(in[p][t]) = <<>>
      BY <2>1, <2>a
    <3>3. wpc'[p][t] = "busy" /\ in'[p][t] = <<>> /\ out'[p][t] = <<>> /\ job'[p][t] = j
      BY <2>1, <3>1, <3>2, <1>3
    <3>4. QED BY <3>3 DEF Flight
  <2>2. CASE Standing(p, t, "busy", <<>>, <<>>) /\ job[p][t] = j
    BY <2>2, <2>a, WorkerMoves DEF Flight
  <2>3. CASE Standing(p, t, "loop", <<>>, <<j>>)
    BY <2>3, WorkerMoves
  <2>4. QED BY <1>3, <2>1, <2>2, <2>3 DEF Flight
<1>4. ASSUME Stopping(p, t) PROVE Stopping(p, t)'
  <2>1. CASE Standing(p, t, "loop", <<StopJob>>, <<>>)
    <3>1. /\ job'[p][t] = Head(in[p][t]) /\ in'[p][t] = Tail(in[p][t])
          /\ wpc'[p][t] = (IF Head(in[p][t]).prog = -1 THEN "checks" ELSE "busy")
          /\ out'[p][t] = out[p][t]
      BY <2>1, WorkerMoves
    <3>2. Head(in[p][t]) = StopJob /\ Tail(in[p][t]) = <<>>
      BY <2>1, <1>b
    <3>3. wpc'[p][t] = "checks" /\ in'[p][t] = <<>> /\ out'[p][t] = <<>> /\ job'[p][t] = StopJob
      BY <2>1, <3>1, <3>2, <1>c
    <3>4. QED BY <3>3 DEF Stopping
  <2>2. CASE Standing(p, t, "checks", <<>>, <<>>)
    BY <2>2, WorkerMoves DEF Stopping
  <2>3. CASE Standing(p, t, "last", <<>>, <<>>)
    BY <2>3, WorkerMoves
  <2>4. QED BY <1>4, <2>1, <2>2, <2>3 DEF Stopping
<1>5. ASSUME Leaving(p, t) PROVE Leaving(p, t)'
  <2>1. CASE Standing(p, t, "loop", <<StopJob, NoJob>>, <<>>)
    <3>1. /\ job'[p][t] = Head(in[p][t]) /\ in'[p][t] = Tail(in[p][t])
          /\ wpc'[p][t] = (IF Head(in[p][t]).prog = -1 THEN "checks" ELSE "busy")
          /\ out'[p][t] = out[p][t]
      BY <2>1, WorkerMoves
    <3>2. Head(in[p][t]) = StopJob /\ Tail(in[p][t]) = <<NoJob>>
      BY <2>1, <1>b
    <3>3. wpc'[p][t] = "checks" /\ in'[p][t] = <<NoJob>> /\ out'[p][t] = <<>> /\ job'[p][t] = StopJob
      BY <2>1, <3>1, <3>2, <1>c
    <3>4. QED BY <3>3 DEF Leaving
  <2>2. CASE Standing(p, t, "checks", <<NoJob>>, <<>>)
    BY <2>2, WorkerMoves DEF Leaving
  <2>3. CASE Standing(p, t, "last", <<NoJob>>, <<>>)
    BY <2>3, <1>b, WorkerMoves DEF Leaving
  <2>4. CASE Standing(p, t, "exited", <<>>, <<Usage>>)
    BY <2>4, WorkerMoves
  <2>5. QED BY <1>5, <2>1, <2>2, <2>3, <2>4 DEF Leaving
<1>6. QED BY <1>1, <1>2, <1>3, <1>4, <1>5

-----------------------------------------------------------------------------
(* The workers' steps keep the order.                                      *)

\* Slices and tapes are jobs, and none of them is the main tape or a stop.
LEMMA GivenJobs ==
    ASSUME TapeType, NEW k \in 1 .. Len(prog), NEW t \in Thread
    PROVE  /\ GivenSlice(k, t) \in Job
           /\ GivenSlice(k, t).kind = "slice" /\ GivenSlice(k, t).prog = k
<1>a. prog[k] \in Op /\ k \in Nat
  BY ElementOfSeq DEF TapeType
<1>1. prog[k].n \in Nat /\ k \in Nat
  BY <1>a DEF Op
<1>2. Free(k) \in SUBSET Thread
  BY DEF Free, Helper
<1>3. Cardinality(Free(k)) \in Nat
  BY <1>2, CountType
<1>4. Rank(Free(k), t) \in Nat
  BY <1>2, CountType DEF Rank
<1>5. GivenSlice(k, t) \in Job
  BY <1>1, <1>3, <1>4, SliceType DEF GivenSlice
<1>6. QED BY <1>5 DEF GivenSlice, SliceOf, SliceJob

\* A tape's job is a job for a program.
LEMMA TapeJobs ==
    ASSUME NEW i \in Nat
    PROVE  /\ TapeJob(i) \in Job /\ TapeJob(i).kind = "tape"
           /\ TapeJob(i).prog = i /\ TapeJob(i).prog # -1
  BY ConstantJobs DEF TapeJob

\* The list of operations and its course depend on these variables only.
LEMMA TapeStays ==
    ASSUME UNCHANGED <<prog, over, ip, todo, available>>
    PROVE  /\ ProgOK' = ProgOK
           /\ \A q \in Party : /\ ListOK(q)' = ListOK(q)
                               /\ Sliced(q)' = Sliced(q) /\ Taped(q)' = Taped(q)
           /\ \A k, t : GivenSlice(k, t)' = GivenSlice(k, t)
<1>1. \A k : Outstanding(k)' = Outstanding(k)
  BY DEF Outstanding
<1>2. \A k : Free(k)' = Free(k)
  BY <1>1 DEF Free
<1>3. \A k : TapesAt(k)' = TapesAt(k) /\ JoinAt(k)' = JoinAt(k) /\ DistAt(k)' = DistAt(k)
  BY <1>1, <1>2 DEF TapesAt, JoinAt, DistAt
<1>4. ProgOK' = ProgOK
  BY <1>1, <1>3 DEF ProgOK
<1>5. \A k, t : GivenSlice(k, t)' = GivenSlice(k, t)
  BY <1>2 DEF GivenSlice
<1>6. \A k : OwnSliceOf(k)' = OwnSliceOf(k)
  BY <1>2 DEF OwnSliceOf
<1>7. \A k, S : Filling(k, S)' = Filling(k, S) /\ Part(k, S)' = Part(k, S)
  BY <1>3 DEF Filling, Part
<1>8. ASSUME NEW q \in Party, NEW k PROVE Listed(q, k)' = Listed(q, k)
  <2>1. Joining(q, k)' = Joining(q, k)
    BY <1>3 DEF Joining
  <2>2. \A S : Starting(q, k, S)' = Starting(q, k, S)
    BY <1>3 DEF Starting
  <2>3. \A S : Transferring(q, k, S)' = Transferring(q, k, S)
    BY <1>3, <1>7 DEF Transferring
  <2>4. \A S : Beginning(q, k, S)' = Beginning(q, k, S)
    BY <1>7 DEF Beginning
  <2>5. \A S : Working(q, k, S)' = Working(q, k, S)
    BY <1>2, <1>6, <1>7 DEF Working
  <2>6. \A S, W : Collecting(q, k, S, W)' = Collecting(q, k, S, W)
    BY <1>2, <1>7 DEF Collecting
  <2>7. \A s : Nesting(q, k, s)' = Nesting(q, k, s)
    BY <1>3, <1>6 DEF Nesting
  <2>8. QED BY <2>1, <2>2, <2>3, <2>4, <2>5, <2>6, <2>7 DEF Listed
<1>9. \A q \in Party : ListOK(q)' = ListOK(q)
  BY <1>8 DEF ListOK
<1>10. \A q \in Party : Sliced(q)' = Sliced(q) /\ Taped(q)' = Taped(q)
  BY <1>1 DEF Sliced, Taped
<1>11. QED BY <1>4, <1>5, <1>9, <1>10

\* The main tape is begun when its job is taken, and only then.
LEMMA WorkerMains ==
    ASSUME TypeInv, NEW p \in Party, NEW t \in Thread, WorkerStep(p, t),
           NEW q \in Party
    PROVE  /\ mains'[q] = mains[q] \/ mains'[q] = mains[q] + 1
           /\ mains'[q] # mains[q] =>
                 /\ q = p /\ wpc[p][t] = "loop" /\ in[p][t] # <<>>
                 /\ Head(in[p][t]).kind \in {"none", "tape"}
                 /\ Head(in[p][t]).prog = 0
           /\ /\ q = p /\ wpc[p][t] = "loop" /\ in[p][t] # <<>>
              /\ Head(in[p][t]).kind \in {"none", "tape"}
              /\ Head(in[p][t]).prog = 0
              => mains'[q] = mains[q] + 1
<1>1. mains \in [Party -> Nat]
  BY DEF TypeInv, HistoryType
<1>2. CASE Dispatch(p, t)
  <2>1. PICK j : /\ j = Head(in[p][t])
                 /\ mains' = [mains EXCEPT ![p] =
                                IF j.kind \in {"none", "tape"} /\ j.prog = 0
                                THEN mains[p] + 1 ELSE mains[p]]
    BY <1>2 DEF Dispatch
  <2>2. mains'[q] = IF q = p THEN IF j.kind \in {"none", "tape"} /\ j.prog = 0
                                  THEN mains[p] + 1 ELSE mains[p]
                    ELSE mains[q]
    BY <1>1, <2>1
  <2>3. wpc[p][t] = "loop" /\ in[p][t] # <<>>
    BY <1>2 DEF Dispatch, TakeJob
  <2>4. CASE q = p /\ j.kind \in {"none", "tape"} /\ j.prog = 0
    BY <2>1, <2>2, <2>3, <2>4
  <2>5. CASE ~(q = p /\ j.kind \in {"none", "tape"} /\ j.prog = 0)
    <3>1. mains'[q] = mains[q]
      BY <2>2, <2>5
    <3>2. QED BY <2>1, <2>5, <3>1
  <2>6. QED BY <2>4, <2>5
<1>3. CASE ~Dispatch(p, t)
  <2>1. mains' = mains
    BY <1>3 DEF WorkerStep, Start, SetUp, FinishSlice, FinishTape, FinalChecks,
       WindDown, historyVars
  <2>2. ~(wpc[p][t] = "loop")
    BY <1>3, WorkerMoves
  <2>3. QED BY <2>1, <2>2
<1>4. QED BY <1>2, <1>3

\* What follows for the places the machine and the tape are at.
LEMMA WorkerOrder ==
    ASSUME OrderInv, NEW p \in Party, NEW t \in Thread, WorkerStep(p, t)
    PROVE  ProgOK' /\ \A q \in Party : InOrder(q)'
<1>a. TypeInv /\ QueueType /\ WorkerType /\ TapeType /\ MachineType
  BY DEF OrderInv, CountInv, TypeInv
<1>b. UNCHANGED <<prog, over, ip, todo, available>> /\ UNCHANGED <<mpc, mi, deleted, need>>
  BY DEF WorkerStep, Start, SetUp, Dispatch, FinishSlice, FinishTape,
         FinalChecks, WindDown, historyVars, tapeVars, machineVars
<1>c. /\ ProgOK' = ProgOK
      /\ \A q \in Party : /\ ListOK(q)' = ListOK(q)
                          /\ Sliced(q)' = Sliced(q) /\ Taped(q)' = Taped(q)
      /\ \A k, u : GivenSlice(k, u)' = GivenSlice(k, u)
  BY <1>b, TapeStays
<1>d. ProgOK /\ \A q \in Party : ListOK(q) /\ Control(q) /\ \A u \in Thread : Shape(q, u)
  BY DEF OrderInv, InOrder
<1> SUFFICES ASSUME NEW q \in Party PROVE InOrder(q)'
  BY <1>c, <1>d
<1>1. ASSUME NEW j \in Job, Flight(p, t, j), mains'[p] # mains[p]
      PROVE  Standing(p, t, "loop", <<j>>, <<>>) /\ j.kind # "slice" /\ j.prog = 0
  <2>1. wpc[p][t] = "loop" /\ in[p][t] # <<>> /\ Head(in[p][t]).prog = 0
        /\ Head(in[p][t]).kind # "slice"
    BY <1>1, <1>a, WorkerMains
  <2>2. Standing(p, t, "loop", <<j>>, <<>>)
    BY <1>1, <2>1 DEF Flight, Standing
  <2>3. Head(in[p][t]) = j
    BY <2>2, ShortQueues DEF Standing
  <2>4. QED BY <2>1, <2>2, <2>3
<1>2. mains'[q] # mains[q] => q = p /\ mpc[p] = "joinmain" /\ t = 0 /\ Fresh(p)
  <2> SUFFICES ASSUME mains'[q] # mains[q]
               PROVE  q = p /\ mpc[p] = "joinmain" /\ t = 0 /\ Fresh(p)
    OBVIOUS
  <2>1. /\ q = p /\ wpc[p][t] = "loop" /\ in[p][t] # <<>>
        /\ Head(in[p][t]).kind # "stop"
    BY <1>a, WorkerMains
  <2>2. Head(<<StopJob>>).kind = "stop" /\ Head(<<StopJob, NoJob>>).kind = "stop"
    BY ConstantJobs, ShortQueues DEF StopJob
  <2>3. ~Unborn(p, t) /\ ~Idle(p, t) /\ ~Arriving(p, t) /\ ~Stopping(p, t)
        /\ ~Leaving(p, t) /\ ~Gone(p, t)
    BY <2>1, <2>2 DEF Unborn, Idle, Arriving, Stopping, Leaving, Gone, Standing
  <2>4. mpc[p] \in MachineControl /\ t \in Int /\ mi[p] \in Int
    BY <1>a, NThreadsAssumption DEF MachineType, Thread
  <2>5. mpc[p] = "joinmain"
    <3> HIDE DEF Unborn, Idle, Arriving, Stopping, Leaving, Gone
    <3>1. Shape(p, t)
      BY <1>d
    <3>2. QED BY <2>3, <2>4, <3>1 DEF Shape, Winding, MachineControl
  <2>6. CASE t = 0
    <3>1. MainThread(p)
      BY <1>d, <2>5, <2>6 DEF Shape
    <3>2. QED BY <2>1, <2>5, <2>6, <3>1 DEF MainThread, Standing
  <2>7. CASE t # 0
    <3>1. HelperThread(p, t)
      BY <1>d, <2>5, <2>7 DEF Shape
    <3>2. CASE t \in Sliced(p)
      <4>1. ip[p] \in 1 .. Len(prog)
        BY <1>d, <3>2 DEF ListOK, Sliced
      <4>2. Flight(p, t, GivenSlice(ip[p], t))
        BY <3>1, <3>2 DEF HelperThread
      <4>3. QED BY <1>1, <1>a, <2>1, <4>1, <4>2, GivenJobs
    <3>3. CASE t \in Taped(p)
      <4>1. PICK i \in Nat \ {0} : Flight(p, t, TapeJob(i))
        BY <3>1, <3>3 DEF HelperThread
      <4>2. QED BY <1>1, <2>1, <4>1, TapeJobs
    <3>4. QED BY <2>3, <3>1, <3>2, <3>3 DEF HelperThread
  <2>8. QED BY <2>1, <2>5, <2>6, <2>7
<1>3. Control(q)'
  <2>1. CASE mains'[q] = mains[q]
    BY <1>b, <1>d, <2>1 DEF Control, Fresh, Ended, Winding
  <2>2. CASE mains'[q] # mains[q]
    BY <1>2, <1>b, <1>d, <2>2 DEF Control, Winding
  <2>3. QED BY <2>1, <2>2
<1>4. ASSUME NEW u \in Thread PROVE Shape(q, u)'
  <2>a. Shape(q, u)
    BY <1>d
  <2>b. 0 \in Thread
    BY ZeroIsThread
  <2>1. CASE ~(q = p /\ u = t)
    <3>1. Unmoved(q, u)
      BY <1>a, <2>1, WorkerAlone
    <3>2. MainThread(q) /\ u = 0 => MainThread(q)'
      <4> SUFFICES ASSUME MainThread(q), u = 0 PROVE MainThread(q)'
        OBVIOUS
      <4>1. mains'[q] = mains[q]
        BY <1>2, <2>1
      <4>2. Fresh(q)' = Fresh(q) /\ Ended(q)' = Ended(q)
        BY <1>b, <4>1 DEF Fresh, Ended
      <4>3. QED BY <3>1, <4>1, <4>2 DEF MainThread, Unmoved, Standing
    <3>3. HelperThread(q, u) => HelperThread(q, u)'
      <4>1. \A j : Flight(q, u, j)' = Flight(q, u, j)
        BY <3>1, UnmovedStays
      <4>2. Idle(q, u)' = Idle(q, u) /\ ip' = ip
        BY <1>b, <3>1, UnmovedStays
      <4>3. QED BY <1>c, <4>1, <4>2 DEF HelperThread
    <3>4. QED BY <1>b, <2>a, <3>1, <3>2, <3>3, UnmovedStays DEF Shape, Winding
  <2>2. CASE q = p /\ u = t
    <3>a. /\ ~Unborn(p, t) /\ ~Idle(p, t) /\ ~Gone(p, t)
          /\ Arriving(p, t) => Arriving(p, t)'
          /\ Stopping(p, t) => Stopping(p, t)'
          /\ Leaving(p, t) => Leaving(p, t)'
      BY <1>a, WorkerShape
    <3>b. \A j \in Job : j.prog # -1 /\ Flight(p, t, j) => Flight(p, t, j)'
      BY <1>a, WorkerShape
    <3>1. MainThread(p) /\ t = 0 => MainThread(p)'
      <4> SUFFICES ASSUME MainThread(p), t = 0 PROVE MainThread(p)'
        OBVIOUS
      <4>a. TapeJob(0) \in Job /\ TapeJob(0).prog = 0 /\ TapeJob(0).kind = "tape"
        BY TapeJobs
      <4>b. /\ Append(<<>>, TapeJob(0)) = <<TapeJob(0)>>
            /\ Head(<<TapeJob(0)>>) = TapeJob(0) /\ Tail(<<TapeJob(0)>>) = <<>>
            /\ <<TapeJob(0)>> # <<>>
        BY <4>a, ShortQueues
      <4>1. CASE Standing(p, 0, "loop", <<TapeJob(0)>>, <<>>) /\ Fresh(p)
        <5>1. /\ job'[p][t] = Head(in[p][t]) /\ in'[p][t] = Tail(in[p][t])
              /\ wpc'[p][t] = (IF Head(in[p][t]).prog = -1 THEN "checks" ELSE "busy")
              /\ out'[p][t] = out[p][t]
          BY <1>a, <4>1, WorkerMoves DEF Standing
        <5>2. Head(in[p][t]) = TapeJob(0)
          BY <4>1, <4>b DEF Standing
        <5>3. wpc'[p][t] = "busy" /\ in'[p][t] = <<>> /\ out'[p][t] = <<>>
              /\ job'[p][t] = TapeJob(0)
          <6>1. Head(in[p][t]).prog = 0 /\ in[p][t] = <<TapeJob(0)>>
                /\ out[p][t] = <<>>
            BY <4>1, <4>a, <5>2 DEF Standing
          <6>2. wpc'[p][t] = "busy" /\ job'[p][t] = TapeJob(0)
            BY <5>1, <5>2, <6>1
          <6>3. in'[p][t] = <<>> /\ out'[p][t] = <<>>
            BY <4>b, <5>1, <6>1
          <6>4. QED BY <6>2, <6>3
        <5>4. mains'[p] = mains[p] + 1
          BY <1>a, <4>1, <4>a, <4>b, <5>2, WorkerMains DEF Standing
        <5>5. mains'[p] = 1
          BY <4>1, <5>4 DEF Fresh
        <5>6. QED BY <5>3, <5>5 DEF MainThread, Standing
      <4>2. CASE Standing(p, 0, "busy", <<>>, <<>>) /\ job[p][0] = TapeJob(0)
                 /\ mains[p] = 1
        <5>1. /\ FinishSlice(p, t) \/ FinishTape(p, t)
              /\ wpc'[p][t] = "loop" /\ in'[p][t] = in[p][t]
              /\ out'[p][t] = Append(out[p][t], job[p][t])
          BY <1>a, <4>2, WorkerMoves DEF Standing
        <5>2. FinishTape(p, 0)
          BY <4>2, <4>a, <5>1 DEF FinishSlice
        <5>3. over /\ ip[p] = Len(prog) /\ todo[p] = <<>>
          BY <4>2, <5>2 DEF FinishTape, RunsMain, Standing
        <5>4. mains'[p] = 1
          BY <1>2, <2>2, <4>2 DEF Fresh
        <5>5. Ended(p)'
          BY <1>b, <5>3, <5>4 DEF Ended
        <5>6. QED BY <4>2, <4>b, <5>1, <5>5 DEF MainThread, Standing
      <4>3. CASE Standing(p, 0, "loop", <<>>, <<TapeJob(0)>>) /\ Ended(p)
        BY <1>a, <4>3, WorkerMoves DEF Standing
      <4>4. QED BY <4>1, <4>2, <4>3 DEF MainThread
    <3>2. HelperThread(p, t) => HelperThread(p, t)'
      <4> SUFFICES ASSUME HelperThread(p, t) PROVE HelperThread(p, t)'
        OBVIOUS
      <4>1. CASE t \in Sliced(p) /\ t \notin Taped(p)
        <5>1. ip[p] \in 1 .. Len(prog)
          BY <1>d, <4>1 DEF ListOK, Sliced
        <5>2. /\ GivenSlice(ip[p], t) \in Job
              /\ GivenSlice(ip[p], t).prog # -1
          BY <1>a, <5>1, GivenJobs
        <5>3. Flight(p, t, GivenSlice(ip[p], t))'
          <6>1. Flight(p, t, GivenSlice(ip[p], t))
            BY <4>1 DEF HelperThread
          <6>2. PICK j \in Job : j = GivenSlice(ip[p], t) /\ j.prog # -1
            BY <5>2
          <6>3. Flight(p, t, j)'
            BY <3>b, <6>1, <6>2
          <6>4. GivenSlice(ip[p], t)' = j
            BY <1>b, <1>c, <6>2
          <6>5. QED BY <6>3, <6>4 DEF Flight, Standing
        <5>4. QED BY <1>c, <4>1, <5>3 DEF HelperThread
      <4>2. CASE t \in Taped(p) /\ t \notin Sliced(p)
        <5>1. PICK i \in Nat \ {0} : Flight(p, t, TapeJob(i))
          BY <4>2 DEF HelperThread
        <5>2. Flight(p, t, TapeJob(i))'
          BY <3>b, <5>1, TapeJobs
        <5>3. QED BY <1>c, <4>2, <5>2 DEF HelperThread
      <4>3. CASE t \in Taped(p) /\ t \in Sliced(p)
        <5>1. PICK i \in Nat \ {0} : Flight(p, t, TapeJob(i))
          BY <4>3 DEF HelperThread
        <5>2. Flight(p, t, GivenSlice(ip[p], t))
          BY <4>3 DEF HelperThread
        <5>3. GivenSlice(ip[p], t).kind = "slice" /\ GivenSlice(ip[p], t) \in Job
          <6>1. ip[p] \in 1 .. Len(prog)
            BY <1>d, <4>3 DEF ListOK, Sliced
          <6>2. QED BY <1>a, <6>1, GivenJobs
        <5>4. TapeJob(i) = GivenSlice(ip[p], t)
          BY <5>1, <5>2, <5>3, TapeJobs, ShortQueues DEF Flight, Standing
        <5>5. QED BY <5>1, <5>3, <5>4, TapeJobs
      <4>4. CASE t \notin Sliced(p) \cup Taped(p)
        BY <3>a, <4>4 DEF HelperThread
      <4>5. QED BY <4>1, <4>2, <4>3, <4>4
    <3>3. QED BY <1>b, <2>2, <2>a, <3>a, <3>1, <3>2 DEF Shape, Winding
  <2>3. QED BY <2>1, <2>2
<1>5. QED BY <1>c, <1>d, <1>3, <1>4 DEF InOrder

-----------------------------------------------------------------------------
(* The machine's steps keep the order.                                     *)

\* A machine's step moves threads of its own party only.
LEMMA MachineAlone ==
    ASSUME TypeInv, NEW p \in Party, MachineStep(p), NEW q \in Party, q # p
    PROVE  /\ \A u \in Thread : Unmoved(q, u)
           /\ mpc'[q] = mpc[q] /\ mi'[q] = mi[q] /\ deleted'[q] = deleted[q]
<1>a. QueueType /\ WorkerType /\ MachineType /\ IndexOK /\ job' = job
  BY DEF TypeInv, MachineStep, CreateThreads, Synchronize, RunMainTape,
     JoinMainTape, StopThreads, SignOut, CollectUsage, JoinThread, workerVars
<1>b. \A j \in Job : Always(j) \in [Thread -> Job]
  BY AlwaysType
<1>1. mpc'[q] = mpc[q] /\ mi'[q] = mi[q] /\ deleted'[q] = deleted[q]
  BY <1>a DEF MachineType, MachineStep, CreateThreads, Synchronize, RunMainTape,
     JoinMainTape, StopThreads, SignOut, CollectUsage, JoinThread
<1>2. wpc'[q] = wpc[q]
  BY <1>a DEF WorkerType, MachineStep, CreateThreads, Synchronize, RunMainTape,
     JoinMainTape, StopThreads, SignOut, CollectUsage, JoinThread, workerVars
<1>3. ASSUME NEW u \in Thread PROVE in'[q][u] = in[q][u] /\ out'[q][u] = out[q][u]
  <2>1. CASE \E ts : \E j \in Job : Schedule(p, ts, Always(j))
    BY <1>a, <1>b, <2>1, ScheduleAt
  <2>2. CASE \E t \in Thread : Result(p, t)
    BY <1>a, <2>2, ResultAt
  <2>3. CASE UNCHANGED queueVars
    BY <2>3 DEF queueVars
  <2>4. CreateThreads(p) \/ RunMainTape(p) \/ StopThreads(p) \/ SignOut(p)
        => \E ts : \E j \in Job : Schedule(p, ts, Always(j))
    BY ConstantJobs DEF CreateThreads, RunMainTape, StopThreads, SignOut
  <2>5. Synchronize(p) \/ JoinMainTape(p) \/ CollectUsage(p)
        => \E t \in Thread : Result(p, t)
    BY <1>a, ZeroIsThread DEF Synchronize, JoinMainTape, CollectUsage, IndexOK
  <2>6. JoinThread(p) => UNCHANGED queueVars
    BY DEF JoinThread
  <2>7. QED BY <2>1, <2>2, <2>3, <2>4, <2>5, <2>6 DEF MachineStep
<1>4. QED BY <1>a, <1>1, <1>2, <1>3 DEF Unmoved

\* A party whose threads do not move and whose tape stays is in order still.
LEMMA StaysInOrder ==
    ASSUME UNCHANGED <<prog, over, ip, todo, available>>, NEW q \in Party,
           \A u \in Thread : Unmoved(q, u),
           mpc'[q] = mpc[q], mi'[q] = mi[q], deleted'[q] = deleted[q],
           need'[q] = need[q], mains'[q] = mains[q], InOrder(q)
    PROVE  InOrder(q)'
<1>c. /\ ListOK(q)' = ListOK(q)
      /\ Sliced(q)' = Sliced(q) /\ Taped(q)' = Taped(q)
      /\ \A k, u : GivenSlice(k, u)' = GivenSlice(k, u)
  BY TapeStays
<1>d. ListOK(q) /\ Control(q) /\ \A u \in Thread : Shape(q, u)
  BY DEF InOrder
<1>e. Fresh(q)' = Fresh(q) /\ Ended(q)' = Ended(q)
  BY DEF Fresh, Ended
<1>1. Control(q)'
  BY <1>d, <1>e DEF Control, Winding
<1>2. ASSUME NEW u \in Thread PROVE Shape(q, u)'
  <2>a. Shape(q, u)
    BY <1>d
  <2>1. Unmoved(q, u)
    OBVIOUS
  <2>2. MainThread(q) /\ u = 0 => MainThread(q)'
    BY <1>e, <2>1 DEF MainThread, Unmoved, Standing
  <2>3. HelperThread(q, u) => HelperThread(q, u)'
    <3>1. /\ \A j : Flight(q, u, j)' = Flight(q, u, j)
          /\ Idle(q, u)' = Idle(q, u) /\ ip' = ip
      BY <2>1, UnmovedStays
    <3>2. QED BY <1>c, <3>1 DEF HelperThread
  <2>4. QED BY <2>a, <2>1, <2>2, <2>3, UnmovedStays DEF Shape, Winding
<1>3. QED BY <1>c, <1>d, <1>1, <1>2 DEF InOrder

\* The machine's steps, by the place it is at.
LEMMA MachineOrder ==
    ASSUME OrderInv, NEW p \in Party, MachineStep(p)
    PROVE  ProgOK' /\ \A q \in Party : InOrder(q)'
<1>a. TypeInv /\ QueueType /\ WorkerType /\ TapeType /\ MachineType /\ IndexOK
  BY DEF OrderInv, CountInv, TypeInv
<1>b. /\ UNCHANGED <<prog, over, ip, todo, available>>
      /\ UNCHANGED <<need, mains, job>>
  BY DEF MachineStep, CreateThreads, Synchronize, RunMainTape, JoinMainTape,
         StopThreads, SignOut, CollectUsage, JoinThread, workerVars,
         historyVars, tapeVars
<1>c. /\ ProgOK' = ProgOK
      /\ ListOK(p)' = ListOK(p)
      /\ Sliced(p)' = Sliced(p) /\ Taped(p)' = Taped(p)
      /\ \A k, u : GivenSlice(k, u)' = GivenSlice(k, u)
  BY <1>b, TapeStays
<1>d. ProgOK /\ \A q \in Party : InOrder(q)
  BY DEF OrderInv
<1>e. ListOK(p) /\ Control(p) /\ \A u \in Thread : Shape(p, u)
  BY <1>d DEF InOrder
<1>f. Fresh(p)' = Fresh(p) /\ Ended(p)' = Ended(p)
  BY <1>b DEF Fresh, Ended
<1>g. ASSUME NEW q \in Party, q # p PROVE InOrder(q)'
  BY <1>a, <1>b, <1>d, <1>g, MachineAlone, StaysInOrder
<1>h. \A j \in Job : Always(j) \in [Thread -> Job] /\ \A u \in Thread : Always(j)[u] = j
  BY AlwaysType DEF Always
<1>i. /\ Append(<<>>, NoJob) = <<NoJob>> /\ Append(<<>>, StopJob) = <<StopJob>>
      /\ Append(<<>>, TapeJob(0)) = <<TapeJob(0)>>
      /\ Append(<<StopJob>>, NoJob) = <<StopJob, NoJob>>
      /\ Tail(<<NoJob>>) = <<>> /\ Tail(<<TapeJob(0)>>) = <<>>
      /\ Tail(<<Usage>>) = <<>>
  BY ConstantJobs, ShortQueues
<1>j. NThreads \in Nat /\ 0 \in Thread /\ \A u \in Thread : u \in Nat
  BY NThreadsAssumption DEF Thread
<1> SUFFICES Control(p)' /\ \A u \in Thread : Shape(p, u)'
  BY <1>c, <1>d, <1>e, <1>g DEF InOrder
<1> USE DEF Standing
<1>1. CASE CreateThreads(p)
  <2>1. mpc[p] = "create" /\ mpc'[p] = "sync" /\ mi'[p] = 0 /\ deleted' = deleted
    BY <1>1, <1>a DEF CreateThreads, MachineType
  <2>2. ASSUME NEW u \in Thread PROVE Arriving(p, u)'
    <3>1. Unborn(p, u)
      BY <1>e, <2>1 DEF Shape
    <3>2. wpc'[p][u] = "start"
      BY <1>1, <1>a DEF CreateThreads, WorkerType
    <3>3. in'[p][u] = Append(in[p][u], NoJob) /\ out'[p][u] = out[p][u]
      BY <1>1, <1>a, <1>h, ConstantJobs, ScheduleAt DEF CreateThreads
    <3>4. QED BY <1>i, <3>1, <3>2, <3>3 DEF Unborn, Arriving
  <2>3. QED BY <1>e, <1>f, <1>j, <2>1, <2>2 DEF Shape, Control, Winding
<1>2. CASE Synchronize(p)
  <2>1. /\ mpc[p] = "sync" /\ mi'[p] = mi[p] + 1 /\ deleted' = deleted
        /\ mi[p] \in Thread /\ wpc' = wpc
        /\ mpc'[p] = (IF mi[p] + 1 = NThreads THEN "run" ELSE "sync")
    BY <1>2, <1>a DEF Synchronize, MachineType, IndexOK, workerVars
  <2>2. ASSUME NEW u \in Thread, u = mi[p] PROVE Idle(p, u)'
    <3>1. Arriving(p, u)
      BY <1>e, <1>j, <2>1, <2>2 DEF Shape
    <3>2. /\ out[p][u] # <<>> /\ out'[p][u] = Tail(out[p][u])
          /\ in'[p][u] = in[p][u]
      BY <1>2, <1>a, <2>1, <2>2, ResultAt DEF Synchronize
    <3>3. wpc[p][u] = "loop" /\ in[p][u] = <<>> /\ out[p][u] = <<NoJob>>
      BY <3>1, <3>2 DEF Arriving
    <3>4. QED BY <1>i, <2>1, <3>2, <3>3 DEF Idle
  <2>3. ASSUME NEW u \in Thread, u # mi[p] PROVE Unmoved(p, u)
    <3>1. out'[p][u] = out[p][u] /\ in'[p][u] = in[p][u]
      BY <1>2, <1>a, <2>1, <2>3, ResultAt DEF Synchronize
    <3>2. QED BY <1>b, <2>1, <3>1 DEF Unmoved
  <2>4. ASSUME NEW u \in Thread
        PROVE  /\ u < mi[p] + 1 => Idle(p, u)'
               /\ u >= mi[p] + 1 => Arriving(p, u)'
    <3>1. Shape(p, u) /\ mi[p] \in Nat /\ u \in Nat
      BY <1>e, <1>j, <2>1
    <3>2. CASE u = mi[p]
      BY <2>2, <3>1, <3>2
    <3>3. CASE u < mi[p]
      BY <2>1, <2>3, <3>1, <3>3, UnmovedStays DEF Shape
    <3>4. CASE u > mi[p]
      BY <2>1, <2>3, <3>1, <3>4, UnmovedStays DEF Shape
    <3>5. QED BY <3>1, <3>2, <3>3, <3>4
  <2>5. Control(p)'
    BY <1>e, <1>f, <2>1 DEF Control, Winding
  <2>6. ASSUME NEW u \in Thread PROVE Shape(p, u)'
    <3>1. mi[p] + 1 = NThreads => u < mi[p] + 1
      BY <1>j DEF Thread
    <3>2. QED BY <2>1, <2>4, <3>1 DEF Shape, Winding
  <2>7. QED BY <2>5, <2>6
<1>3. CASE RunMainTape(p)
  <2>1. /\ mpc[p] = "run" /\ mpc'[p] = "joinmain" /\ deleted' = deleted /\ wpc' = wpc
    BY <1>3, <1>a DEF RunMainTape, MachineType, workerVars
  <2>2. Fresh(p) /\ \A u \in Thread : Idle(p, u)
    BY <1>e, <2>1 DEF Control, Shape
  <2>3. Standing(p, 0, "loop", <<TapeJob(0)>>, <<>>)'
    <3>1. in'[p][0] = Append(in[p][0], TapeJob(0)) /\ out'[p][0] = out[p][0]
      BY <1>3, <1>a, <1>h, <1>j, ConstantJobs, ScheduleAt DEF RunMainTape
    <3>2. QED BY <1>i, <1>j, <2>1, <2>2, <3>1 DEF Idle
  <2>4. ASSUME NEW u \in Thread, u # 0 PROVE Idle(p, u)'
    <3>1. in'[p][u] = in[p][u] /\ out'[p][u] = out[p][u]
      BY <1>3, <1>a, <1>h, <2>4, ConstantJobs, ScheduleAt DEF RunMainTape
    <3>2. QED BY <2>1, <2>2, <3>1 DEF Idle
  <2>5. Sliced(p) = {} /\ Taped(p) = {}
    BY <2>2 DEF Fresh, Sliced, Taped, Outstanding
  <2>6. Control(p)'
    BY <1>e, <1>f, <2>1 DEF Control, Winding
  <2>7. MainThread(p)'
    BY <1>f, <2>2, <2>3 DEF MainThread
  <2>8. \A u \in Thread : u # 0 => HelperThread(p, u)'
    BY <1>c, <2>4, <2>5 DEF HelperThread
  <2>9. QED BY <2>1, <2>6, <2>7, <2>8 DEF Shape, Winding
<1>4. CASE JoinMainTape(p)
  <2>1. /\ mpc[p] = "joinmain" /\ mpc'[p] = "stop" /\ deleted' = deleted /\ wpc' = wpc
    BY <1>4, <1>a DEF JoinMainTape, MachineType, workerVars
  <2>2. /\ out[p][0] # <<>> /\ out'[p][0] = Tail(out[p][0])
        /\ in'[p][0] = in[p][0]
        /\ \A u \in Thread : u # 0 => out'[p][u] = out[p][u] /\ in'[p][u] = in[p][u]
    BY <1>4, <1>a, <1>j, ResultAt DEF JoinMainTape
  <2>3. MainThread(p) /\ \A u \in Thread : u # 0 => HelperThread(p, u)
    BY <1>e, <1>j, <2>1 DEF Shape
  <2>4. Standing(p, 0, "loop", <<>>, <<TapeJob(0)>>) /\ Ended(p)
    BY <2>2, <2>3 DEF MainThread
  <2>5. Idle(p, 0)'
    BY <1>i, <2>1, <2>2, <2>4 DEF Idle
  <2>6. Sliced(p) = {} /\ Taped(p) = {}
    BY <1>d, <2>4 DEF Ended, Sliced, Taped, ProgOK
  <2>7. ASSUME NEW u \in Thread, u # 0 PROVE Idle(p, u)'
    BY <2>1, <2>2, <2>3, <2>6, <2>7 DEF HelperThread, Idle
  <2>8. \A u \in Thread : Idle(p, u)'
    BY <2>5, <2>7
  <2>9. Control(p)'
    BY <1>e, <1>f, <2>1, <2>4 DEF Control, Winding
  <2>10. QED BY <2>1, <2>8, <2>9 DEF Shape, Winding
<1>5. CASE StopThreads(p)
  <2>1. /\ mpc[p] = "stop" /\ mpc'[p] = "wind" /\ mi'[p] = 0 /\ deleted' = deleted
        /\ wpc' = wpc
    BY <1>5, <1>a DEF StopThreads, MachineType, workerVars
  <2>2. ASSUME NEW u \in Thread PROVE Stopping(p, u)'
    <3>1. in'[p][u] = Append(in[p][u], StopJob) /\ out'[p][u] = out[p][u]
      BY <1>5, <1>a, <1>h, ConstantJobs, ScheduleAt DEF StopThreads
    <3>2. Idle(p, u)
      BY <1>e, <2>1 DEF Shape
    <3>3. QED BY <1>i, <2>1, <3>1, <3>2 DEF Idle, Stopping
  <2>3. deleted'[p] = {u \in Thread : u < mi'[p]}
    BY <1>e, <1>j, <2>1 DEF Control
  <2>4. Control(p)'
    BY <1>e, <1>f, <2>1, <2>3 DEF Control, Winding
  <2>5. QED BY <1>j, <2>1, <2>2, <2>4 DEF Shape, Winding
<1>6. CASE SignOut(p)
  <2>1. /\ mpc[p] = "wind" /\ mpc'[p] = "windresult" /\ UNCHANGED <<mi, deleted, wpc>>
        /\ mi[p] \in Thread
    BY <1>6, <1>a DEF SignOut, MachineType, workerVars, IndexOK
  <2>2. ASSUME NEW u \in Thread, u = mi[p] PROVE Leaving(p, u)'
    <3>1. in'[p][u] = Append(in[p][u], NoJob) /\ out'[p][u] = out[p][u]
      BY <1>6, <1>a, <1>h, <2>1, <2>2, ConstantJobs, ScheduleAt DEF SignOut
    <3>2. Stopping(p, u)
      BY <1>e, <2>1, <2>2 DEF Shape
    <3>3. QED BY <1>i, <2>1, <3>1, <3>2 DEF Stopping, Leaving
  <2>3. ASSUME NEW u \in Thread, u # mi[p] PROVE Unmoved(p, u)
    <3>1. out'[p][u] = out[p][u] /\ in'[p][u] = in[p][u]
      BY <1>6, <1>a, <1>h, <2>1, <2>3, ConstantJobs, ScheduleAt DEF SignOut
    <3>2. QED BY <1>b, <2>1, <3>1 DEF Unmoved
  <2>4. Control(p)'
    BY <1>e, <1>f, <2>1 DEF Control, Winding
  <2>5. ASSUME NEW u \in Thread PROVE Shape(p, u)'
    <3>1. Shape(p, u) /\ mi[p] \in Nat /\ u \in Nat
      BY <1>e, <1>j, <2>1
    <3>2. CASE u = mi[p]
      BY <2>1, <2>2, <3>1, <3>2 DEF Shape, Winding
    <3>3. CASE u # mi[p]
      BY <2>1, <2>3, <3>1, <3>3, UnmovedStays DEF Shape, Winding
    <3>4. QED BY <3>2, <3>3
  <2>6. QED BY <2>4, <2>5
<1>7. CASE CollectUsage(p)
  <2>1. /\ mpc[p] = "windresult" /\ mpc'[p] = "windjoin" /\ UNCHANGED <<mi, deleted, wpc>>
        /\ mi[p] \in Thread
    BY <1>7, <1>a DEF CollectUsage, MachineType, workerVars, IndexOK
  <2>2. ASSUME NEW u \in Thread, u = mi[p] PROVE Gone(p, u)'
    <3>1. /\ out[p][u] # <<>> /\ out'[p][u] = Tail(out[p][u])
          /\ in'[p][u] = in[p][u]
      BY <1>7, <1>a, <2>1, <2>2, ResultAt DEF CollectUsage
    <3>2. Leaving(p, u)
      BY <1>e, <2>1, <2>2 DEF Shape
    <3>3. wpc[p][u] = "exited" /\ in[p][u] = <<>> /\ out[p][u] = <<Usage>>
      BY <3>1, <3>2 DEF Leaving
    <3>4. QED BY <1>i, <2>1, <3>1, <3>3 DEF Gone
  <2>3. ASSUME NEW u \in Thread, u # mi[p] PROVE Unmoved(p, u)
    <3>1. out'[p][u] = out[p][u] /\ in'[p][u] = in[p][u]
      BY <1>7, <1>a, <2>1, <2>3, ResultAt DEF CollectUsage
    <3>2. QED BY <1>b, <2>1, <3>1 DEF Unmoved
  <2>4. Control(p)'
    BY <1>e, <1>f, <2>1 DEF Control, Winding
  <2>5. ASSUME NEW u \in Thread PROVE Shape(p, u)'
    <3>1. Shape(p, u) /\ mi[p] \in Nat /\ u \in Nat
      BY <1>e, <1>j, <2>1
    <3>2. CASE u = mi[p]
      BY <2>1, <2>2, <3>1, <3>2 DEF Shape, Winding
    <3>3. CASE u # mi[p]
      BY <2>1, <2>3, <3>1, <3>3, UnmovedStays DEF Shape, Winding
    <3>4. QED BY <3>2, <3>3
  <2>6. QED BY <2>4, <2>5
<1>8. CASE JoinThread(p)
  <2>1. /\ mpc[p] = "windjoin" /\ mi'[p] = mi[p] + 1 /\ mi[p] \in Thread
        /\ deleted'[p] = deleted[p] \cup {mi[p]}
        /\ mpc'[p] = (IF mi[p] + 1 = NThreads THEN "done" ELSE "wind")
    BY <1>8, <1>a DEF JoinThread, MachineType, IndexOK
  <2>2. \A u \in Thread : Unmoved(p, u)
    BY <1>8 DEF JoinThread, workerVars, queueVars, Unmoved
  <2>3. mi[p] \in Nat /\ mi[p] < NThreads
    BY <1>j, <2>1 DEF Thread
  <2>4. {u \in Thread : u < mi[p]} \cup {mi[p]} = {u \in Thread : u < mi[p] + 1}
    BY <1>j, <2>1
  <2>5. Control(p)'
    BY <1>e, <1>f, <2>1, <2>4 DEF Control, Winding
  <2>6. ASSUME NEW u \in Thread PROVE Shape(p, u)'
    <3>1. Shape(p, u) /\ u \in Nat
      BY <1>e, <1>j
    <3>2. mi[p] + 1 = NThreads => u < mi[p] + 1
      BY <1>j DEF Thread
    <3>3. /\ Gone(p, u)' = Gone(p, u) /\ Stopping(p, u)' = Stopping(p, u)
      BY <2>2, UnmovedStays
    <3>4. u < mi[p] + 1 => Gone(p, u)'
      BY <2>1, <2>3, <3>1, <3>3 DEF Shape, Winding
    <3>5. u >= mi[p] + 1 => Stopping(p, u)'
      BY <2>1, <2>3, <3>1, <3>3 DEF Shape, Winding
    <3>6. QED BY <2>1, <2>3, <3>1, <3>2, <3>4, <3>5 DEF Shape, Winding
  <2>7. QED BY <2>5, <2>6
<1>9. QED
  BY <1>1, <1>2, <1>3, <1>4, <1>5, <1>6, <1>7, <1>8 DEF MachineStep

-----------------------------------------------------------------------------
(* The list of steps of an operation.                                      *)

\* The program only grows, and not once it has ended.
Grows ==
    /\ prog' = prog \/ \E o \in Op : prog' = Append(prog, o)
    /\ over => over' /\ prog' = prog

\* What the program said of its operations it still says.
LEMMA GrownProgram ==
    ASSUME TapeType, Grows
    PROVE  /\ Len(prog) \in Nat /\ Len(prog') \in Nat /\ Len(prog) <= Len(prog')
           /\ \A k \in 1 .. Len(prog) : prog'[k] = prog[k]
           /\ \A k \in 0 .. Len(prog) : Outstanding(k + 1)' = Outstanding(k + 1)
           /\ \A k \in 1 .. Len(prog) :
                 Outstanding(k)' = Outstanding(k) /\ Free(k)' = Free(k)
<1>1. prog \in Seq(Op) /\ Len(prog) \in Nat
  BY DEF TapeType
<1>2. /\ prog' \in Seq(Op) /\ Len(prog') \in Nat /\ Len(prog) <= Len(prog')
      /\ \A k \in 1 .. Len(prog) : prog'[k] = prog[k]
  <2>1. CASE prog' = prog
    BY <1>1, <2>1
  <2>2. CASE \E o \in Op : prog' = Append(prog, o)
    <3>1. PICK o \in Op : prog' = Append(prog, o)
      BY <2>2
    <3>2. QED BY <1>1, <3>1, AppendProperties
  <2>3. QED BY <2>1, <2>2 DEF Grows
<1>3. ASSUME NEW k \in 0 .. Len(prog) PROVE Outstanding(k + 1)' = Outstanding(k + 1)
  <2>1. \A i \in 1 .. (k + 1) - 1 : prog'[i] = prog[i]
    BY <1>1, <1>2
  <2>2. \A i \in 1 .. (k + 1) - 1 : \A i2 \in i + 1 .. (k + 1) - 1 : prog'[i2] = prog[i2]
    BY <1>1, <1>2
  <2>3. QED BY <2>1, <2>2 DEF Outstanding
<1>4. ASSUME NEW k \in 1 .. Len(prog) PROVE Outstanding(k)' = Outstanding(k)
  <2>1. k - 1 \in 0 .. Len(prog) /\ (k - 1) + 1 = k
    BY <1>1
  <2>2. QED BY <1>3, <2>1
<1>5. \A k \in 1 .. Len(prog) : Free(k)' = Free(k)
  BY <1>4 DEF Free
<1>6. QED BY <1>1, <1>2, <1>3, <1>4, <1>5

\* So what was a tape, a join or a distribute still is, with the same slices.
LEMMA GrownOperations ==
    ASSUME TapeType, Grows
    PROVE  \A k \in 1 .. Len(prog) :
              /\ TapesAt(k)' = TapesAt(k) /\ JoinAt(k)' = JoinAt(k)
              /\ DistAt(k)' = DistAt(k)
              /\ OwnSliceOf(k)' = OwnSliceOf(k)
              /\ \A t : GivenSlice(k, t)' = GivenSlice(k, t)
              /\ \A S : Filling(k, S)' = Filling(k, S) /\ Part(k, S)' = Part(k, S)
<1> SUFFICES ASSUME NEW k \in 1 .. Len(prog)
             PROVE  /\ TapesAt(k)' = TapesAt(k) /\ JoinAt(k)' = JoinAt(k)
                    /\ DistAt(k)' = DistAt(k)
                    /\ OwnSliceOf(k)' = OwnSliceOf(k)
                    /\ \A t : GivenSlice(k, t)' = GivenSlice(k, t)
                    /\ \A S : Filling(k, S)' = Filling(k, S) /\ Part(k, S)' = Part(k, S)
  OBVIOUS
<1>1. prog'[k] = prog[k] /\ Outstanding(k)' = Outstanding(k) /\ Free(k)' = Free(k)
  BY GrownProgram
<1>2. TapesAt(k)' = TapesAt(k) /\ JoinAt(k)' = JoinAt(k) /\ DistAt(k)' = DistAt(k)
  BY <1>1 DEF TapesAt, JoinAt, DistAt
<1>3. OwnSliceOf(k)' = OwnSliceOf(k) /\ \A t : GivenSlice(k, t)' = GivenSlice(k, t)
  BY <1>1 DEF OwnSliceOf, GivenSlice
<1>4. \A S : Filling(k, S)' = Filling(k, S) /\ Part(k, S)' = Part(k, S)
  BY <1>1, <1>2 DEF Filling, Part
<1>5. QED BY <1>2, <1>3, <1>4

\* A list that stays is a list of the grown program.
LEMMA GrownList ==
    ASSUME TapeType, Grows, NEW q \in Party, ListOK(q),
           ip'[q] = ip[q], todo'[q] = todo[q], available'[q] = available[q]
    PROVE  /\ ListOK(q)'
           /\ Sliced(q)' = Sliced(q) /\ Taped(q)' = Taped(q)
           /\ ip[q] \in 1 .. Len(prog) =>
                 \A t : GivenSlice(ip[q], t)' = GivenSlice(ip[q], t)
<1> DEFINE k == ip[q]
<1>1. k \in Nat /\ Len(prog) \in Nat /\ Len(prog') \in Nat /\ Len(prog) <= Len(prog')
      /\ k <= Len(prog)
  BY GrownProgram DEF TapeType, ListOK
<1>2. CASE todo[q] = <<>>
  <2>1. k \in 0 .. Len(prog)
    BY <1>1
  <2>2. Outstanding(k + 1)' = Outstanding(k + 1)
    BY <2>1, GrownProgram
  <2>3. QED BY <1>1, <1>2, <2>2, GrownOperations DEF ListOK, Sliced, Taped
<1>3. CASE todo[q] # <<>>
  <2>1. k \in 1 .. Len(prog) /\ Listed(q, k)
    BY <1>3 DEF ListOK
  <2>2. /\ prog'[k] = prog[k] /\ Outstanding(k)' = Outstanding(k) /\ Free(k)' = Free(k)
        /\ TapesAt(k)' = TapesAt(k) /\ JoinAt(k)' = JoinAt(k)
        /\ DistAt(k)' = DistAt(k) /\ OwnSliceOf(k)' = OwnSliceOf(k)
        /\ \A t : GivenSlice(k, t)' = GivenSlice(k, t)
        /\ \A S : Filling(k, S)' = Filling(k, S) /\ Part(k, S)' = Part(k, S)
    BY <2>1, GrownProgram, GrownOperations
  <2> PICK m : m = k
    OBVIOUS
  <2>3. /\ prog'[m] = prog[m] /\ Outstanding(m)' = Outstanding(m) /\ Free(m)' = Free(m)
        /\ TapesAt(m)' = TapesAt(m) /\ JoinAt(m)' = JoinAt(m)
        /\ DistAt(m)' = DistAt(m) /\ OwnSliceOf(m)' = OwnSliceOf(m)
        /\ \A t : GivenSlice(m, t)' = GivenSlice(m, t)
        /\ \A S : Filling(m, S)' = Filling(m, S) /\ Part(m, S)' = Part(m, S)
    BY <2>1, GrownProgram, GrownOperations
  <2>4. Listed(q, m)' = Listed(q, m)
    <3>1. Joining(q, m)' = Joining(q, m)
      BY <2>3 DEF Joining
    <3>2. \A S : Starting(q, m, S)' = Starting(q, m, S)
      BY <2>3 DEF Starting
    <3>3. \A S : Transferring(q, m, S)' = Transferring(q, m, S)
      BY <2>3 DEF Transferring
    <3>4. \A S : Beginning(q, m, S)' = Beginning(q, m, S)
      BY <2>3 DEF Beginning
    <3>5. \A S : Working(q, m, S)' = Working(q, m, S)
      BY <2>3 DEF Working
    <3>6. \A S, W : Collecting(q, m, S, W)' = Collecting(q, m, S, W)
      BY <2>3 DEF Collecting
    <3>7. \A s : Nesting(q, m, s)' = Nesting(q, m, s)
      BY <2>3 DEF Nesting
    <3>8. QED BY <3>1, <3>2, <3>3, <3>4, <3>5, <3>6, <3>7 DEF Listed
  <2>5. ip'[q] = m
    OBVIOUS
  <2>6. Listed(q, m)' /\ m \in 1 .. Len(prog')
    BY <1>1, <2>1, <2>4
  <2>7. ListOK(q)'
    BY <2>5, <2>6 DEF ListOK
  <2>8. Sliced(q)' = Sliced(q) /\ Taped(q)' = Taped(q)
    BY <1>3, <2>3 DEF Sliced, Taped
  <2>9. QED BY <2>2, <2>7, <2>8
<1>4. QED BY <1>2, <1>3

\* A party that does not move is in order still while another's tape goes on.
LEMMA GrownOrder ==
    ASSUME TypeInv, Grows, NEW q \in Party, InOrder(q),
           \A u \in Thread : Unmoved(q, u),
           mpc'[q] = mpc[q], mi'[q] = mi[q], deleted'[q] = deleted[q],
           need'[q] = need[q], mains'[q] = mains[q],
           ip'[q] = ip[q], todo'[q] = todo[q], available'[q] = available[q]
    PROVE  InOrder(q)'
<1>a. TapeType
  BY DEF TypeInv
<1>b. ListOK(q) /\ Control(q) /\ \A u \in Thread : Shape(q, u)
  BY DEF InOrder
<1>c. /\ ListOK(q)'
      /\ Sliced(q)' = Sliced(q) /\ Taped(q)' = Taped(q)
      /\ ip[q] \in 1 .. Len(prog) =>
            \A t : GivenSlice(ip[q], t)' = GivenSlice(ip[q], t)
  BY <1>a, <1>b, GrownList
<1>d. Fresh(q)' = Fresh(q) /\ (Ended(q) => Ended(q)')
  BY DEF Fresh, Ended, Grows
<1>1. Control(q)'
  BY <1>b, <1>d DEF Control, Winding
<1>2. ASSUME NEW u \in Thread PROVE Shape(q, u)'
  <2>a. Shape(q, u)
    BY <1>b
  <2>1. Unmoved(q, u)
    OBVIOUS
  <2>2. MainThread(q) /\ u = 0 => MainThread(q)'
    BY <1>d, <2>1 DEF MainThread, Unmoved, Standing
  <2>3. HelperThread(q, u) => HelperThread(q, u)'
    <3>1. /\ \A j : Flight(q, u, j)' = Flight(q, u, j)
          /\ Idle(q, u)' = Idle(q, u)
      BY <2>1, UnmovedStays
    <3>2. u \in Sliced(q) => ip[q] \in 1 .. Len(prog)
      BY <1>b DEF Sliced, ListOK
    <3>3. ASSUME u \in Sliced(q), HelperThread(q, u)
          PROVE  Flight(q, u, GivenSlice(ip[q], u))'
      <4>1. Flight(q, u, GivenSlice(ip[q], u))
        BY <3>3 DEF HelperThread
      <4>2. PICK j : j = GivenSlice(ip[q], u)
        OBVIOUS
      <4>3. Flight(q, u, j)'
        BY <3>1, <4>1, <4>2
      <4>4. GivenSlice(ip[q], u)' = j
        BY <1>c, <3>2, <3>3, <4>2
      <4>5. QED BY <4>3, <4>4 DEF Flight, Standing
    <3>4. QED BY <1>c, <3>1, <3>3 DEF HelperThread
  <2>4. QED BY <2>a, <2>1, <2>2, <2>3, UnmovedStays DEF Shape, Winding
<1>3. QED BY <1>c, <1>1, <1>2 DEF InOrder

\* Threads with a tape after an operation: those before, those it starts one on,
\* without those it joins.
LEMMA OutstandingNext ==
    ASSUME TapeType, NEW k \in 1 .. Len(prog)
    PROVE  Outstanding(k + 1) =
             IF prog[k].op = "tapes" THEN Outstanding(k) \cup prog[k].ts
             ELSE IF prog[k].op = "join" THEN Outstanding(k) \ prog[k].ts
             ELSE Outstanding(k)
<1>1. k \in Nat /\ prog[k] \in Op
  BY ElementOfSeq DEF TapeType
<1>2. prog[k].ts \subseteq Helper
  BY <1>1 DEF Op
<1>3. ASSUME NEW t \in Outstanding(k), prog[k].op # "join" \/ t \notin prog[k].ts
      PROVE  t \in Outstanding(k + 1)
  <2>1. PICK i \in 1 .. k - 1 :
              /\ prog[i].op = "tapes" /\ t \in prog[i].ts
              /\ \A i2 \in i + 1 .. k - 1 : prog[i2].op # "join" \/ t \notin prog[i2].ts
    BY <1>3 DEF Outstanding
  <2>2. i \in 1 .. (k + 1) - 1
    BY <1>1
  <2>3. \A i2 \in i + 1 .. (k + 1) - 1 : i2 \in i + 1 .. k - 1 \/ i2 = k
    BY <1>1
  <2>4. \A i2 \in i + 1 .. (k + 1) - 1 : prog[i2].op # "join" \/ t \notin prog[i2].ts
    BY <1>3, <2>1, <2>3
  <2>5. t \in Helper
    BY <1>3 DEF Outstanding
  <2>6. QED BY <2>1, <2>2, <2>4, <2>5 DEF Outstanding
<1>4. ASSUME NEW t \in prog[k].ts, prog[k].op = "tapes"
      PROVE  t \in Outstanding(k + 1)
  <2>1. k \in 1 .. (k + 1) - 1 /\ k + 1 .. (k + 1) - 1 = {}
    BY <1>1
  <2>2. \A i2 \in k + 1 .. (k + 1) - 1 : prog[i2].op # "join" \/ t \notin prog[i2].ts
    BY <2>1
  <2>3. QED BY <1>2, <1>4, <2>1, <2>2 DEF Outstanding
<1>5. ASSUME NEW t \in Outstanding(k + 1)
      PROVE  /\ t \in Outstanding(k) \/ (prog[k].op = "tapes" /\ t \in prog[k].ts)
             /\ prog[k].op # "join" \/ t \notin prog[k].ts
  <2>1. PICK i \in 1 .. (k + 1) - 1 :
              /\ prog[i].op = "tapes" /\ t \in prog[i].ts
              /\ \A i2 \in i + 1 .. (k + 1) - 1 : prog[i2].op # "join" \/ t \notin prog[i2].ts
    BY <1>5 DEF Outstanding
  <2>2. t \in Helper
    BY <1>5 DEF Outstanding
  <2>3. CASE i = k
    BY <2>1, <2>3
  <2>4. CASE i # k
    <3>1. i \in 1 .. k - 1 /\ k \in i + 1 .. (k + 1) - 1
      BY <1>1, <2>4
    <3>2. \A i2 \in i + 1 .. k - 1 : i2 \in i + 1 .. (k + 1) - 1
      BY <1>1
    <3>a. \A i2 \in i + 1 .. k - 1 : prog[i2].op # "join" \/ t \notin prog[i2].ts
      BY <2>1, <3>2
    <3>3. t \in Outstanding(k)
      <4>1. i \in 1 .. k - 1 /\ prog[i].op = "tapes" /\ t \in prog[i].ts
        BY <2>1, <3>1
      <4>2. \E i1 \in 1 .. k - 1 :
              /\ prog[i1].op = "tapes" /\ t \in prog[i1].ts
              /\ \A i2 \in i1 + 1 .. k - 1 : prog[i2].op # "join" \/ t \notin prog[i2].ts
        BY <3>a, <4>1
      <4>3. QED BY <2>2, <4>2 DEF Outstanding
    <3>4. QED BY <2>1, <3>1, <3>3
  <2>5. QED BY <2>3, <2>4
<1>6. QED BY <1>3, <1>4, <1>5

\* A list of one step and more.
LEMMA ListFacts ==
    ASSUME NEW h \in Todo, NEW s \in Seq(Todo)
    PROVE  /\ <<h>> \o s \in Seq(Todo) /\ <<h>> \o s # <<>>
           /\ Head(<<h>> \o s) = h /\ Tail(<<h>> \o s) = s
           /\ <<>> \o s = s /\ s \o <<>> = s
<1>1. <<h>> \in Seq(Todo) /\ Len(<<h>>) = 1 /\ <<h>>[1] = h /\ Len(s) \in Nat
  OBVIOUS
<1>2. /\ <<h>> \o s \in Seq(Todo) /\ Len(<<h>> \o s) = 1 + Len(s)
      /\ \A i \in 1 .. 1 + Len(s) : (<<h>> \o s)[i] = IF i <= 1 THEN <<h>>[i] ELSE s[i - 1]
  BY <1>1, ConcatProperties
<1>3. <<h>> \o s # <<>> /\ Head(<<h>> \o s) = h
  BY <1>1, <1>2
<1>4. Tail(<<h>> \o s) \in Seq(Todo) /\ Len(Tail(<<h>> \o s)) = Len(s)
  BY <1>1, <1>2
<1>5. \A i \in 1 .. Len(s) : Tail(<<h>> \o s)[i] = s[i]
  BY <1>1, <1>2, <1>4
<1>6. Tail(<<h>> \o s) = s
  BY <1>4, <1>5, SeqEqual
<1>7. QED BY <1>2, <1>3, <1>6, ConcatEmptySeq

\* The steps of an operation are steps.
LEMMA OperationSteps ==
    ASSUME TapeType, NEW k \in 1 .. Len(prog), NEW S \in SUBSET Helper
    PROVE  /\ prog[k] \in Op /\ prog[k].n \in Nat /\ prog[k].ts \in SUBSET Helper
           /\ k \in Nat
           /\ Step("fill", S, prog[k].n) \in Todo /\ Step("sched", S, 0) \in Todo
           /\ Step("sched", prog[k].ts, 0) \in Todo
           /\ Step("join", S, 0) \in Todo /\ Step("wrap", S, 0) \in Todo
           /\ Step("dist", {}, prog[k].n) \in Todo /\ Step("inner", {}, prog[k].n) \in Todo
           /\ OwnSliceOf(k) \in Job /\ OwnStep(OwnSliceOf(k)) \in Todo
           /\ OwnStep(SliceJob(0, 0, prog[k].n)) \in Todo
           /\ Filling(k, S) \in Seq(Todo)
<1>1. prog[k] \in Op /\ k \in Nat
  BY ElementOfSeq DEF TapeType
<1>2. prog[k].n \in Nat /\ prog[k].ts \in SUBSET Helper
  BY <1>1 DEF Op
<1>3. /\ Step("fill", S, prog[k].n) \in Todo /\ Step("sched", S, 0) \in Todo
      /\ Step("sched", prog[k].ts, 0) \in Todo
      /\ Step("join", S, 0) \in Todo /\ Step("wrap", S, 0) \in Todo
      /\ Step("dist", {}, prog[k].n) \in Todo /\ Step("inner", {}, prog[k].n) \in Todo
  BY <1>2, StepType
<1>4. Free(k) \in SUBSET Thread
  BY DEF Free, Helper
<1>5. Cardinality(Free(k)) \in Nat
  BY <1>4, CountType
<1>6. Cardinality(Free(k)) * NPerThread(prog[k].n, Cardinality(Free(k))) \in Nat
  BY <1>2, <1>5, NPerThreadType, ProductType
<1>7. OwnSliceOf(k) \in Job /\ SliceJob(0, 0, prog[k].n) \in Job
  BY <1>1, <1>2, <1>6 DEF OwnSliceOf, SliceJob, Job
<1>8. \A j \in Job : OwnStep(j) \in Todo
  BY DEF OwnStep, Todo
<1>9. Filling(k, S) \in Seq(Todo)
  BY <1>3 DEF Filling
<1>10. QED BY <1>1, <1>2, <1>3, <1>7, <1>8, <1>9

\* What a party is doing tells which list it has.
LEMMA ListAt ==
    ASSUME TypeInv, NEW p \in Party, ListOK(p), todo[p] # <<>>
    PROVE  /\ ip[p] \in 1 .. Len(prog)
           /\ Head(todo[p]).do = "join" => Joining(p, ip[p])
           /\ Head(todo[p]).do = "sched" => \E S \in SUBSET Helper : Starting(p, ip[p], S)
           /\ Head(todo[p]).do = "fill" => \E S \in SUBSET Helper : Transferring(p, ip[p], S)
           /\ Head(todo[p]).do = "dist" => \E S \in SUBSET Helper : Beginning(p, ip[p], S)
           /\ Head(todo[p]).do = "own" =>
                 \/ \E S \in SUBSET Helper : Working(p, ip[p], S)
                 \/ Nesting(p, ip[p], OwnStep(SliceJob(0, 0, prog[ip[p]].n)))
           /\ Head(todo[p]).do = "inner" =>
                 Nesting(p, ip[p], Step("inner", {}, prog[ip[p]].n))
           /\ Head(todo[p]).do = "wrap" =>
                 \E S, W \in SUBSET Helper : Collecting(p, ip[p], S, W)
<1>a. TapeType
  BY DEF TypeInv
<1>b. ip[p] \in 1 .. Len(prog) /\ Listed(p, ip[p])
  BY DEF ListOK
<1> PICK k \in 1 .. Len(prog) : k = ip[p]
  BY <1>b
<1>c. \A S \in SUBSET Helper :
         /\ Step("fill", S, prog[k].n) \in Todo /\ Step("sched", S, 0) \in Todo
         /\ Step("join", S, 0) \in Todo /\ Step("wrap", S, 0) \in Todo
         /\ Filling(k, S) \in Seq(Todo)
  BY <1>a, OperationSteps
<1>d. /\ prog[k].ts \in SUBSET Helper
      /\ Step("dist", {}, prog[k].n) \in Todo /\ Step("inner", {}, prog[k].n) \in Todo
      /\ OwnStep(OwnSliceOf(k)) \in Todo /\ OwnStep(SliceJob(0, 0, prog[k].n)) \in Todo
      /\ Step("sched", prog[k].ts, 0) \in Todo
  BY <1>a, OperationSteps
<1>e. \A d, S, n : Step(d, S, n).do = d
  BY DEF Step
<1>f. \A j : OwnStep(j).do = "own"
  BY DEF OwnStep
<1>g. \A h \in Todo : Head(<<h>>) = h
  BY ShortQueues
<1>h. \A h \in Todo, s \in Seq(Todo) : Head(<<h>> \o s) = h
  BY ListFacts
<1>1. Joining(p, k) => Head(todo[p]).do = "join"
  BY <1>c, <1>d, <1>e, <1>g DEF Joining
<1>2. \A S \in SUBSET Helper : Starting(p, k, S) => Head(todo[p]).do = "sched"
  BY <1>c, <1>e, <1>g DEF Starting
<1>3. ASSUME NEW S \in SUBSET Helper, Transferring(p, k, S)
      PROVE  Head(todo[p]).do = "fill"
  <2>1. todo[p] = <<Step("fill", S, prog[k].n), Step("sched", prog[k].ts, 0)>>
    BY <1>3 DEF Transferring, Filling, TapesAt
  <2>2. Head(todo[p]) = Step("fill", S, prog[k].n)
    BY <1>c, <1>d, <2>1, ShortQueues
  <2>3. QED BY <1>e, <2>2
<1>4. \A S \in SUBSET Helper : Beginning(p, k, S) => Head(todo[p]).do = "dist"
  BY <1>c, <1>d, <1>e, <1>h DEF Beginning
<1>5. \A S \in SUBSET Helper : Working(p, k, S) => Head(todo[p]).do = "own"
  BY <1>c, <1>d, <1>f, <1>h DEF Working
<1>6. \A S, W \in SUBSET Helper : Collecting(p, k, S, W) => Head(todo[p]).do = "wrap"
  BY <1>c, <1>d, <1>e, <1>h DEF Collecting
<1>7. ASSUME NEW s \in Todo, Nesting(p, k, s)
      PROVE  \/ Head(todo[p]).do = "inner" /\ s = Step("inner", {}, prog[k].n)
             \/ Head(todo[p]).do = "own" /\ s = OwnStep(SliceJob(0, 0, prog[k].n))
  <2>1. <<OwnStep(OwnSliceOf(k))>> \in Seq(Todo)
    BY <1>d
  <2>2. Head(todo[p]) = s
    BY <1>7, <1>h, <2>1 DEF Nesting
  <2>3. QED BY <1>7, <1>e, <1>f, <2>2 DEF Nesting
<1>8. Listed(p, k)
  BY <1>b
<1> PICK d : d = Head(todo[p]).do
  OBVIOUS
<1>9. /\ d = "join" => Joining(p, k)
      /\ d = "sched" => \E S \in SUBSET Helper : Starting(p, k, S)
      /\ d = "fill" => \E S \in SUBSET Helper : Transferring(p, k, S)
      /\ d = "dist" => \E S \in SUBSET Helper : Beginning(p, k, S)
      /\ d = "own" => \/ \E S \in SUBSET Helper : Working(p, k, S)
                      \/ Nesting(p, k, OwnStep(SliceJob(0, 0, prog[k].n)))
      /\ d = "inner" => Nesting(p, k, Step("inner", {}, prog[k].n))
      /\ d = "wrap" => \E S, W \in SUBSET Helper : Collecting(p, k, S, W)
  BY <1>1, <1>2, <1>3, <1>4, <1>5, <1>6, <1>7, <1>8 DEF Listed
<1>10. QED BY <1>9

\* While thread 0 runs the main tape, the machine waits for it.
LEMMA MainRuns ==
    ASSUME TypeInv, NEW p \in Party, InOrder(p), RunsMain(p, 0)
    PROVE  /\ mpc[p] = "joinmain" /\ Standing(p, 0, "busy", <<>>, <<>>)
           /\ job[p][0] = TapeJob(0) /\ mains[p] = 1
           /\ \A t \in Helper : HelperThread(p, t) /\ t # 0 /\ t \in Thread
<1>1. wpc[p][0] = "busy" /\ mpc[p] \in MachineControl /\ 0 \in Thread
      /\ mi[p] \in Int
  BY ZeroIsThread DEF RunsMain, TypeInv, MachineType
<1>2. ~Unborn(p, 0) /\ ~Idle(p, 0) /\ ~Arriving(p, 0) /\ ~Stopping(p, 0)
      /\ ~Leaving(p, 0) /\ ~Gone(p, 0)
  BY <1>1 DEF Unborn, Idle, Arriving, Stopping, Leaving, Gone, Standing
<1>3. Shape(p, 0)
  BY <1>1 DEF InOrder
<1>4. mpc[p] = "joinmain"
  BY <1>1, <1>2, <1>3 DEF Shape, Winding, MachineControl
<1>5. MainThread(p)
  BY <1>3, <1>4 DEF Shape
<1>6. \A t \in Helper : HelperThread(p, t) /\ t # 0 /\ t \in Thread
  BY <1>4 DEF InOrder, Shape, Helper
<1>7. QED BY <1>1, <1>4, <1>5, <1>6 DEF MainThread, Standing

\* The threads found available are those that have nothing to do.
LEMMA AvailableIdle ==
    ASSUME CountInv, NEW p \in Party, NEW t \in Helper,
           Idle(p, t) \/ \E j : Flight(p, t, j)
    PROVE  left[p][t] = 0 <=> Idle(p, t)
<1>1. t \in Thread
  BY DEF Helper
<1>2. Beyond(p, t) = Held(p, t) /\ QueueType
  BY <1>1 DEF CountInv, TypeInv
<1>3. left[p][t] \in Int /\ in[p][t] \in Seq(Job) /\ out[p][t] \in Seq(Job)
  BY <1>1, <1>2 DEF QueueType
<1>4. left[p][t] - (Len(in[p][t]) + Len(out[p][t])) = Held(p, t)
  BY <1>2 DEF Beyond
<1>5. Len(<<>>) = 0 /\ \A j : Len(<<j>>) = 1
  OBVIOUS
<1>6. CASE Idle(p, t)
  <2>1. Len(in[p][t]) = 0 /\ Len(out[p][t]) = 0 /\ Held(p, t) = 0
    BY <1>6 DEF Idle, Standing, Held
  <2>2. QED BY <1>3, <1>4, <1>6, <2>1
<1>7. CASE ~Idle(p, t)
  <2>1. PICK j : Flight(p, t, j)
    BY <1>7
  <2>2. /\ Len(in[p][t]) \in Nat /\ Len(out[p][t]) \in Nat /\ Held(p, t) \in Nat
        /\ Len(in[p][t]) + Len(out[p][t]) + Held(p, t) = 1
    <3>1. CASE Standing(p, t, "loop", <<j>>, <<>>)
      <4>1. Len(in[p][t]) = 1 /\ Len(out[p][t]) = 0 /\ Held(p, t) = 0
        BY <3>1 DEF Standing, Held
      <4>2. QED BY <4>1
    <3>2. CASE Standing(p, t, "busy", <<>>, <<>>)
      <4>1. Len(in[p][t]) = 0 /\ Len(out[p][t]) = 0 /\ Held(p, t) = 1
        BY <3>2 DEF Standing, Held
      <4>2. QED BY <4>1
    <3>3. CASE Standing(p, t, "loop", <<>>, <<j>>)
      <4>1. Len(in[p][t]) = 0 /\ Len(out[p][t]) = 1 /\ Held(p, t) = 0
        BY <3>3 DEF Standing, Held
      <4>2. QED BY <4>1
    <3>4. QED BY <2>1, <3>1, <3>2, <3>3 DEF Flight
  <2>3. left[p][t] = 1
    <3>1. \A l \in Int : \A a, b, h \in Nat : l - (a + b) = h /\ a + b + h = 1 => l = 1
      OBVIOUS
    <3>2. QED BY <1>3, <1>4, <2>2, <3>1, Zenon
  <2>4. QED BY <1>7, <2>3
<1>8. QED BY <1>6, <1>7

\* A thread in flight is not idle.
LEMMA FlightNotIdle ==
    ASSUME NEW p \in Party, NEW t \in Thread, NEW j, Flight(p, t, j)
    PROVE  ~Idle(p, t)
<1>1. <<j>> # <<>>
  OBVIOUS
<1>2. QED BY <1>1 DEF Flight, Idle, Standing

\* A thread whose answer is there has been given the job it answers.
LEMMA AnswerThere ==
    ASSUME NEW p \in Party, NEW t \in Thread, NEW j, Flight(p, t, j),
           out[p][t] # <<>>
    PROVE  wpc[p][t] = "loop" /\ in[p][t] = <<>> /\ out[p][t] = <<j>>
  BY DEF Flight, Standing

\* A distribute of n items for operation id gives the threads av the jobs js and
\* leaves the caller own.
Given(p, av, js, own, id, n) ==
    /\ id = (IF Doing(p, "dist") THEN ip[p] ELSE 0)
    /\ n = Head(todo[p]).n /\ av = FindAvailable(p)
    /\ own = SliceJob(id, Cardinality(av) * NPerThread(n, Cardinality(av)), n)
    /\ \A t \in Thread : js[t] = SliceOf(id, n, Cardinality(av), Rank(av, t))
    /\ Schedule(p, av, js) /\ available'[p] = av
    /\ todo'[p] = (IF Doing(p, "dist") /\ prog[ip[p]].nest
                   THEN <<Step("inner", {}, n)>> ELSE <<>>)
                  \o <<OwnStep(own)>> \o Tail(todo[p])
    /\ Begin(p, 0, own)
    /\ need' = (IF Doing(p, "dist") THEN [need EXCEPT ![p] = n] ELSE need)
    /\ made' = (IF Doing(p, "dist") THEN [made EXCEPT ![p] = {}] ELSE made)

\* What a distribute does: the available threads get their slices, the caller
\* keeps its own.
LEMMA DistributeGives ==
    ASSUME QueueType, TapeType, HistoryType, NEW p \in Party, Distribute(p)
    PROVE  \E av \in SUBSET Helper : \E js \in [Thread -> Job] : \E own \in Job :
           \E id \in Nat : \E n \in Nat : Given(p, av, js, own, id, n)
<1> DEFINE id == IF Doing(p, "dist") THEN ip[p] ELSE 0
           n == Head(todo[p]).n
           av == FindAvailable(p)
           a == Cardinality(av)
           rank(t) == Cardinality({u \in av : u < t})
           js == [t \in Thread |-> SliceOf(id, n, a, rank(t))]
           own == SliceJob(id, a * NPerThread(n, a), n)
<1>1. n \in Nat
  BY HeadType DEF Distribute, Doing
<1>2. id \in Nat
  BY DEF TapeType
<1>3. av \in SUBSET Thread /\ av \in SUBSET Helper
  BY DEF FindAvailable, Helper
<1>4. a \in Nat
  BY <1>3, CountType
<1>5. ASSUME NEW t \in Thread PROVE rank(t) \in Nat
  BY <1>3, CountType
<1>6. /\ Schedule(p, av, js) /\ Begin(p, 0, own)
      /\ available' = [available EXCEPT ![p] = av]
      /\ need' = (IF Doing(p, "dist") THEN [need EXCEPT ![p] = n] ELSE need)
      /\ made' = (IF Doing(p, "dist") THEN [made EXCEPT ![p] = {}] ELSE made)
  BY DEF Distribute
<1>7. todo' = [todo EXCEPT ![p] = (IF Doing(p, "dist") /\ prog[ip[p]].nest
                                   THEN <<Step("inner", {}, n)>> ELSE <<>>)
                                  \o <<OwnStep(own)>> \o Tail(todo[p])]
  BY DEF Distribute
<1>8. \A t \in Thread : rank(t) = Rank(av, t)
  BY DEF Rank
<1> HIDE DEF id, n, av, a, rank
<1>9. js \in [Thread -> Job] /\ \A t \in Thread : js[t] = SliceOf(id, n, a, rank(t))
  BY <1>1, <1>2, <1>4, <1>5, SliceType
<1>10. a * NPerThread(n, a) \in Nat
  BY <1>1, <1>4, NPerThreadType, ProductType
<1>11. own \in Job
  BY <1>1, <1>2, <1>10 DEF SliceJob, Job
<1>12. /\ available'[p] = av
       /\ todo'[p] = (IF Doing(p, "dist") /\ prog[ip[p]].nest
                      THEN <<Step("inner", {}, n)>> ELSE <<>>)
                     \o <<OwnStep(own)>> \o Tail(todo[p])
  BY <1>6, <1>7 DEF TapeType
<1> HIDE DEF js, own
<1>13. /\ id = (IF Doing(p, "dist") THEN ip[p] ELSE 0)
       /\ n = Head(todo[p]).n /\ av = FindAvailable(p) /\ a = Cardinality(av)
       /\ own = SliceJob(id, a * NPerThread(n, a), n)
  BY DEF id, n, av, a, own
<1>14. \A t \in Thread : js[t] = SliceOf(id, n, Cardinality(av), Rank(av, t))
  BY <1>8, <1>9, <1>13
<1>15. own = SliceJob(id, Cardinality(av) * NPerThread(n, Cardinality(av)), n)
  BY <1>13
<1>16. Given(p, av, js, own, id, n)
  BY <1>6, <1>12, <1>13, <1>14, <1>15 DEF Given
<1>17. QED
  BY <1>1, <1>2, <1>3, <1>9, <1>11, <1>16

-----------------------------------------------------------------------------
(* The steps of the main tape keep the order.                              *)

\* A step of the main tape leaves the machine, the workers and the other
\* parties alone, and thread 0's own queues.
LEMMA TapeFrame ==
    ASSUME TypeInv, NEW p \in Party, TapeStep(p)
    PROVE  /\ RunsMain(p, 0) /\ Grows
           /\ UNCHANGED <<mpc, mi, deleted, wpc, job, mains>>
           /\ in'[p][0] = in[p][0] /\ out'[p][0] = out[p][0]
           /\ \A q \in Party : q # p =>
                 /\ ip'[q] = ip[q] /\ todo'[q] = todo[q]
                 /\ available'[q] = available[q] /\ need'[q] = need[q]
                 /\ \A u \in Thread : in'[q][u] = in[q][u] /\ out'[q][u] = out[q][u]
<1>a. QueueType /\ TapeType /\ HistoryType /\ \A j \in Job : Always(j) \in [Thread -> Job]
  BY AlwaysType DEF TypeInv
<1>b. \A t \in Helper : t \in Thread /\ t # 0
  BY DEF Helper
<1>1. RunsMain(p, 0)
  BY DEF TapeStep, NextOp, EndOfTape, Distribute, OwnSlice, WrapUp,
         FillBuffers, RunTape, JoinTape, Doing
<1>2. UNCHANGED <<mpc, mi, deleted, wpc, job, mains>>
  BY DEF TapeStep, NextOp, EndOfTape, Distribute, OwnSlice, WrapUp,
         FillBuffers, RunTape, JoinTape, machineVars, workerVars, historyVars
<1>3. Grows
  <2>1. CASE NextOp(p)
    <3>1. prog' = prog \/ (~over /\ \E o \in Op : prog' = Append(prog, o))
      BY <2>1, AllowedType DEF NextOp
    <3>2. over' = over
      BY <2>1 DEF NextOp
    <3>3. QED BY <3>1, <3>2 DEF Grows
  <2>2. CASE EndOfTape(p)
    BY <2>2 DEF EndOfTape, Grows
  <2>3. CASE ~NextOp(p) /\ ~EndOfTape(p)
    <3>1. UNCHANGED <<prog, over>>
      BY <2>3 DEF TapeStep, Distribute, OwnSlice, WrapUp, FillBuffers, RunTape, JoinTape
    <3>2. QED BY <3>1 DEF Grows
  <2>4. QED BY <2>1, <2>2, <2>3
<1>4. ASSUME NEW q \in Party, q # p
      PROVE  /\ ip'[q] = ip[q] /\ todo'[q] = todo[q]
             /\ available'[q] = available[q] /\ need'[q] = need[q]
  <2>1. ip'[q] = ip[q]
    BY <1>a, <1>4 DEF TapeStep, NextOp, EndOfTape, Distribute, OwnSlice, WrapUp,
           FillBuffers, RunTape, JoinTape, TapeType
  <2>2. available'[q] = available[q]
    BY <1>a, <1>4 DEF TapeStep, NextOp, EndOfTape, Distribute, OwnSlice, WrapUp,
           FillBuffers, RunTape, JoinTape, TapeType
  <2>3. todo'[q] = todo[q]
    <3>1. todo' = todo \/ \E s : todo' = [todo EXCEPT ![p] = s]
      BY DEF TapeStep, NextOp, EndOfTape, Distribute, OwnSlice, WrapUp,
             FillBuffers, RunTape, JoinTape, DoneWith
    <3>2. QED BY <1>a, <1>4, <3>1 DEF TapeType
  <2>4. need'[q] = need[q]
    <3>1. need' = need \/ \E n : need' = [need EXCEPT ![p] = n]
      BY DEF TapeStep, NextOp, EndOfTape, Distribute, OwnSlice, WrapUp,
             FillBuffers, RunTape, JoinTape, historyVars
    <3>2. QED BY <1>a, <1>4, <3>1 DEF HistoryType
  <2>5. QED BY <2>1, <2>2, <2>3, <2>4
<1>5. ASSUME NEW q \in Party, NEW u \in Thread, q # p \/ u = 0
      PROVE  in'[q][u] = in[q][u] /\ out'[q][u] = out[q][u]
  <2>1. CASE \E ts \in SUBSET Helper : \E j \in [Thread -> Job] : Schedule(p, ts, j)
    BY <1>a, <1>b, <1>5, <2>1, ScheduleAt
  <2>2. CASE \E t \in Helper : Result(p, t)
    BY <1>a, <1>b, <1>5, <2>2, ResultAt
  <2>3. CASE UNCHANGED queueVars
    BY <2>3 DEF queueVars
  <2>4. Distribute(p) => \E ts \in SUBSET Helper : \E j \in [Thread -> Job] : Schedule(p, ts, j)
    BY <1>a, DistributeGives DEF Given
  <2>5. ASSUME NEW t \in Helper, RunTape(p, t)
        PROVE  \E ts \in SUBSET Helper : \E j \in [Thread -> Job] : Schedule(p, ts, j)
    <3>1. TapeJob(ip[p]) \in Job
      BY <1>a, ConstantJobs DEF TapeType
    <3>2. QED BY <1>a, <2>5, <3>1 DEF RunTape
  <2>6. NextOp(p) \/ EndOfTape(p) \/ OwnSlice(p) \/ (\E t \in Helper : FillBuffers(p, t))
        => UNCHANGED queueVars
    BY DEF NextOp, EndOfTape, OwnSlice, FillBuffers
  <2>7. \A t \in Helper : WrapUp(p, t) \/ JoinTape(p, t) => Result(p, t)
    BY DEF WrapUp, JoinTape
  <2>8. QED BY <2>1, <2>2, <2>3, <2>4, <2>5, <2>6, <2>7 DEF TapeStep
<1>6. 0 \in Thread
  BY ZeroIsThread
<1>7. QED BY <1>1, <1>2, <1>3, <1>4, <1>5, <1>6

\* So all that is to be shown of it is about its own list and helpers.
LEMMA TapeKeeps ==
    ASSUME OrderInv, NEW p \in Party, TapeStep(p), ProgOK', ListOK(p)',
           \A t \in Helper : HelperThread(p, t)'
    PROVE  ProgOK' /\ \A q \in Party : InOrder(q)'
<1>a. TypeInv /\ InOrder(p) /\ \A q \in Party : InOrder(q)
  BY DEF OrderInv, CountInv
<1>b. /\ RunsMain(p, 0) /\ Grows
      /\ UNCHANGED <<mpc, mi, deleted, wpc, job, mains>>
      /\ in'[p][0] = in[p][0] /\ out'[p][0] = out[p][0]
      /\ \A q \in Party : q # p =>
            /\ ip'[q] = ip[q] /\ todo'[q] = todo[q]
            /\ available'[q] = available[q] /\ need'[q] = need[q]
            /\ \A u \in Thread : in'[q][u] = in[q][u] /\ out'[q][u] = out[q][u]
  BY <1>a, TapeFrame
<1>c. /\ mpc[p] = "joinmain" /\ Standing(p, 0, "busy", <<>>, <<>>)
      /\ job[p][0] = TapeJob(0) /\ mains[p] = 1
  BY <1>a, <1>b, MainRuns
<1>1. ASSUME NEW q \in Party, q # p PROVE InOrder(q)'
  <2>1. \A u \in Thread : Unmoved(q, u)
    BY <1>1, <1>b DEF Unmoved
  <2>2. QED BY <1>1, <1>a, <1>b, <2>1, GrownOrder
<1>2. Control(p)'
  <2>1. deleted[p] = {}
    BY <1>a, <1>c DEF InOrder, Control
  <2>2. QED BY <1>b, <1>c, <2>1 DEF Control, Winding
<1>3. MainThread(p)'
  BY <1>b, <1>c DEF MainThread, Standing
<1>4. ASSUME NEW u \in Thread PROVE Shape(p, u)'
  <2>1. u # 0 => HelperThread(p, u)'
    BY DEF Helper
  <2>2. QED BY <1>b, <1>c, <1>3, <2>1 DEF Shape, Winding
<1>5. QED BY <1>1, <1>2, <1>4 DEF InOrder

\* Steps and lists. Done with a thread, the step is about the others, or over.
LEMMA DoneWithAt ==
    ASSUME TapeType, NEW p \in Party, NEW t, NEW b, DoneWith(p, t, b)
    PROVE  \A d, R, m : Head(todo[p]) = Step(d, R, m) =>
              /\ R \ {t} = {} => todo'[p] = <<>> \o Tail(todo[p])
              /\ R \ {t} # {} =>
                    todo'[p] = (b \o <<Step(d, R \ {t}, m)>>) \o Tail(todo[p])
<1> SUFFICES ASSUME NEW d, NEW R, NEW m, Head(todo[p]) = Step(d, R, m)
             PROVE  /\ R \ {t} = {} => todo'[p] = <<>> \o Tail(todo[p])
                    /\ R \ {t} # {} =>
                          todo'[p] = (b \o <<Step(d, R \ {t}, m)>>) \o Tail(todo[p])
  OBVIOUS
<1>1. Head(todo[p]).ts = R
  BY DEF Step
<1>2. \A Q : [Step(d, R, m) EXCEPT !.ts = Q] = Step(d, Q, m)
  BY DEF Step
<1>3. todo' = [todo EXCEPT ![p] =
                  (IF R \ {t} = {} THEN <<>> ELSE b \o <<Step(d, R \ {t}, m)>>)
                  \o Tail(todo[p])]
  BY <1>1, <1>2 DEF DoneWith
<1>4. todo'[p] = (IF R \ {t} = {} THEN <<>> ELSE b \o <<Step(d, R \ {t}, m)>>)
                 \o Tail(todo[p])
  BY <1>3 DEF TapeType
<1>5. QED BY <1>4

\* The first step of every list, and the rest.
LEMMA HeadsAt ==
    TapeType =>
    \A p \in Party, k \in 1 .. Len(prog), S \in SUBSET Helper, W \in SUBSET Helper :
        /\ Joining(p, k) =>
              /\ todo[p] # <<>> /\ Tail(todo[p]) = <<>>
              /\ Head(todo[p]) = Step("join", prog[k].ts, 0)
        /\ Starting(p, k, S) =>
              /\ todo[p] # <<>> /\ Tail(todo[p]) = <<>>
              /\ Head(todo[p]) = Step("sched", S, 0)
        /\ Transferring(p, k, S) =>
              /\ todo[p] # <<>> /\ Tail(todo[p]) = <<Step("sched", prog[k].ts, 0)>>
              /\ Head(todo[p]) = Step("fill", S, prog[k].n)
        /\ Beginning(p, k, S) =>
              /\ todo[p] # <<>> /\ Tail(todo[p]) = Filling(k, S)
              /\ Head(todo[p]) = Step("dist", {}, prog[k].n)
        /\ Working(p, k, S) =>
              /\ todo[p] # <<>> /\ Tail(todo[p]) = Filling(k, S)
              /\ Head(todo[p]) = OwnStep(OwnSliceOf(k))
        /\ Collecting(p, k, S, W) =>
              /\ todo[p] # <<>> /\ Tail(todo[p]) = Filling(k, S)
              /\ Head(todo[p]) = Step("wrap", W, 0)
        /\ \A s \in Todo : Nesting(p, k, s) =>
              /\ todo[p] # <<>> /\ Tail(todo[p]) = <<OwnStep(OwnSliceOf(k))>>
              /\ Head(todo[p]) = s
<1> SUFFICES ASSUME TapeType, NEW p \in Party, NEW k \in 1 .. Len(prog),
                    NEW S \in SUBSET Helper, NEW W \in SUBSET Helper
    PROVE
        /\ Joining(p, k) =>
              /\ todo[p] # <<>> /\ Tail(todo[p]) = <<>>
              /\ Head(todo[p]) = Step("join", prog[k].ts, 0)
        /\ Starting(p, k, S) =>
              /\ todo[p] # <<>> /\ Tail(todo[p]) = <<>>
              /\ Head(todo[p]) = Step("sched", S, 0)
        /\ Transferring(p, k, S) =>
              /\ todo[p] # <<>> /\ Tail(todo[p]) = <<Step("sched", prog[k].ts, 0)>>
              /\ Head(todo[p]) = Step("fill", S, prog[k].n)
        /\ Beginning(p, k, S) =>
              /\ todo[p] # <<>> /\ Tail(todo[p]) = Filling(k, S)
              /\ Head(todo[p]) = Step("dist", {}, prog[k].n)
        /\ Working(p, k, S) =>
              /\ todo[p] # <<>> /\ Tail(todo[p]) = Filling(k, S)
              /\ Head(todo[p]) = OwnStep(OwnSliceOf(k))
        /\ Collecting(p, k, S, W) =>
              /\ todo[p] # <<>> /\ Tail(todo[p]) = Filling(k, S)
              /\ Head(todo[p]) = Step("wrap", W, 0)
        /\ \A s \in Todo : Nesting(p, k, s) =>
              /\ todo[p] # <<>> /\ Tail(todo[p]) = <<OwnStep(OwnSliceOf(k))>>
              /\ Head(todo[p]) = s
  BY Zenon
<1>a. /\ prog[k].ts \in SUBSET Helper
      /\ Step("fill", S, prog[k].n) \in Todo /\ Step("sched", S, 0) \in Todo
      /\ Step("wrap", W, 0) \in Todo
      /\ Filling(k, S) \in Seq(Todo)
      /\ Step("dist", {}, prog[k].n) \in Todo /\ OwnStep(OwnSliceOf(k)) \in Todo
      /\ Step("sched", prog[k].ts, 0) \in Todo
  BY OperationSteps
<1>b. Step("join", prog[k].ts, 0) \in Todo
  BY <1>a, OperationSteps
<1>c. \A h \in Todo : <<h>> # <<>> /\ Head(<<h>>) = h /\ Tail(<<h>>) = <<>>
  BY ShortQueues
<1>d. \A h \in Todo, s \in Seq(Todo) :
         <<h>> \o s # <<>> /\ Head(<<h>> \o s) = h /\ Tail(<<h>> \o s) = s
  BY ListFacts
<1>1. Joining(p, k) =>
              /\ todo[p] # <<>> /\ Tail(todo[p]) = <<>>
              /\ Head(todo[p]) = Step("join", prog[k].ts, 0)
  BY <1>b, <1>c DEF Joining
<1>2. Starting(p, k, S) =>
              /\ todo[p] # <<>> /\ Tail(todo[p]) = <<>>
              /\ Head(todo[p]) = Step("sched", S, 0)
  BY <1>a, <1>c DEF Starting
<1>3. ASSUME Transferring(p, k, S)
      PROVE  /\ todo[p] # <<>> /\ Tail(todo[p]) = <<Step("sched", prog[k].ts, 0)>>
             /\ Head(todo[p]) = Step("fill", S, prog[k].n)
  <2>1. todo[p] = <<Step("fill", S, prog[k].n), Step("sched", prog[k].ts, 0)>>
    BY <1>3 DEF Transferring, Filling, TapesAt
  <2>2. QED BY <1>a, <2>1, ShortQueues
<1>4. Beginning(p, k, S) =>
              /\ todo[p] # <<>> /\ Tail(todo[p]) = Filling(k, S)
              /\ Head(todo[p]) = Step("dist", {}, prog[k].n)
  BY <1>a, <1>d DEF Beginning
<1>5. Working(p, k, S) =>
              /\ todo[p] # <<>> /\ Tail(todo[p]) = Filling(k, S)
              /\ Head(todo[p]) = OwnStep(OwnSliceOf(k))
  BY <1>a, <1>d DEF Working
<1>6. Collecting(p, k, S, W) =>
              /\ todo[p] # <<>> /\ Tail(todo[p]) = Filling(k, S)
              /\ Head(todo[p]) = Step("wrap", W, 0)
  BY <1>a, <1>d DEF Collecting
<1>7. ASSUME NEW s \in Todo, Nesting(p, k, s)
      PROVE  /\ todo[p] # <<>> /\ Tail(todo[p]) = <<OwnStep(OwnSliceOf(k))>>
             /\ Head(todo[p]) = s
  <2>1. <<OwnStep(OwnSliceOf(k))>> \in Seq(Todo)
    BY <1>a
  <2>2. QED BY <1>7, <1>d, <2>1 DEF Nesting
<1>8. QED BY <1>1, <1>2, <1>3, <1>4, <1>5, <1>6, <1>7

\* The list of party p is one of operation ip[p]; S have slices and T have tapes.
Course(p, S, T) == ListOK(p) /\ Sliced(p) = S /\ Taped(p) = T

\* Who has what, by the list of operation k.
Courses(p, k) ==
    /\ todo[p] = <<>> => Course(p, {}, Outstanding(k + 1))
    /\ Joining(p, k) => Course(p, {}, Outstanding(k))
    /\ \A S \in SUBSET Helper :
          /\ Starting(p, k, S) => Course(p, {}, Outstanding(k) \cup (prog[k].ts \ S))
          /\ Transferring(p, k, S) => Course(p, {}, Outstanding(k))
          /\ Beginning(p, k, S) => Course(p, {}, Outstanding(k))
          /\ Working(p, k, S) => Course(p, Free(k), Outstanding(k))
          /\ \A W \in SUBSET Helper :
                Collecting(p, k, S, W) => Course(p, W, Outstanding(k))
    /\ \A s \in Todo : Nesting(p, k, s) => Course(p, {}, Outstanding(k))

\* So it is for the operation every party is at.
AllCourses == \A p \in Party : \A k \in 1 .. Len(prog) : ip[p] = k => Courses(p, k)

\* It is.
LEMMA CourseAt ==
    TapeType => AllCourses
<1> SUFFICES ASSUME TapeType, NEW p \in Party, NEW k \in 1 .. Len(prog), ip[p] = k
    PROVE Courses(p, k)
  BY DEF AllCourses
<1>a. \A d, S, n : Step(d, S, n).do = d /\ Step(d, S, n).ts = S
  BY DEF Step
<1>b. \A j : OwnStep(j).do = "own"
  BY DEF OwnStep
<1>c. /\ k <= Len(prog) /\ Listed(p, k) => ListOK(p)
      /\ k <= Len(prog) /\ todo[p] = <<>> => ListOK(p)
  BY DEF ListOK
<1>d. k <= Len(prog)
  BY DEF TapeType
<1>e. ASSUME todo[p] # <<>>, NEW h, Head(todo[p]) = h
      PROVE  /\ h.do \notin {"own", "wrap"} => Sliced(p) = {}
             /\ h.do = "own" => Sliced(p) = available[p]
             /\ h.do = "wrap" => Sliced(p) = h.ts
             /\ h.do # "sched" => Taped(p) = Outstanding(k)
             /\ h.do = "sched" => Taped(p) = Outstanding(k) \cup (prog[k].ts \ h.ts)
  BY <1>e DEF Sliced, Taped
<1>1. todo[p] = <<>> => Course(p, {}, Outstanding(k + 1))
  BY <1>c, <1>d DEF Course, Sliced, Taped
<1>2. ASSUME Joining(p, k) PROVE Course(p, {}, Outstanding(k))
  <2>1. todo[p] # <<>> /\ Head(todo[p]) = Step("join", prog[k].ts, 0)
    BY <1>2, HeadsAt
  <2>2. ListOK(p)
    BY <1>2, <1>c, <1>d DEF Listed
  <2>3. QED BY <1>a, <1>e, <2>1, <2>2 DEF Course
<1>3. ASSUME NEW S \in SUBSET Helper, Starting(p, k, S)
      PROVE  Course(p, {}, Outstanding(k) \cup (prog[k].ts \ S))
  <2>1. todo[p] # <<>> /\ Head(todo[p]) = Step("sched", S, 0)
    BY <1>3, HeadsAt
  <2>2. ListOK(p)
    BY <1>3, <1>c, <1>d DEF Listed
  <2>3. QED BY <1>a, <1>e, <2>1, <2>2 DEF Course
<1>4. ASSUME NEW S \in SUBSET Helper, Transferring(p, k, S)
      PROVE  Course(p, {}, Outstanding(k))
  <2>1. todo[p] # <<>> /\ Head(todo[p]) = Step("fill", S, prog[k].n)
    BY <1>4, HeadsAt
  <2>2. ListOK(p)
    BY <1>4, <1>c, <1>d DEF Listed
  <2>3. QED BY <1>a, <1>e, <2>1, <2>2 DEF Course
<1>5. ASSUME NEW S \in SUBSET Helper, Beginning(p, k, S)
      PROVE  Course(p, {}, Outstanding(k))
  <2>1. todo[p] # <<>> /\ Head(todo[p]) = Step("dist", {}, prog[k].n)
    BY <1>5, HeadsAt
  <2>2. ListOK(p)
    BY <1>5, <1>c, <1>d DEF Listed
  <2>3. QED BY <1>a, <1>e, <2>1, <2>2 DEF Course
<1>6. ASSUME NEW S \in SUBSET Helper, Working(p, k, S)
      PROVE  Course(p, Free(k), Outstanding(k))
  <2>1. todo[p] # <<>> /\ Head(todo[p]) = OwnStep(OwnSliceOf(k)) /\ available[p] = Free(k)
    BY <1>6, HeadsAt DEF Working
  <2>2. ListOK(p)
    BY <1>6, <1>c, <1>d DEF Listed
  <2>3. QED BY <1>b, <1>e, <2>1, <2>2 DEF Course
<1>7. ASSUME NEW S \in SUBSET Helper, NEW W \in SUBSET Helper, Collecting(p, k, S, W)
      PROVE  Course(p, W, Outstanding(k))
  <2>1. todo[p] # <<>> /\ Head(todo[p]) = Step("wrap", W, 0)
    BY <1>7, HeadsAt
  <2>2. ListOK(p)
    BY <1>7, <1>c, <1>d DEF Listed
  <2>3. QED BY <1>a, <1>e, <2>1, <2>2 DEF Course
<1>8. ASSUME NEW s \in Todo, Nesting(p, k, s) PROVE Course(p, {}, Outstanding(k))
  <2>1. todo[p] # <<>> /\ Head(todo[p]) = s
    BY <1>8, HeadsAt
  <2>2. ListOK(p)
    BY <1>8, <1>c, <1>d DEF Listed
  <2>3. s.do = "inner" \/ (s.do = "own" /\ available[p] = {})
    BY <1>8, <1>a, <1>b DEF Nesting
  <2>4. QED BY <1>e, <2>1, <2>2, <2>3 DEF Course
<1>9. QED BY <1>1, <1>2, <1>3, <1>4, <1>5, <1>6, <1>7, <1>8 DEF Courses

\* After a step it is so again.
LEMMA CourseNext ==
    ASSUME TypeInv, NEW p \in Party, TapeStep(p), NEW k \in 1 .. Len(prog'), ip'[p] = k
    PROVE  Courses(p, k)'
<1>1. TapeType'
  BY TapeStepType DEF TypeInv
<1>2. (TapeType => AllCourses)'
  BY CourseAt, PTL
<1>3. AllCourses'
  BY <1>1, <1>2
<1>4. QED BY <1>3 DEF AllCourses

\* The new course of the party, with the threads in the right cases, is order.
LEMMA CourseGives ==
    ASSUME OrderInv, NEW p \in Party, TapeStep(p), ProgOK', NEW S, NEW T,
           Course(p, S, T)',
           \A t \in Helper :
              /\ t \in S => Flight(p, t, GivenSlice(ip[p], t))'
              /\ t \in T => \E i \in Nat \ {0} : Flight(p, t, TapeJob(i))'
              /\ t \notin S \cup T => Idle(p, t)'
    PROVE  ProgOK' /\ \A q \in Party : InOrder(q)'
<1>1. ListOK(p)' /\ Sliced(p)' = S /\ Taped(p)' = T
  BY DEF Course
<1>2. \A t \in Helper : HelperThread(p, t)'
  BY <1>1 DEF HelperThread
<1>3. QED BY <1>1, <1>2, TapeKeeps

\* What holds of the helpers before.
LEMMA CourseHas ==
    ASSUME TypeInv, NEW p \in Party, InOrder(p), TapeStep(p), NEW S, NEW T, Course(p, S, T),
           NEW t \in Helper
    PROVE  /\ t \in S => Flight(p, t, GivenSlice(ip[p], t))
           /\ t \in T => \E i \in Nat \ {0} : Flight(p, t, TapeJob(i))
           /\ t \notin S \cup T => Idle(p, t)
<1>1. RunsMain(p, 0)
  BY TapeFrame
<1>2. HelperThread(p, t)
  BY <1>1, MainRuns
<1>3. QED BY <1>2 DEF HelperThread, Course

\* A thread that stays keeps its case while who has what stays.
LEMMA CourseKeeps ==
    ASSUME OrderInv, NEW p \in Party, TapeStep(p), ProgOK', NEW S, NEW T,
           Course(p, S, T), Course(p, S, T)', \A t \in Helper : Unmoved(p, t),
           \A t \in S : GivenSlice(ip[p], t)' = GivenSlice(ip[p], t)
    PROVE  ProgOK' /\ \A q \in Party : InOrder(q)'
<1>a. TypeInv /\ InOrder(p)
  BY DEF OrderInv, CountInv
<1>1. ASSUME NEW t \in Helper
      PROVE  /\ t \in S => Flight(p, t, GivenSlice(ip[p], t))'
             /\ t \in T => \E i \in Nat \ {0} : Flight(p, t, TapeJob(i))'
             /\ t \notin S \cup T => Idle(p, t)'
  <2>1. /\ t \in S => Flight(p, t, GivenSlice(ip[p], t))
        /\ t \in T => \E i \in Nat \ {0} : Flight(p, t, TapeJob(i))
        /\ t \notin S \cup T => Idle(p, t)
    BY <1>a, CourseHas
  <2>2. t \in Thread
    BY DEF Helper
  <2>3. (\A j : Flight(p, t, j)' = Flight(p, t, j)) /\ Idle(p, t)' = Idle(p, t)
    BY <2>2, UnmovedStays
  <2>4. ASSUME t \in S PROVE Flight(p, t, GivenSlice(ip[p], t))'
    <3>1. PICK j : j = GivenSlice(ip[p], t)
      OBVIOUS
    <3>2. Flight(p, t, j)'
      BY <2>1, <2>3, <2>4, <3>1
    <3>3. GivenSlice(ip[p], t)' = j
      BY <2>4, <3>1
    <3>4. QED BY <3>2, <3>3 DEF Flight, Standing
  <2>5. QED BY <2>1, <2>3, <2>4
<1>2. QED BY <1>1, CourseGives

\* A step within an operation: the program is what it was.
LEMMA WithinOperation ==
    ASSUME OrderInv, NEW p \in Party, TapeStep(p), UNCHANGED <<prog, over, ip>>,
           todo[p] # <<>>
    PROVE  /\ TypeInv /\ InOrder(p) /\ ListOK(p) /\ TapeType /\ ProgOK /\ QueueType
           /\ ip[p] \in 1 .. Len(prog) /\ ip[p] \in Nat /\ ProgOK'
           /\ UNCHANGED <<wpc, job>>
           /\ \A k \in 1 .. Len(prog) : k = ip[p] =>
                 /\ Courses(p, k) /\ Courses(p, k)'
                 /\ Outstanding(k)' = Outstanding(k)
                 /\ Outstanding(k + 1)' = Outstanding(k + 1)
                 /\ Free(k)' = Free(k)
                 /\ TapesAt(k)' = TapesAt(k) /\ JoinAt(k)' = JoinAt(k)
                 /\ DistAt(k)' = DistAt(k) /\ OwnSliceOf(k)' = OwnSliceOf(k)
                 /\ \A t : GivenSlice(k, t)' = GivenSlice(k, t)
                 /\ \A S : Filling(k, S)' = Filling(k, S) /\ Part(k, S)' = Part(k, S)
<1>1. TypeInv /\ InOrder(p) /\ ListOK(p) /\ TapeType /\ ProgOK /\ QueueType
  BY DEF OrderInv, CountInv, InOrder, TypeInv
<1>2. ip[p] \in 1 .. Len(prog) /\ ip[p] \in Nat
  BY <1>1 DEF ListOK, TapeType
<1>3. Grows /\ UNCHANGED <<wpc, job>>
  BY <1>1, TapeFrame
<1>4. ASSUME NEW k \in 1 .. Len(prog) PROVE Outstanding(k + 1)' = Outstanding(k + 1)
  <2>1. k \in 0 .. Len(prog)
    BY <1>1 DEF TapeType
  <2>2. QED BY <1>1, <1>3, <2>1, GrownProgram
<1>5. ProgOK'
  <2>1. \A k \in 1 .. Len(prog) :
           TapesAt(k)' = TapesAt(k) /\ JoinAt(k)' = JoinAt(k) /\ DistAt(k)' = DistAt(k)
    BY <1>1, <1>3, GrownOperations
  <2>2. Outstanding(Len(prog) + 1)' = Outstanding(Len(prog) + 1)
    BY DEF Outstanding
  <2>3. QED BY <1>1, <2>1, <2>2 DEF ProgOK
<1>6. ASSUME NEW k \in 1 .. Len(prog), k = ip[p] PROVE Courses(p, k) /\ Courses(p, k)'
  <2>1. Courses(p, k)
    BY <1>1, <1>6, CourseAt DEF AllCourses
  <2>2. k \in 1 .. Len(prog') /\ ip'[p] = k
    BY <1>6
  <2>3. QED BY <1>1, <2>1, <2>2, CourseNext
<1>7. QED
  BY <1>1, <1>2, <1>3, <1>4, <1>5, <1>6, GrownProgram, GrownOperations

\* Where a distribute leaves nothing, or buffers to be filled.
LEMMA FillingNext ==
    ASSUME OrderInv, NEW p \in Party, TapeStep(p), UNCHANGED <<prog, over, ip>>,
           todo[p] # <<>>, NEW k \in 1 .. Len(prog), k = ip[p],
           NEW S \in SUBSET Helper, Part(k, S), todo'[p] = Filling(k, S),
           NEW T, T = Outstanding(k)
    PROVE  Course(p, {}, T)'
<1>1. /\ TapeType
      /\ Courses(p, k)' /\ Outstanding(k)' = Outstanding(k)
      /\ Outstanding(k + 1)' = Outstanding(k + 1)
      /\ Filling(k, S)' = Filling(k, S) /\ Part(k, S)' = Part(k, S)
      /\ TapesAt(k)' = TapesAt(k)
  BY WithinOperation
<1>2. CASE TapesAt(k)
  <2>1. Transferring(p, k, S)'
    BY <1>1, <1>2 DEF Transferring
  <2>2. Course(p, {}, Outstanding(k))'
    BY <1>1, <2>1 DEF Courses
  <2>3. QED BY <1>1, <2>2 DEF Course
<1>3. CASE DistAt(k)
  <2>1. todo'[p] = <<>>
    BY <1>3 DEF DistAt, Filling
  <2>2. Outstanding(k + 1) = Outstanding(k)
    BY <1>1, <1>3, OutstandingNext DEF DistAt
  <2>3. Course(p, {}, Outstanding(k + 1))'
    BY <1>1, <2>1 DEF Courses
  <2>4. QED BY <1>1, <2>2, <2>3 DEF Course
<1>4. QED BY <1>2, <1>3 DEF Part

\* Slices given to threads and the caller's own done: collect them.
LEMMA OwnSliceOrder ==
    ASSUME OrderInv, NEW p \in Party, OwnSlice(p)
    PROVE  ProgOK' /\ \A q \in Party : InOrder(q)'
<1>a. TapeStep(p) /\ UNCHANGED <<prog, over, ip, available, in, out>>
      /\ todo[p] # <<>> /\ Head(todo[p]).do = "own"
  BY DEF TapeStep, OwnSlice, Doing, queueVars
<1>b. /\ TypeInv /\ InOrder(p) /\ ListOK(p) /\ TapeType
      /\ ip[p] \in 1 .. Len(prog) /\ ProgOK'
      /\ UNCHANGED <<wpc, job>>
  BY <1>a, WithinOperation
<1> PICK k \in 1 .. Len(prog) : k = ip[p]
  BY <1>b
<1>c. /\ Courses(p, k) /\ Courses(p, k)'
      /\ Outstanding(k)' = Outstanding(k) /\ Free(k)' = Free(k)
      /\ DistAt(k)' = DistAt(k) /\ OwnSliceOf(k)' = OwnSliceOf(k)
      /\ \A t : GivenSlice(k, t)' = GivenSlice(k, t)
      /\ \A S : Filling(k, S)' = Filling(k, S) /\ Part(k, S)' = Part(k, S)
  BY <1>a, WithinOperation
<1>d. \A t \in Helper : Unmoved(p, t)
  BY <1>a, <1>b DEF Unmoved
<1>e. \A t : GivenSlice(ip[p], t)' = GivenSlice(ip[p], t)
  BY <1>a, <1>c
<1>f. todo'[p] = (IF available[p] = {} THEN <<>> ELSE <<Step("wrap", available[p], 0)>>)
                 \o Tail(todo[p])
  BY <1>b DEF OwnSlice, TapeType
<1>g. \/ \E S \in SUBSET Helper : Working(p, k, S)
      \/ Nesting(p, k, OwnStep(SliceJob(0, 0, prog[k].n)))
  BY <1>a, <1>b, ListAt
<1> PICK T : T = Outstanding(k)
  OBVIOUS
<1>1. ASSUME NEW S \in SUBSET Helper, Working(p, k, S)
      PROVE  ProgOK' /\ \A q \in Party : InOrder(q)'
  <2>1. /\ Part(k, S) /\ prog[k].n # 0 /\ available[p] = Free(k)
        /\ Tail(todo[p]) = Filling(k, S) /\ Filling(k, S) \in Seq(Todo)
    BY <1>1, <1>b, HeadsAt, OperationSteps DEF Working
  <2> PICK F : F = Free(k)
    OBVIOUS
  <2>2. Course(p, F, T) /\ F \in SUBSET Helper
    BY <1>1, <1>c DEF Courses, Free
  <2>3. Course(p, F, T)'
    <3>1. CASE F = {}
      <4>1. todo'[p] = Filling(k, S)
        BY <1>f, <2>1, <3>1, ConcatEmptySeq
      <4>2. QED BY <1>a, <2>1, <3>1, <4>1, FillingNext
    <3>2. CASE F # {}
      <4>1. todo'[p] = <<Step("wrap", F, 0)>> \o Filling(k, S)
        BY <1>f, <2>1, <3>2
      <4>2. Collecting(p, k, S, F)'
        BY <1>a, <1>c, <2>1, <3>2, <4>1 DEF Collecting
      <4>3. Course(p, F, Outstanding(k))'
        BY <1>c, <2>2, <4>2 DEF Courses
      <4>4. QED BY <1>c, <4>3 DEF Course
    <3>3. QED BY <3>1, <3>2
  <2>4. QED BY <1>a, <1>b, <1>d, <1>e, <2>2, <2>3, CourseKeeps
<1>2. ASSUME Nesting(p, k, OwnStep(SliceJob(0, 0, prog[k].n)))
      PROVE  ProgOK' /\ \A q \in Party : InOrder(q)'
  <2>a. /\ OwnStep(SliceJob(0, 0, prog[k].n)) \in Todo /\ OwnStep(OwnSliceOf(k)) \in Todo
        /\ {} \in SUBSET Helper /\ Filling(k, {}) \in Seq(Todo)
    BY <1>b, OperationSteps
  <2>1. /\ DistAt(k) /\ prog[k].nest /\ available[p] = {}
        /\ Tail(todo[p]) = <<OwnStep(OwnSliceOf(k))>>
    BY <1>2, <1>b, <2>a, HeadsAt DEF Nesting
  <2>2. prog[k].op = "dist" /\ prog[k].n # 0 /\ Free(k) = {} /\ Filling(k, {}) = <<>>
        /\ Part(k, {})
    BY <2>1 DEF DistAt, Filling, Part
  <2>3. todo'[p] = <<OwnStep(OwnSliceOf(k))>> \o Filling(k, {})
    <3>1. <<OwnStep(OwnSliceOf(k))>> \in Seq(Todo)
      BY <2>a
    <3>2. QED BY <1>f, <2>1, <2>2, <3>1, ConcatEmptySeq
  <2>4. Working(p, k, {})'
    BY <1>a, <1>c, <2>1, <2>2, <2>3 DEF Working
  <2>5. Course(p, {}, T)'
    <3>1. Course(p, Free(k), Outstanding(k))'
      BY <1>c, <2>4, <2>a DEF Courses
    <3>2. QED BY <1>c, <2>2, <3>1 DEF Course
  <2>6. Course(p, {}, T)
    BY <1>2, <1>c, <2>a DEF Courses
  <2>7. QED BY <1>a, <1>b, <1>d, <1>e, <2>5, <2>6, CourseKeeps
<1>3. QED BY <1>g, <1>1, <1>2

\* A thread's slice collected: it is idle, and the others' are still out.
LEMMA WrapUpOrder ==
    ASSUME OrderInv, NEW p \in Party, NEW t \in Helper, WrapUp(p, t)
    PROVE  ProgOK' /\ \A q \in Party : InOrder(q)'
<1>a. TapeStep(p) /\ UNCHANGED <<prog, over, ip, available>>
      /\ todo[p] # <<>> /\ Head(todo[p]).do = "wrap"
      /\ Result(p, t) /\ DoneWith(p, t, <<>>) /\ t \in Head(todo[p]).ts
  BY DEF TapeStep, WrapUp, Doing, At
<1>b. /\ TypeInv /\ InOrder(p) /\ ListOK(p) /\ TapeType /\ QueueType
      /\ ip[p] \in 1 .. Len(prog) /\ ProgOK'
      /\ UNCHANGED <<wpc, job>>
  BY <1>a, WithinOperation
<1> PICK k \in 1 .. Len(prog) : k = ip[p]
  BY <1>b
<1>c. /\ Courses(p, k) /\ Courses(p, k)'
      /\ Outstanding(k)' = Outstanding(k) /\ Free(k)' = Free(k)
      /\ \A u : GivenSlice(k, u)' = GivenSlice(k, u)
      /\ \A S : Filling(k, S)' = Filling(k, S) /\ Part(k, S)' = Part(k, S)
  BY <1>a, WithinOperation
<1>d. t \in Thread
  BY DEF Helper
<1> PICK S \in SUBSET Helper, W \in SUBSET Helper : Collecting(p, k, S, W)
  BY <1>a, <1>b, ListAt
<1> PICK T : T = Outstanding(k)
  OBVIOUS
<1>1. /\ Part(k, S) /\ prog[k].n # 0 /\ W \subseteq Free(k)
      /\ Tail(todo[p]) = Filling(k, S) /\ Filling(k, S) \in Seq(Todo)
      /\ Head(todo[p]) = Step("wrap", W, 0)
  BY <1>b, HeadsAt, OperationSteps DEF Collecting
<1>2. t \in W
  BY <1>1, <1>a DEF Step
<1>3. Course(p, W, T) /\ W \cap T = {}
  BY <1>1, <1>c DEF Courses, Free
<1>4. Course(p, W \ {t}, T)'
  <2>a. <<>> \in Seq(Todo)
    OBVIOUS
  <2>b. /\ W \ {t} = {} => todo'[p] = <<>> \o Tail(todo[p])
        /\ W \ {t} # {} =>
              todo'[p] = (<<>> \o <<Step("wrap", W \ {t}, 0)>>) \o Tail(todo[p])
    <3>1. \A d, R, m : Head(todo[p]) = Step(d, R, m) =>
              /\ R \ {t} = {} => todo'[p] = <<>> \o Tail(todo[p])
              /\ R \ {t} # {} =>
                    todo'[p] = (<<>> \o <<Step(d, R \ {t}, m)>>) \o Tail(todo[p])
      <4>1. DoneWith(p, t, <<>>) /\ TapeType
        BY <1>a, <1>b
      <4>2. QED BY <4>1, DoneWithAt
    <3>2. QED BY <1>1, <3>1, Zenon
  <2>1. CASE W \ {t} = {}
    <3>1. todo'[p] = Filling(k, S)
      BY <1>1, <2>b, <2>1, ConcatEmptySeq
    <3>2. Course(p, {}, T)'
      BY <1>1, <1>a, <3>1, FillingNext
    <3>3. QED BY <2>1, <3>2
  <2>2. CASE W \ {t} # {}
    <3> PICK V \in SUBSET Helper : V = W \ {t}
      OBVIOUS
    <3>1. todo'[p] = (<<>> \o <<Step("wrap", V, 0)>>) \o Filling(k, S)
      BY <1>1, <2>b, <2>2
    <3>2. <<>> \o <<Step("wrap", V, 0)>> = <<Step("wrap", V, 0)>>
      <4>1. <<Step("wrap", V, 0)>> \in Seq(Todo)
        BY <1>b, OperationSteps
      <4>2. QED BY <4>1, ConcatEmptySeq
    <3>3. todo'[p] = <<Step("wrap", V, 0)>> \o Filling(k, S)
      BY <3>1, <3>2
    <3>4. V # {} /\ V \subseteq Free(k)
      BY <1>1, <2>2
    <3>5. Collecting(p, k, S, V)'
      BY <1>a, <1>c, <1>1, <3>3, <3>4 DEF Collecting
    <3>6. Course(p, V, Outstanding(k))'
      BY <1>c, <3>5 DEF Courses
    <3>7. QED BY <1>c, <3>6 DEF Course
  <2>3. QED BY <2>1, <2>2
<1>5. ASSUME NEW u \in Helper
      PROVE  /\ u \in W \ {t} => Flight(p, u, GivenSlice(ip[p], u))'
             /\ u \in T => \E i \in Nat \ {0} : Flight(p, u, TapeJob(i))'
             /\ u \notin (W \ {t}) \cup T => Idle(p, u)'
  <2>a. u \in Thread
    BY DEF Helper
  <2>1. /\ u \in W => Flight(p, u, GivenSlice(ip[p], u))
        /\ u \in T => \E i \in Nat \ {0} : Flight(p, u, TapeJob(i))
        /\ u \notin W \cup T => Idle(p, u)
    BY <1>3, <1>a, <1>b, CourseHas
  <2>2. CASE u = t
    <3>1. PICK j : j = GivenSlice(ip[p], u) /\ Flight(p, u, j)
      BY <1>2, <2>1, <2>2
    <3>2. out[p][u] # <<>> /\ out'[p][u] = Tail(out[p][u]) /\ in'[p][u] = in[p][u]
      BY <1>a, <1>b, <1>d, <2>2, ResultAt
    <3>3. wpc[p][u] = "loop" /\ in[p][u] = <<>> /\ out[p][u] = <<j>>
      BY <2>a, <3>1, <3>2, AnswerThere
    <3>4. Tail(<<j>>) = <<>>
      BY ShortQueues
    <3>5. Idle(p, u)'
      BY <1>b, <3>2, <3>3, <3>4 DEF Idle, Standing
    <3>6. u \notin T
      BY <1>2, <1>3, <2>2
    <3>7. QED BY <2>2, <3>5, <3>6
  <2>3. CASE u # t
    <3>1. Unmoved(p, u)
      BY <1>a, <1>b, <1>d, <2>a, <2>3, ResultAt DEF Unmoved
    <3>2. (\A j : Flight(p, u, j)' = Flight(p, u, j)) /\ Idle(p, u)' = Idle(p, u)
      BY <2>a, <3>1, UnmovedStays
    <3>3. ASSUME u \in W PROVE Flight(p, u, GivenSlice(ip[p], u))'
      <4>1. PICK j : j = GivenSlice(ip[p], u)
        OBVIOUS
      <4>2. Flight(p, u, j)'
        BY <2>1, <3>2, <3>3, <4>1
      <4>3. GivenSlice(ip[p], u)' = j
        BY <1>a, <1>c, <4>1
      <4>4. QED BY <4>2, <4>3 DEF Flight, Standing
    <3>4. QED BY <2>1, <2>3, <3>2, <3>3
  <2>4. QED BY <2>2, <2>3
<1>6. QED
  <2> PICK V : V = W \ {t}
    OBVIOUS
  <2>1. QED BY <1>4, <1>5, <1>a, <1>b, CourseGives

\* Three steps in a row.
LEMMA ThreeSteps ==
    ASSUME NEW x \in Todo, NEW y \in Todo, NEW z \in Todo
    PROVE  /\ (<<x>> \o <<y>>) \o <<z>> = <<x>> \o <<y, z>>
           /\ (<<>> \o <<y>>) \o <<z>> = <<y, z>>
           /\ <<>> \o <<z>> = <<z>>
<1>1. <<x>> \in Seq(Todo) /\ <<y>> \in Seq(Todo) /\ <<z>> \in Seq(Todo)
  OBVIOUS
<1>2. <<y>> \o <<z>> = <<y, z>>
  BY ShortQueues
<1>3. (<<x>> \o <<y>>) \o <<z>> = <<x>> \o (<<y>> \o <<z>>)
  BY <1>1, ConcatAssociative
<1>4. <<>> \o <<y>> = <<y>> /\ <<>> \o <<z>> = <<z>>
  BY <1>1, ConcatEmptySeq
<1>5. QED BY <1>2, <1>3, <1>4

\* The buffers of a thread filled: on to the next, or to starting the tapes.
LEMMA FillBuffersOrder ==
    ASSUME OrderInv, NEW p \in Party, NEW t \in Helper, FillBuffers(p, t)
    PROVE  ProgOK' /\ \A q \in Party : InOrder(q)'
<1>a. TapeStep(p) /\ UNCHANGED <<prog, over, ip, available, in, out>>
      /\ todo[p] # <<>> /\ Head(todo[p]).do = "fill"
      /\ DoneWith(p, t, Central(Head(todo[p]).n)) /\ t \in Head(todo[p]).ts
  BY DEF TapeStep, FillBuffers, Doing, At, queueVars
<1>b. /\ TypeInv /\ InOrder(p) /\ ListOK(p) /\ TapeType
      /\ ip[p] \in 1 .. Len(prog) /\ ProgOK'
      /\ UNCHANGED <<wpc, job>>
  BY <1>a, WithinOperation
<1> PICK k \in 1 .. Len(prog) : k = ip[p]
  BY <1>b
<1>c. /\ Courses(p, k) /\ Courses(p, k)'
      /\ Outstanding(k)' = Outstanding(k)
      /\ TapesAt(k)' = TapesAt(k)
      /\ \A u : GivenSlice(k, u)' = GivenSlice(k, u)
      /\ \A S : Filling(k, S)' = Filling(k, S) /\ Part(k, S)' = Part(k, S)
  BY <1>a, WithinOperation
<1>d. \A u \in Helper : Unmoved(p, u)
  BY <1>a, <1>b DEF Unmoved
<1>e. \A u : GivenSlice(ip[p], u)' = GivenSlice(ip[p], u)
  BY <1>a, <1>c
<1> PICK S \in SUBSET Helper : Transferring(p, k, S)
  BY <1>a, <1>b, ListAt
<1> PICK T : T = Outstanding(k)
  OBVIOUS
<1> PICK ts \in SUBSET Helper : ts = prog[k].ts
  BY <1>b, OperationSteps
<1>f. PICK n \in Nat : n = prog[k].n
  BY <1>b, OperationSteps
<1>1. /\ Part(k, S) /\ TapesAt(k)
      /\ Tail(todo[p]) = <<Step("sched", ts, 0)>>
      /\ Head(todo[p]) = Step("fill", S, n)
  BY <1>b, <1>f, HeadsAt DEF Transferring
<1>2. ts # {} /\ S \subseteq ts /\ prog'[k] = prog[k] /\ prog[k].op = "tapes"
  BY <1>1, <1>a DEF TapesAt, Part, DistAt
<1>3. Course(p, {}, T)
  BY <1>c DEF Courses
<1>4. Course(p, {}, T)'
  <2>1. Head(todo[p]).n = n
    BY <1>1 DEF Step
  <2>2. /\ S \ {t} = {} => todo'[p] = <<>> \o Tail(todo[p])
        /\ S \ {t} # {} =>
              todo'[p] = (Central(n) \o <<Step("fill", S \ {t}, n)>>) \o Tail(todo[p])
    <3>a. PICK b : b = Central(n)
      OBVIOUS
    <3>1. DoneWith(p, t, b) /\ TapeType
      BY <1>a, <1>b, <2>1, <3>a
    <3>2. \A d, R, m : Head(todo[p]) = Step(d, R, m) =>
              /\ R \ {t} = {} => todo'[p] = <<>> \o Tail(todo[p])
              /\ R \ {t} # {} =>
                    todo'[p] = (b \o <<Step(d, R \ {t}, m)>>) \o Tail(todo[p])
      BY <3>1, DoneWithAt
    <3>3. QED BY <1>1, <3>2, <3>a
  <2> PICK V \in SUBSET Helper : V = S \ {t}
    OBVIOUS
  <2>3. /\ Step("sched", ts, 0) \in Todo /\ Step("fill", V, n) \in Todo
        /\ Step("dist", {}, n) \in Todo
    BY <1>b, <1>f, OperationSteps
  <2>4. Filling(k, V) = <<Step("fill", V, n), Step("sched", ts, 0)>>
    BY <1>2, <1>f DEF Filling
  <2>9. /\ (<<Step("dist", {}, n)>> \o <<Step("fill", V, n)>>) \o <<Step("sched", ts, 0)>>
           = <<Step("dist", {}, n)>> \o <<Step("fill", V, n), Step("sched", ts, 0)>>
        /\ (<<>> \o <<Step("fill", V, n)>>) \o <<Step("sched", ts, 0)>>
           = <<Step("fill", V, n), Step("sched", ts, 0)>>
        /\ <<>> \o <<Step("sched", ts, 0)>> = <<Step("sched", ts, 0)>>
    <3>1. PICK x, y, z \in Todo :
             x = Step("dist", {}, n) /\ y = Step("fill", V, n) /\ z = Step("sched", ts, 0)
      BY <2>3
    <3>2. /\ (<<x>> \o <<y>>) \o <<z>> = <<x>> \o <<y, z>>
          /\ (<<>> \o <<y>>) \o <<z>> = <<y, z>>
          /\ <<>> \o <<z>> = <<z>>
      BY ThreeSteps
    <3>3. QED BY <3>1, <3>2
  <2>5. CASE V = {}
    <3>1. todo'[p] = <<Step("sched", ts, 0)>>
      BY <1>1, <2>2, <2>9, <2>5
    <3>2. Starting(p, k, ts)'
      BY <1>1, <1>2, <1>c, <3>1 DEF Starting
    <3>3. Course(p, {}, Outstanding(k) \cup (prog[k].ts \ ts))'
      BY <1>c, <3>2 DEF Courses
    <3>4. Outstanding(k) \cup (prog[k].ts \ ts) = T
      OBVIOUS
    <3>5. QED BY <1>2, <1>c, <3>3, <3>4 DEF Course
  <2>6. CASE V # {} /\ n = 0
    <3>1. todo'[p] = (<<>> \o <<Step("fill", V, n)>>) \o <<Step("sched", ts, 0)>>
      BY <1>1, <2>2, <2>6 DEF Central
    <3>2. todo'[p] = Filling(k, V)
      BY <2>4, <2>9, <3>1
    <3>3. Part(k, V)
      BY <1>1, <1>2, <2>6 DEF Part
    <3>4. Transferring(p, k, V)'
      BY <1>1, <1>c, <3>2, <3>3 DEF Transferring
    <3>5. Course(p, {}, Outstanding(k))'
      BY <1>c, <3>4 DEF Courses
    <3>6. QED BY <1>c, <3>5 DEF Course
  <2>7. CASE V # {} /\ n # 0
    <3>1. todo'[p] = (<<Step("dist", {}, n)>> \o <<Step("fill", V, n)>>)
                     \o <<Step("sched", ts, 0)>>
      BY <1>1, <2>2, <2>7 DEF Central
    <3>2. todo'[p] = <<Step("dist", {}, n)>> \o Filling(k, V)
      BY <2>4, <2>9, <3>1
    <3>3. Part(k, V)
      BY <1>1, <1>2, <2>7 DEF Part
    <3>4. Beginning(p, k, V)'
      BY <1>2, <1>c, <1>f, <2>7, <3>2, <3>3 DEF Beginning
    <3>5. Course(p, {}, Outstanding(k))'
      BY <1>c, <3>4 DEF Courses
    <3>6. QED BY <1>c, <3>5 DEF Course
  <2>8. QED BY <2>5, <2>6, <2>7
<1>5. QED
  <2> PICK Z : Z = {}
    OBVIOUS
  <2>1. Course(p, Z, T) /\ Course(p, Z, T)'
    BY <1>3, <1>4
  <2>2. QED BY <1>a, <1>b, <1>d, <1>e, <2>1, CourseKeeps

\* A tape started: one more thread has one, and until now it was idle.
LEMMA RunTapeOrder ==
    ASSUME OrderInv, NEW p \in Party, NEW t \in Helper, RunTape(p, t)
    PROVE  ProgOK' /\ \A q \in Party : InOrder(q)'
<1>a. TapeStep(p) /\ UNCHANGED <<prog, over, ip, available>>
      /\ todo[p] # <<>> /\ Head(todo[p]).do = "sched"
      /\ DoneWith(p, t, <<>>) /\ t \in Head(todo[p]).ts
      /\ Schedule(p, {t}, Always(TapeJob(ip[p])))
  BY DEF TapeStep, RunTape, Doing, At
<1>b. /\ TypeInv /\ InOrder(p) /\ ListOK(p) /\ TapeType /\ QueueType
      /\ ip[p] \in 1 .. Len(prog) /\ ip[p] \in Nat /\ ProgOK'
      /\ UNCHANGED <<wpc, job>>
  BY <1>a, WithinOperation
<1> PICK k \in 1 .. Len(prog) : k = ip[p]
  BY <1>b
<1>c. /\ Courses(p, k) /\ Courses(p, k)'
      /\ Outstanding(k)' = Outstanding(k) /\ Outstanding(k + 1)' = Outstanding(k + 1)
      /\ TapesAt(k)' = TapesAt(k)
  BY <1>a, WithinOperation
<1>d. t \in Thread /\ k \in Nat \ {0}
  BY <1>b DEF Helper
<1>e. TapeJob(k) \in Job /\ Always(TapeJob(k)) \in [Thread -> Job]
      /\ Append(<<>>, TapeJob(k)) = <<TapeJob(k)>>
      /\ Always(TapeJob(k))[t] = TapeJob(k)
  BY <1>d, TapeJobs, AlwaysType, ShortQueues DEF Always
<1> PICK S \in SUBSET Helper : Starting(p, k, S)
  BY <1>a, <1>b, ListAt
<1> PICK T : T = Outstanding(k)
  OBVIOUS
<1> PICK ts \in SUBSET Helper : ts = prog[k].ts
  BY <1>b, OperationSteps
<1>1. /\ TapesAt(k) /\ S \subseteq ts
      /\ Tail(todo[p]) = <<>> /\ Head(todo[p]) = Step("sched", S, 0)
  BY <1>b, HeadsAt DEF Starting
<1>2. t \in S /\ prog'[k] = prog[k] /\ prog[k].op = "tapes" /\ ts \cap T = {}
  BY <1>1, <1>a DEF Step, TapesAt, Free
<1> PICK U : U = T \cup (ts \ S)
  OBVIOUS
<1> PICK Z : Z = {}
  OBVIOUS
<1>3. Course(p, Z, U) /\ t \notin U
  <2>1. Course(p, {}, Outstanding(k) \cup (prog[k].ts \ S))
    BY <1>c DEF Courses
  <2>2. Course(p, Z, U)
    BY <2>1
  <2>3. QED BY <1>1, <1>2, <2>2
<1>4. Course(p, Z, U \cup {t})'
  <2>1. /\ S \ {t} = {} => todo'[p] = <<>> \o Tail(todo[p])
        /\ S \ {t} # {} =>
              todo'[p] = (<<>> \o <<Step("sched", S \ {t}, 0)>>) \o Tail(todo[p])
    <3>1. DoneWith(p, t, <<>>) /\ TapeType
      BY <1>a, <1>b
    <3>2. \A d, R, m : Head(todo[p]) = Step(d, R, m) =>
              /\ R \ {t} = {} => todo'[p] = <<>> \o Tail(todo[p])
              /\ R \ {t} # {} =>
                    todo'[p] = (<<>> \o <<Step(d, R \ {t}, m)>>) \o Tail(todo[p])
      BY <3>1, DoneWithAt
    <3>3. QED BY <1>1, <3>2, Zenon
  <2> PICK V \in SUBSET Helper : V = S \ {t}
    OBVIOUS
  <2>2. Step("sched", V, 0) \in Todo
    BY <1>b, OperationSteps
  <2>3. <<>> \o <<>> = <<>> /\ (<<>> \o <<Step("sched", V, 0)>>) \o <<>> = <<Step("sched", V, 0)>>
    <3>1. <<>> \in Seq(Todo) /\ <<Step("sched", V, 0)>> \in Seq(Todo)
      BY <2>2
    <3>2. QED BY <3>1, ConcatEmptySeq
  <2>4. CASE V = {}
    <3>1. todo'[p] = <<>>
      BY <1>1, <2>1, <2>3, <2>4
    <3>2. Course(p, {}, Outstanding(k + 1))'
      BY <1>c, <3>1 DEF Courses
    <3>3. Outstanding(k + 1) = Outstanding(k) \cup ts
      BY <1>b, <1>2, OutstandingNext
    <3>4. Outstanding(k + 1) = U \cup {t}
      BY <1>1, <1>2, <2>4, <3>3
    <3>5. QED BY <1>c, <3>2, <3>4 DEF Course
  <2>5. CASE V # {}
    <3>1. todo'[p] = <<Step("sched", V, 0)>>
      BY <1>1, <2>1, <2>3, <2>5
    <3>2. Starting(p, k, V)'
      BY <1>1, <1>2, <1>c, <2>5, <3>1 DEF Starting
    <3>3. Course(p, {}, Outstanding(k) \cup (prog[k].ts \ V))'
      BY <1>c, <3>2 DEF Courses
    <3>4. Outstanding(k) \cup (prog[k].ts \ V) = U \cup {t}
      BY <1>1, <1>2
    <3>5. QED BY <1>2, <1>c, <3>3, <3>4 DEF Course
  <2>6. QED BY <2>4, <2>5
<1>5. ASSUME NEW u \in Helper
      PROVE  /\ u \in Z => Flight(p, u, GivenSlice(ip[p], u))'
             /\ u \in U \cup {t} => \E i \in Nat \ {0} : Flight(p, u, TapeJob(i))'
             /\ u \notin Z \cup (U \cup {t}) => Idle(p, u)'
  <2>a. u \in Thread
    BY DEF Helper
  <2>1. /\ u \in Z => Flight(p, u, GivenSlice(ip[p], u))
        /\ u \in U => \E i \in Nat \ {0} : Flight(p, u, TapeJob(i))
        /\ u \notin Z \cup U => Idle(p, u)
    BY <1>3, <1>a, <1>b, CourseHas
  <2>b. /\ out'[p][u] = out[p][u]
        /\ u = t => in'[p][u] = Append(in[p][u], Always(TapeJob(k))[u])
        /\ u # t => in'[p][u] = in[p][u]
    BY <1>a, <1>b, <1>e, <2>a, ScheduleAt
  <2>2. CASE u = t
    <3>1. Idle(p, u)
      BY <1>3, <2>1, <2>2
    <3>2. in'[p][u] = <<TapeJob(k)>>
      BY <1>e, <2>2, <2>b, <3>1 DEF Idle, Standing
    <3>3. Flight(p, u, TapeJob(k))'
      BY <1>b, <1>a, <2>b, <3>1, <3>2 DEF Flight, Idle, Standing
    <3>4. QED BY <1>d, <2>2, <3>3
  <2>3. CASE u # t
    <3>1. Unmoved(p, u)
      BY <1>b, <2>b, <2>3 DEF Unmoved
    <3>2. (\A j : Flight(p, u, j)' = Flight(p, u, j)) /\ Idle(p, u)' = Idle(p, u)
      BY <2>a, <3>1, UnmovedStays
    <3>3. QED BY <2>1, <2>3, <3>2
  <2>4. QED BY <2>2, <2>3
<1>6. QED
  <2> PICK V : V = U \cup {t}
    OBVIOUS
  <2>1. QED BY <1>4, <1>5, <1>a, <1>b, CourseGives

\* A tape joined: one thread fewer has one, and it is idle.
LEMMA JoinTapeOrder ==
    ASSUME OrderInv, NEW p \in Party, NEW t \in Helper, JoinTape(p, t)
    PROVE  ProgOK' /\ \A q \in Party : InOrder(q)'
<1>a. TapeStep(p) /\ UNCHANGED <<prog, over, ip, available>>
      /\ todo[p] # <<>> /\ Head(todo[p]).do = "join"
      /\ Result(p, t) /\ DoneWith(p, t, <<>>) /\ t \in Head(todo[p]).ts
  BY DEF TapeStep, JoinTape, Doing, At
<1>b. /\ TypeInv /\ InOrder(p) /\ ListOK(p) /\ TapeType /\ QueueType
      /\ ip[p] \in 1 .. Len(prog) /\ ProgOK'
      /\ UNCHANGED <<wpc, job>>
  BY <1>a, WithinOperation
<1> PICK k \in 1 .. Len(prog) : k = ip[p]
  BY <1>b
<1>c. /\ Courses(p, k) /\ Courses(p, k)'
      /\ Outstanding(k + 1)' = Outstanding(k + 1)
  BY <1>a, WithinOperation
<1>d. t \in Thread
  BY DEF Helper
<1>e. Joining(p, k)
  BY <1>a, <1>b, ListAt
<1>f. PICK ts \in SUBSET Helper : ts = prog[k].ts
  BY <1>b, OperationSteps
<1> PICK T : T = Outstanding(k)
  OBVIOUS
<1> PICK Z : Z = {}
  OBVIOUS
<1>1. /\ JoinAt(k) /\ Tail(todo[p]) = <<>> /\ Head(todo[p]) = Step("join", ts, 0)
  <2>1. {} \in SUBSET Helper
    OBVIOUS
  <2>2. QED BY <1>b, <1>e, <1>f, <2>1, HeadsAt DEF Joining
<1>2. t \in ts /\ ts = {t} /\ t \in T /\ prog[k].op = "join"
  <2>1. t \in ts
    BY <1>1, <1>a DEF Step
  <2>2. QED BY <1>1, <1>f, <2>1 DEF JoinAt
<1>3. Course(p, Z, T)
  BY <1>c, <1>e DEF Courses
<1>4. Course(p, Z, T \ {t})'
  <2>1. ts \ {t} = {} => todo'[p] = <<>> \o Tail(todo[p])
    <3>1. DoneWith(p, t, <<>>) /\ TapeType
      BY <1>a, <1>b
    <3>2. \A d, R, m : Head(todo[p]) = Step(d, R, m) =>
              /\ R \ {t} = {} => todo'[p] = <<>> \o Tail(todo[p])
              /\ R \ {t} # {} =>
                    todo'[p] = (<<>> \o <<Step(d, R \ {t}, m)>>) \o Tail(todo[p])
      BY <3>1, DoneWithAt
    <3>3. QED BY <1>1, <3>2, Zenon
  <2>2. todo'[p] = <<>>
    <3>1. <<>> \o <<>> = <<>>
      OBVIOUS
    <3>2. QED BY <1>1, <1>2, <2>1, <3>1
  <2>3. Course(p, {}, Outstanding(k + 1))'
    BY <1>c, <2>2 DEF Courses
  <2>4. Outstanding(k + 1) = T \ {t}
    BY <1>b, <1>2, <1>f, OutstandingNext
  <2>5. QED BY <1>c, <2>3, <2>4 DEF Course
<1>5. ASSUME NEW u \in Helper
      PROVE  /\ u \in Z => Flight(p, u, GivenSlice(ip[p], u))'
             /\ u \in T \ {t} => \E i \in Nat \ {0} : Flight(p, u, TapeJob(i))'
             /\ u \notin Z \cup (T \ {t}) => Idle(p, u)'
  <2>a. u \in Thread
    BY DEF Helper
  <2>1. /\ u \in Z => Flight(p, u, GivenSlice(ip[p], u))
        /\ u \in T => \E i \in Nat \ {0} : Flight(p, u, TapeJob(i))
        /\ u \notin Z \cup T => Idle(p, u)
    BY <1>3, <1>a, <1>b, CourseHas
  <2>2. CASE u = t
    <3>1. PICK j : Flight(p, u, j)
      BY <1>2, <2>1, <2>2
    <3>2. out[p][u] # <<>> /\ out'[p][u] = Tail(out[p][u]) /\ in'[p][u] = in[p][u]
      BY <1>a, <1>b, <1>d, <2>2, ResultAt
    <3>3. wpc[p][u] = "loop" /\ in[p][u] = <<>> /\ out[p][u] = <<j>>
      BY <2>a, <3>1, <3>2, AnswerThere
    <3>4. Tail(<<j>>) = <<>>
      BY ShortQueues
    <3>5. Idle(p, u)'
      BY <1>b, <3>2, <3>3, <3>4 DEF Idle, Standing
    <3>6. QED BY <2>2, <3>5
  <2>3. CASE u # t
    <3>1. Unmoved(p, u)
      BY <1>a, <1>b, <1>d, <2>a, <2>3, ResultAt DEF Unmoved
    <3>2. (\A j : Flight(p, u, j)' = Flight(p, u, j)) /\ Idle(p, u)' = Idle(p, u)
      BY <2>a, <3>1, UnmovedStays
    <3>3. QED BY <2>1, <2>3, <3>2
  <2>4. QED BY <2>2, <2>3
<1>6. QED
  <2> PICK V : V = T \ {t}
    OBVIOUS
  <2>1. QED BY <1>4, <1>5, <1>a, <1>b, CourseGives

\* Where helpers with a tape are in flight and the others idle, those found
\* available are the others.
LEMMA AvailableFree ==
    ASSUME OrderInv, NEW p \in Party, TapeStep(p), NEW k \in 1 .. Len(prog),
           Course(p, {}, Outstanding(k))
    PROVE  /\ FindAvailable(p) = Free(k)
           /\ \A t \in Free(k) : Idle(p, t)
<1>a. TypeInv /\ InOrder(p) /\ CountInv
  BY DEF OrderInv, CountInv
<1>b. PICK T : T = Outstanding(k)
  OBVIOUS
<1>c. PICK Z : Z = {}
  OBVIOUS
<1>1. ASSUME NEW t \in Helper
      PROVE  /\ t \in T => \E i \in Nat \ {0} : Flight(p, t, TapeJob(i))
             /\ t \notin T => Idle(p, t)
  <2>1. Course(p, Z, T)
    BY <1>b, <1>c
  <2>2. /\ t \in T => \E i \in Nat \ {0} : Flight(p, t, TapeJob(i))
        /\ t \notin Z \cup T => Idle(p, t)
    BY <1>a, <2>1, CourseHas
  <2>3. QED BY <1>c, <2>2
<1>2. ASSUME NEW t \in Helper PROVE left[p][t] = 0 <=> t \notin T
  <2>1. t \in Thread
    BY DEF Helper
  <2>2. Idle(p, t) \/ \E j : Flight(p, t, j)
    BY <1>1
  <2>3. left[p][t] = 0 <=> Idle(p, t)
    BY <1>a, <2>2, AvailableIdle
  <2>4. t \in T => ~Idle(p, t)
    BY <1>1, <2>1, FlightNotIdle
  <2>5. QED BY <1>1, <2>3, <2>4
<1>3. FindAvailable(p) = Helper \ T
  BY <1>2 DEF FindAvailable
<1>4. QED BY <1>1, <1>3, <1>b DEF Free

\* A distribute gives the threads without a tape their slices.
LEMMA DistributeOrder ==
    ASSUME OrderInv, NEW p \in Party, Distribute(p)
    PROVE  ProgOK' /\ \A q \in Party : InOrder(q)'
<1>a. TapeStep(p) /\ UNCHANGED <<prog, over, ip>>
      /\ todo[p] # <<>> /\ Head(todo[p]).do \in {"dist", "inner"}
  BY DEF TapeStep, Distribute, Doing
<1>b. /\ TypeInv /\ InOrder(p) /\ ListOK(p) /\ TapeType /\ QueueType
      /\ ip[p] \in 1 .. Len(prog) /\ ip[p] \in Nat /\ ProgOK'
      /\ UNCHANGED <<wpc, job>>
  BY <1>a, WithinOperation
<1> PICK k \in 1 .. Len(prog) : k = ip[p]
  BY <1>b
<1>c. /\ Courses(p, k) /\ Courses(p, k)'
      /\ Outstanding(k)' = Outstanding(k) /\ Free(k)' = Free(k)
      /\ DistAt(k)' = DistAt(k) /\ OwnSliceOf(k)' = OwnSliceOf(k)
      /\ \A t : GivenSlice(k, t)' = GivenSlice(k, t)
      /\ \A S : Filling(k, S)' = Filling(k, S) /\ Part(k, S)' = Part(k, S)
  BY <1>a, WithinOperation
<1>d. RunsMain(p, 0) /\ HistoryType
  BY <1>a, <1>b, TapeFrame DEF TypeInv
<1>e. Doing(p, "dist") <=> Head(todo[p]).do = "dist"
  BY <1>a, <1>d DEF Doing
<1>f. PICK av \in SUBSET Helper, js \in [Thread -> Job], own \in Job, id \in Nat, n \in Nat :
         Given(p, av, js, own, id, n)
  BY <1>b, <1>d, DistributeGives
<1>g. /\ id = (IF Doing(p, "dist") THEN ip[p] ELSE 0)
      /\ n = Head(todo[p]).n /\ av = FindAvailable(p)
      /\ own = SliceJob(id, Cardinality(av) * NPerThread(n, Cardinality(av)), n)
      /\ \A t \in Thread : js[t] = SliceOf(id, n, Cardinality(av), Rank(av, t))
      /\ Schedule(p, av, js) /\ available'[p] = av
  BY <1>f DEF Given
<1>h. todo'[p] = (IF Doing(p, "dist") /\ prog[ip[p]].nest
                  THEN <<Step("inner", {}, n)>> ELSE <<>>)
                 \o <<OwnStep(own)>> \o Tail(todo[p])
  BY <1>f DEF Given
<1>i. OwnStep(own) \in Todo /\ Step("inner", {}, n) \in Todo
  BY StepType DEF OwnStep, Todo
<1>j. PICK T : T = Outstanding(k)
  OBVIOUS
<1>1. Course(p, {}, Outstanding(k))
  <2>1. CASE Head(todo[p]).do = "dist"
    <3>1. PICK S \in SUBSET Helper : Beginning(p, k, S)
      BY <1>a, <1>b, <2>1, ListAt
    <3>2. QED BY <1>c, <3>1 DEF Courses
  <2>2. CASE Head(todo[p]).do = "inner"
    <3>1. Nesting(p, k, Step("inner", {}, prog[k].n))
      BY <1>a, <1>b, <2>2, ListAt
    <3>2. Step("inner", {}, prog[k].n) \in Todo
      BY <1>b, OperationSteps
    <3>3. QED BY <1>c, <3>1, <3>2 DEF Courses
  <2>3. QED BY <1>a, <2>1, <2>2
<1>2. av = Free(k) /\ \A t \in Free(k) : Idle(p, t)
  BY <1>a, <1>1, <1>g, AvailableFree
<1>3. /\ Course(p, av, T)'
      /\ \A t \in av : js[t] = GivenSlice(k, t)
  <2>1. CASE Head(todo[p]).do = "dist"
    <3>1. PICK S \in SUBSET Helper : Beginning(p, k, S)
      BY <1>a, <1>b, <2>1, ListAt
    <3>2. /\ Part(k, S) /\ prog[k].n # 0
          /\ Tail(todo[p]) = Filling(k, S) /\ Head(todo[p]) = Step("dist", {}, prog[k].n)
          /\ Filling(k, S) \in Seq(Todo)
      BY <1>b, <3>1, HeadsAt, OperationSteps DEF Beginning
    <3>3. n = prog[k].n /\ id = k
      BY <1>e, <1>g, <2>1, <3>2 DEF Step
    <3>4. own = OwnSliceOf(k)
      BY <1>2, <1>g, <3>3 DEF OwnSliceOf
    <3>5. \A t \in av : js[t] = GivenSlice(k, t)
      <4>1. \A t \in av : t \in Thread
        BY DEF Helper
      <4>2. QED BY <1>2, <1>g, <3>3, <4>1 DEF GivenSlice
    <3>6. CASE prog[k].nest
      <4>1. DistAt(k) /\ S = {} /\ Free(k) = {} /\ Filling(k, S) = <<>>
        BY <3>2, <3>6 DEF Part, TapesAt, DistAt, Filling
      <4>2. todo'[p] = (<<Step("inner", {}, n)>> \o <<OwnStep(own)>>) \o <<>>
        BY <1>e, <1>h, <2>1, <3>2, <3>6, <4>1
      <4>3. todo'[p] = <<Step("inner", {}, n)>> \o <<OwnStep(own)>>
        <5>1. <<Step("inner", {}, n)>> \o <<OwnStep(own)>> \in Seq(Todo)
          BY <1>i
        <5>2. QED BY <4>2, <5>1, ConcatEmptySeq
      <4>4. Nesting(p, k, Step("inner", {}, n))'
        BY <1>a, <1>c, <1>g, <1>2, <3>3, <3>4, <3>6, <4>1, <4>3 DEF Nesting
      <4>5. Course(p, {}, Outstanding(k))'
        BY <1>c, <1>i, <4>4 DEF Courses
      <4>6. Course(p, av, T)'
        BY <1>2, <1>c, <1>j, <4>1, <4>5 DEF Course
      <4>7. QED BY <3>5, <4>6
    <3>7. CASE ~prog[k].nest
      <4>1. todo'[p] = (<<>> \o <<OwnStep(own)>>) \o Filling(k, S)
        BY <1>h, <3>2, <3>7
      <4>2. todo'[p] = <<OwnStep(OwnSliceOf(k))>> \o Filling(k, S)
        <5>1. <<OwnStep(own)>> \in Seq(Todo)
          BY <1>i
        <5>2. <<>> \o <<OwnStep(own)>> = <<OwnStep(own)>>
          BY <5>1, ConcatEmptySeq
        <5>3. QED BY <3>4, <4>1, <5>2
      <4>3. Working(p, k, S)'
        BY <1>a, <1>c, <1>g, <1>2, <3>2, <4>2 DEF Working
      <4>4. Course(p, Free(k), Outstanding(k))'
        BY <1>c, <4>3 DEF Courses
      <4>5. Course(p, av, T)'
        BY <1>2, <1>c, <1>j, <4>4 DEF Course
      <4>6. QED BY <3>5, <4>5
    <3>8. QED BY <3>6, <3>7
  <2>2. CASE Head(todo[p]).do = "inner"
    <3>a. Step("inner", {}, prog[k].n) \in Todo /\ OwnStep(SliceJob(0, 0, prog[k].n)) \in Todo
          /\ OwnStep(OwnSliceOf(k)) \in Todo
      BY <1>b, OperationSteps
    <3>1. Nesting(p, k, Step("inner", {}, prog[k].n))
      BY <1>a, <1>b, <2>2, ListAt
    <3>2. /\ DistAt(k) /\ prog[k].nest
          /\ Tail(todo[p]) = <<OwnStep(OwnSliceOf(k))>>
          /\ Head(todo[p]) = Step("inner", {}, prog[k].n)
      <4>1. {} \in SUBSET Helper
        OBVIOUS
      <4>2. QED BY <1>b, <3>1, <3>a, <4>1, HeadsAt DEF Nesting
    <3>3. n = prog[k].n /\ id = 0 /\ ~Doing(p, "dist")
      BY <1>e, <1>g, <2>2, <3>2 DEF Step
    <3>4. av = {}
      BY <1>2, <3>2 DEF DistAt
    <3>5. Cardinality(av) * NPerThread(n, Cardinality(av)) = 0
      <4>1. Cardinality(av) = 0
        BY <3>4, FS_EmptySet
      <4>2. NPerThread(n, Cardinality(av)) \in Nat
        <5>1. n \in Nat /\ 0 \in Nat
          BY <1>f
        <5>2. NPerThread(n, 0) \in Nat
          BY <5>1, NPerThreadType, Zenon
        <5>3. QED BY <4>1, <5>2
      <4>3. \A x \in Nat : 0 * x = 0
        OBVIOUS
      <4>4. QED BY <4>1, <4>2, <4>3
    <3>6. own = SliceJob(0, 0, prog[k].n)
      BY <1>g, <3>3, <3>5
    <3>7. todo'[p] = (<<>> \o <<OwnStep(own)>>) \o <<OwnStep(OwnSliceOf(k))>>
      BY <1>h, <3>2, <3>3
    <3>8. todo'[p] = <<OwnStep(own)>> \o <<OwnStep(OwnSliceOf(k))>>
      <4>1. <<OwnStep(own)>> \in Seq(Todo)
        BY <1>i
      <4>2. <<>> \o <<OwnStep(own)>> = <<OwnStep(own)>>
        BY <4>1, ConcatEmptySeq
      <4>3. QED BY <3>7, <4>2
    <3>9. Nesting(p, k, OwnStep(own))'
      BY <1>a, <1>c, <1>g, <3>2, <3>4, <3>6, <3>8 DEF Nesting
    <3>10. Course(p, {}, Outstanding(k))'
      BY <1>c, <1>i, <3>9 DEF Courses
    <3>11. Course(p, av, T)'
      BY <1>c, <1>j, <3>4, <3>10 DEF Course
    <3>12. QED BY <3>4, <3>11
  <2>3. QED BY <1>a, <2>1, <2>2
<1>4. ASSUME NEW u \in Helper
      PROVE  /\ u \in av => Flight(p, u, GivenSlice(ip[p], u))'
             /\ u \in T => \E i \in Nat \ {0} : Flight(p, u, TapeJob(i))'
             /\ u \notin av \cup T => Idle(p, u)'
  <2>a. u \in Thread
    BY DEF Helper
  <2>b. /\ out'[p][u] = out[p][u]
        /\ u \in av => in'[p][u] = Append(in[p][u], js[u])
        /\ u \notin av => in'[p][u] = in[p][u]
    BY <1>b, <1>f, <1>g, <2>a, ScheduleAt
  <2>1. CASE u \in av
    <3>1. Idle(p, u)
      BY <1>2, <2>1
    <3>2. PICK j \in Job : j = js[u]
      BY <2>a, <1>f
    <3>3. in'[p][u] = <<j>>
      BY <2>1, <2>b, <3>1, <3>2, ShortQueues DEF Idle, Standing
    <3>4. Flight(p, u, j)'
      BY <1>b, <2>b, <3>1, <3>3 DEF Flight, Idle, Standing
    <3>5. GivenSlice(ip[p], u)' = j
      BY <1>a, <1>c, <1>3, <2>1, <3>2
    <3>6. Flight(p, u, GivenSlice(ip[p], u))'
      BY <3>4, <3>5 DEF Flight, Standing
    <3>7. u \notin T
      BY <1>2, <1>j, <2>1 DEF Free
    <3>8. QED BY <2>1, <3>6, <3>7
  <2>2. CASE u \notin av
    <3>1. Unmoved(p, u)
      BY <1>b, <2>2, <2>b DEF Unmoved
    <3>2. (\A j : Flight(p, u, j)' = Flight(p, u, j)) /\ Idle(p, u)' = Idle(p, u)
      BY <2>a, <3>1, UnmovedStays
    <3>3. PICK Z : Z = {}
      OBVIOUS
    <3>4. Course(p, Z, T)
      BY <1>1, <1>j, <3>3
    <3>5. /\ u \in T => \E i \in Nat \ {0} : Flight(p, u, TapeJob(i))
          /\ u \notin Z \cup T => Idle(p, u)
      BY <1>a, <1>b, <3>4, CourseHas
    <3>6. QED BY <2>2, <3>2, <3>3, <3>5
  <2>3. QED BY <2>1, <2>2
<1>5. QED BY <1>3, <1>4, <1>a, <1>b, CourseGives

\* The steps of an operation just begun.
Opens ==
    \A p \in Party : \A k \in 1 .. Len(prog) :
        /\ ip[p] = k /\ todo[p] = Steps(prog[k])
        /\ TapesAt(k) \/ JoinAt(k) \/ DistAt(k)
        => Course(p, {}, Outstanding(k))

\* Nobody has been given anything yet.
LEMMA OpensWell ==
    TapeType => Opens
<1> SUFFICES ASSUME TapeType, NEW p \in Party, NEW k \in 1 .. Len(prog), ip[p] = k,
                    todo[p] = Steps(prog[k]), TapesAt(k) \/ JoinAt(k) \/ DistAt(k)
             PROVE  Course(p, {}, Outstanding(k))
  BY DEF Opens
<1>a. Courses(p, k)
  BY CourseAt DEF AllCourses
<1>b. {} \in SUBSET Helper
  OBVIOUS
<1>c. /\ prog[k].ts \in SUBSET Helper
      /\ Step("dist", {}, prog[k].n) \in Todo
      /\ Filling(k, prog[k].ts) \in Seq(Todo)
  BY <1>b, OperationSteps
<1>1. CASE TapesAt(k)
  <2>1. prog[k].op = "tapes" /\ prog[k].ts # {}
    BY <1>1 DEF TapesAt
  <2>2. todo[p] = Central(prog[k].n) \o <<Step("fill", prog[k].ts, prog[k].n),
                                          Step("sched", prog[k].ts, 0)>>
    BY <2>1 DEF Steps
  <2>3. Part(k, prog[k].ts)
    BY <1>1, <2>1 DEF Part
  <2>4. todo[p] = Central(prog[k].n) \o Filling(k, prog[k].ts)
    BY <2>1, <2>2 DEF Filling
  <2>5. CASE prog[k].n = 0
    <3>1. todo[p] = Filling(k, prog[k].ts)
      <4>1. Central(prog[k].n) = <<>>
        BY <2>5 DEF Central
      <4>2. QED BY <1>c, <2>4, <4>1, ConcatEmptySeq
    <3>2. Transferring(p, k, prog[k].ts)
      BY <1>1, <2>3, <3>1 DEF Transferring
    <3>3. QED BY <1>a, <1>c, <3>2 DEF Courses
  <2>6. CASE prog[k].n # 0
    <3>1. todo[p] = <<Step("dist", {}, prog[k].n)>> \o Filling(k, prog[k].ts)
      BY <2>4, <2>6 DEF Central
    <3>2. Beginning(p, k, prog[k].ts)
      BY <2>3, <2>6, <3>1 DEF Beginning
    <3>3. QED BY <1>a, <1>c, <3>2 DEF Courses
  <2>7. QED BY <2>5, <2>6
<1>2. CASE JoinAt(k)
  <2>1. todo[p] = <<Step("join", prog[k].ts, 0)>>
    BY <1>2 DEF Steps, JoinAt
  <2>2. Joining(p, k)
    BY <1>2, <2>1 DEF Joining
  <2>3. QED BY <1>a, <2>2 DEF Courses
<1>3. CASE DistAt(k)
  <2>1. prog[k].op = "dist" /\ Filling(k, {}) = <<>> /\ prog[k].n # 0 /\ Part(k, {})
    BY <1>3 DEF DistAt, Filling, Part
  <2>2. todo[p] = <<Step("dist", {}, prog[k].n)>> \o Filling(k, {})
    <3>1. todo[p] = <<Step("dist", {}, prog[k].n)>>
      BY <2>1 DEF Steps
    <3>2. <<Step("dist", {}, prog[k].n)>> \in Seq(Todo)
      BY <1>c
    <3>3. QED BY <2>1, <3>1, <3>2, ConcatEmptySeq
  <2>3. Beginning(p, k, {})
    BY <2>1, <2>2 DEF Beginning
  <2>4. QED BY <1>a, <1>b, <2>3 DEF Courses
<1>4. QED BY <1>1, <1>2, <1>3

\* What the compiler allows next is a tape, a join or a distribute as they may be.
LEMMA AllowedNext ==
    ASSUME ~Nests', TapeType, NEW o \in Allowed, prog' = Append(prog, o),
           NEW k, k = Len(prog) + 1
    PROVE  prog'[k] = o /\ (TapesAt(k)' \/ JoinAt(k)' \/ DistAt(k)')
<1> PICK busy : busy = Outstanding(k)
  OBVIOUS
<1>a. o \in Op /\ prog \in Seq(Op) /\ Len(prog) \in Nat
  BY AllowedType DEF TapeType
<1>1. prog'[k] = o
  BY <1>a, AppendProperties
<1>2. Outstanding(k)' = busy
  <2>1. k - 1 \in 0 .. Len(prog) /\ (k - 1) + 1 = k
    BY <1>a
  <2>2. Outstanding(k)' = Outstanding(k)
    <3>1. \A i \in 1 .. k - 1 : prog'[i] = prog[i]
      BY <1>a, AppendProperties
    <3>2. \A i \in 1 .. k - 1 : \A i2 \in i + 1 .. k - 1 : prog'[i2] = prog[i2]
      BY <1>a, AppendProperties
    <3>3. QED BY <3>1, <3>2 DEF Outstanding
  <2>3. QED BY <2>2
<1>3. Free(k)' = Helper \ busy
  BY <1>2 DEF Free
<1>4. busy \subseteq Helper
  BY DEF Outstanding
<1>b. PICK nests : nests = (IF Nested \/ busy = Helper THEN BOOLEAN ELSE {FALSE})
  OBVIOUS
<1>c. o.nest => busy = Helper
  <2>1. k \in 1 .. Len(prog')
    BY <1>a, AppendProperties
  <2>2. prog'[k].nest => Outstanding(k)' = Helper
    BY <2>1 DEF Nests
  <2>3. QED BY <1>1, <1>2, <2>2
<1>5. \/ o \in [op : {"tapes"}, ts : (SUBSET (Helper \ busy)) \ {{}}, n : {0},
                nest : {FALSE}]
      \/ o \in [op : {"tapes"}, ts : (SUBSET (Helper \ busy)) \ {{}}, n : ItemCount,
                nest : nests]
      \/ o \in [op : {"join"}, ts : {{t} : t \in busy}, n : {0}, nest : {FALSE}]
      \/ o \in [op : {"dist"}, ts : {{}}, n : ItemCount, nest : nests]
  BY <1>b DEF Allowed
<1>6. \/ /\ o.op = "tapes" /\ o.ts # {} /\ o.ts \subseteq Helper \ busy
      \/ o.op = "join" /\ o.n = 0 /\ o.nest = FALSE /\ (\E t \in busy : o.ts = {t})
      \/ o.op = "dist" /\ o.ts = {} /\ o.n \in ItemCount
  BY <1>5
<1>7. CASE o.op = "tapes" /\ o.ts # {} /\ o.ts \subseteq Helper \ busy
  <2>1. busy # Helper
    BY <1>7
  <2>2. o.nest = FALSE
    BY <1>a, <1>c, <2>1 DEF Op
  <2>3. TapesAt(k)'
    BY <1>1, <1>3, <1>7, <2>2 DEF TapesAt
  <2>4. QED BY <1>1, <2>3
<1>8. CASE o.op = "join" /\ o.n = 0 /\ o.nest = FALSE /\ (\E t \in busy : o.ts = {t})
  BY <1>1, <1>2, <1>8 DEF JoinAt
<1>9. CASE o.op = "dist" /\ o.ts = {} /\ o.n \in ItemCount
  <2>1. o.n # 0
    BY <1>9, ItemCountAssumption
  <2>2. o.nest => Free(k)' = {}
    BY <1>c, <1>3
  <2>3. QED BY <1>1, <1>9, <2>1, <2>2 DEF DistAt
<1>10. QED BY <1>6, <1>7, <1>8, <1>9

\* Between operations, those with a tape have one from an operation before.
LEMMA BetweenOperations ==
    ASSUME NEW p \in Party, ListOK(p), todo[p] = <<>>
    PROVE  Course(p, {}, Outstanding(ip[p] + 1))
  BY DEF Course, Sliced, Taped

\* The next operation begins with nobody given anything.
LEMMA NextOpOrder ==
    ASSUME ~Nests', OrderInv, NEW p \in Party, NextOp(p)
    PROVE  ProgOK' /\ \A q \in Party : InOrder(q)'
<1>a. TapeStep(p) /\ UNCHANGED <<over, available, in, out, wpc, job>>
      /\ todo[p] = <<>>
  BY DEF TapeStep, NextOp, queueVars, workerVars
<1>b. /\ TypeInv /\ InOrder(p) /\ ListOK(p) /\ TapeType /\ ProgOK
      /\ ip[p] \in Nat /\ ip[p] <= Len(prog) /\ Len(prog) \in Nat
  BY DEF OrderInv, CountInv, InOrder, TypeInv, ListOK, TapeType
<1>c. Grows
  BY <1>a, <1>b, TapeFrame
<1>d. \A u \in Helper : Unmoved(p, u)
  BY <1>a DEF Unmoved
<1>e. PICK k \in Nat \ {0} : k = ip[p] + 1
  BY <1>b
<1>f. ip'[p] = k
  BY <1>b, <1>e DEF NextOp, TapeType
<1>g. \A i \in 1 .. Len(prog) :
         /\ prog'[i] = prog[i]
         /\ TapesAt(i)' = TapesAt(i) /\ JoinAt(i)' = JoinAt(i) /\ DistAt(i)' = DistAt(i)
  BY <1>b, <1>c, GrownProgram, GrownOperations
<1>1. Outstanding(k)' = Outstanding(k)
  <2>1. \A i \in 1 .. k - 1 : prog'[i] = prog[i]
    BY <1>b, <1>e, <1>g
  <2>2. \A i \in 1 .. k - 1 : \A i2 \in i + 1 .. k - 1 : prog'[i2] = prog[i2]
    BY <1>b, <1>e, <1>g
  <2>3. QED BY <2>1, <2>2 DEF Outstanding
<1>2. /\ k \in 1 .. Len(prog') /\ todo'[p] = Steps(prog'[k])
      /\ TapesAt(k)' \/ JoinAt(k)' \/ DistAt(k)'
      /\ ProgOK'
  <2>1. CASE ip[p] < Len(prog) /\ todo' = [todo EXCEPT ![p] = Steps(prog[ip[p] + 1])]
             /\ prog' = prog
    <3>1. k \in 1 .. Len(prog)
      BY <1>b, <1>e, <2>1
    <3>2. todo'[p] = Steps(prog'[k])
      BY <1>b, <1>e, <2>1 DEF TapeType
    <3>3. TapesAt(k)' \/ JoinAt(k)' \/ DistAt(k)'
      BY <1>b, <1>g, <3>1 DEF ProgOK
    <3>4. ProgOK'
      <4>1. Outstanding(Len(prog) + 1)' = Outstanding(Len(prog) + 1)
        BY <2>1 DEF Outstanding
      <4>2. QED BY <1>a, <1>b, <1>g, <2>1, <4>1 DEF ProgOK
    <3>5. QED BY <2>1, <3>1, <3>2, <3>3, <3>4
  <2>2. CASE ip[p] = Len(prog) /\ ~over
             /\ \E o \in Allowed : prog' = Append(prog, o)
                                   /\ todo' = [todo EXCEPT ![p] = Steps(o)]
    <3>1. PICK o \in Allowed : prog' = Append(prog, o)
                               /\ todo' = [todo EXCEPT ![p] = Steps(o)]
      BY <2>2
    <3>2. k = Len(prog) + 1
      BY <1>e, <2>2
    <3>3. prog'[k] = o /\ (TapesAt(k)' \/ JoinAt(k)' \/ DistAt(k)')
      BY <1>b, <3>1, <3>2, AllowedNext
    <3>4. Len(prog') = Len(prog) + 1 /\ k \in 1 .. Len(prog')
      <4>1. o \in Op /\ prog \in Seq(Op)
        BY <1>b, AllowedType DEF TapeType
      <4>2. Len(prog') = Len(prog) + 1
        BY <3>1, <4>1, AppendProperties
      <4>3. QED BY <1>b, <3>2, <4>2
    <3>5. todo'[p] = Steps(prog'[k])
      BY <1>b, <3>1, <3>3 DEF TapeType
    <3>6. \A i \in 1 .. Len(prog') : TapesAt(i)' \/ JoinAt(i)' \/ DistAt(i)'
      <4>1. \A i \in 1 .. Len(prog') : i \in 1 .. Len(prog) \/ i = k
        BY <1>b, <3>2, <3>4
      <4>2. QED BY <1>b, <1>g, <3>3, <4>1 DEF ProgOK
    <3>7. ProgOK'
      BY <1>a, <2>2, <3>6 DEF ProgOK
    <3>8. QED BY <3>3, <3>4, <3>5, <3>7
  <2>3. QED BY <2>1, <2>2 DEF NextOp
<1>3. Course(p, {}, Outstanding(k))'
  <2>1. TapeType'
    BY <1>a, <1>b, TapeStepType DEF TypeInv
  <2>2. (TapeType => Opens)'
    BY OpensWell, PTL
  <2>3. Opens'
    BY <2>1, <2>2
  <2>4. QED BY <1>2, <1>f, <2>3 DEF Opens
<1>4. Course(p, {}, Outstanding(k))
  BY <1>a, <1>b, <1>e, BetweenOperations
<1>5. QED
  <2>a. PICK T : T = Outstanding(k)
    OBVIOUS
  <2>b. PICK Z : Z = {}
    OBVIOUS
  <2>1. Course(p, Z, T)
    BY <1>4, <2>a, <2>b
  <2>2. Course(p, Z, T)'
    BY <1>1, <1>3, <2>a, <2>b DEF Course
  <2>3. \A t \in Z : GivenSlice(ip[p], t)' = GivenSlice(ip[p], t)
    BY <2>b
  <2>4. QED BY <1>a, <1>2, <1>d, <2>1, <2>2, <2>3, CourseKeeps

\* The tape ends when all the tapes it started are joined.
LEMMA EndOfTapeOrder ==
    ASSUME OrderInv, NEW p \in Party, EndOfTape(p)
    PROVE  ProgOK' /\ \A q \in Party : InOrder(q)'
<1>1. TypeInv /\ ProgOK /\ \A q \in Party : InOrder(q)
  BY DEF OrderInv, CountInv
<1>2. UNCHANGED <<prog, ip, todo, available, in, out, wpc, job, mpc, mi, deleted, need, mains>>
      /\ over' = TRUE /\ ~over /\ Outstanding(Len(prog) + 1) = {}
  BY DEF EndOfTape, machineVars, queueVars, workerVars, historyVars
<1>3. Grows
  BY <1>2 DEF Grows
<1>4. ASSUME NEW q \in Party PROVE InOrder(q)'
  <2>1. \A u \in Thread : Unmoved(q, u)
    BY <1>2 DEF Unmoved
  <2>2. QED BY <1>1, <1>2, <1>3, <2>1, GrownOrder
<1>5. ProgOK'
  <2>1. \A k \in 1 .. Len(prog) :
           TapesAt(k)' = TapesAt(k) /\ JoinAt(k)' = JoinAt(k) /\ DistAt(k)' = DistAt(k)
    BY <1>1, <1>3, GrownOperations DEF TypeInv
  <2>2. Outstanding(Len(prog) + 1)' = {}
    BY <1>2 DEF Outstanding
  <2>3. QED BY <1>1, <1>2, <2>1, <2>2 DEF ProgOK
<1>6. QED BY <1>4, <1>5

\* So every step of the main tape keeps the order.
LEMMA TapeOrder ==
    ASSUME ~Nests', OrderInv, NEW p \in Party, TapeStep(p)
    PROVE  ProgOK' /\ \A q \in Party : InOrder(q)'
  BY NextOpOrder, EndOfTapeOrder, DistributeOrder, OwnSliceOrder, WrapUpOrder,
     FillBuffersOrder, RunTapeOrder, JoinTapeOrder DEF TapeStep

-----------------------------------------------------------------------------
(* The order holds in every state, and what follows from it.               *)

\* It holds before the machine does anything.
LEMMA InitOrder == Init => OrderInv
<1> SUFFICES ASSUME Init PROVE OrderInv
  OBVIOUS
<1>a. CountInv
  BY InitCount
<1>b. /\ prog = <<>> /\ Len(prog) = 0 /\ over = FALSE
      /\ \A p \in Party : /\ mpc[p] = "create" /\ deleted[p] = {} /\ ip[p] = 0
                          /\ todo[p] = <<>> /\ need[p] = 0 /\ mains[p] = 0
  BY DEF Init
<1>c. \A p \in Party, t \in Thread : wpc[p][t] = "unborn" /\ in[p][t] = <<>> /\ out[p][t] = <<>>
  BY DEF Init
<1>1. ProgOK
  BY <1>b DEF ProgOK
<1>2. ASSUME NEW p \in Party PROVE InOrder(p)
  <2>1. ListOK(p)
    BY <1>b DEF ListOK
  <2>2. Control(p)
    BY <1>b DEF Control, Fresh, Winding
  <2>3. ASSUME NEW t \in Thread PROVE Shape(p, t)
    <3>1. mpc[p] = "create" /\ ~Winding(p)
      BY <1>b DEF Winding
    <3>2. Unborn(p, t)
      BY <1>c DEF Unborn, Standing
    <3>3. QED BY <3>1, <3>2 DEF Shape
  <2>4. QED BY <2>1, <2>2, <2>3 DEF InOrder
<1>3. QED BY <1>a, <1>1, <1>2 DEF OrderInv

\* Every step keeps the count.
LEMMA NextCount == CountInv /\ [Next]_vars => CountInv'
<1> SUFFICES ASSUME CountInv, [Next]_vars PROVE CountInv'
  OBVIOUS
<1>1. CASE UNCHANGED vars
  <2>1. TypeInv'
    BY <1>1, NextType DEF CountInv
  <2>2. QED
    BY <1>1, <2>1 DEF vars, machineVars, queueVars, workerVars, CountInv,
       BornInCreate, Beyond, Held
<1>2. CASE Next
  BY <1>1, <1>2, MachineStepCount, TapeStepCount, WorkerStepCount DEF Next
<1>3. QED BY <1>1, <1>2

\* A step only adds to the program, so that a distribute that is not nested in
\* another afterwards was not before.
LEMMA NestsBefore ==
    ASSUME TypeInv, [Next]_vars
    PROVE  Nests => Nests'
<1>a. TapeType
  BY DEF TypeInv
<1>1. Grows
  <2>1. ASSUME NEW p \in Party, MachineStep(p) PROVE Grows
    BY <2>1 DEF MachineStep, CreateThreads, Synchronize, RunMainTape, JoinMainTape,
       StopThreads, SignOut, CollectUsage, JoinThread, tapeVars, Grows
  <2>2. ASSUME NEW p \in Party, TapeStep(p) PROVE Grows
    BY <2>2, TapeFrame
  <2>3. ASSUME NEW p \in Party, NEW t \in Thread, WorkerStep(p, t) PROVE Grows
    BY <2>3 DEF WorkerStep, Start, SetUp, Dispatch, FinishSlice, FinishTape,
       FinalChecks, WindDown, tapeVars, Grows
  <2>4. ASSUME UNCHANGED vars PROVE Grows
    BY <2>4 DEF vars, tapeVars, Grows
  <2>5. QED BY <2>1, <2>2, <2>3, <2>4 DEF Next
<1> SUFFICES ASSUME NEW k \in 1 .. Len(prog), prog[k].nest, Outstanding(k) # Helper
             PROVE  Nests'
  BY DEF Nests
<1>2. /\ k \in 1 .. Len(prog') /\ prog'[k] = prog[k]
      /\ Outstanding(k)' = Outstanding(k)
  BY <1>a, <1>1, GrownProgram
<1>3. Helper' = Helper
  BY DEF Helper, Thread
<1>4. QED BY <1>2, <1>3 DEF Nests

\* Every step keeps the order, unless a distribute is nested in another while
\* threads are available.
LEMMA NextOrder ==
    ASSUME ~Nests', OrderInv, [Next]_vars
    PROVE  OrderInv'
<1>a. CountInv /\ ProgOK /\ \A q \in Party : InOrder(q)
  BY DEF OrderInv
<1>b. CountInv'
  BY <1>a, NextCount
<1>1. CASE UNCHANGED vars
  <2>1. UNCHANGED <<prog, over, ip, todo, available>>
    BY <1>1 DEF vars, tapeVars
  <2>a. ProgOK' = ProgOK
    BY <2>1, TapeStays
  <2>2. ProgOK'
    BY <1>a, <2>a
  <2>3. ASSUME NEW q \in Party PROVE InOrder(q)'
    <3>1. \A u \in Thread : Unmoved(q, u)
      BY <1>1 DEF vars, queueVars, workerVars, Unmoved
    <3>2. UNCHANGED <<mpc, mi, deleted, need, mains>>
      BY <1>1 DEF vars, machineVars, historyVars
    <3>3. QED BY <1>a, <2>1, <3>1, <3>2, StaysInOrder
  <2>4. QED BY <1>b, <2>2, <2>3 DEF OrderInv
<1>2. ASSUME NEW p \in Party, MachineStep(p) PROVE OrderInv'
  BY <1>2, <1>b, MachineOrder DEF OrderInv
<1>3. ASSUME NEW p \in Party, TapeStep(p) PROVE OrderInv'
  BY <1>3, <1>b, TapeOrder DEF OrderInv
<1>4. ASSUME NEW p \in Party, NEW t \in Thread, WorkerStep(p, t) PROVE OrderInv'
  BY <1>4, <1>b, WorkerOrder DEF OrderInv
<1>5. QED BY <1>1, <1>2, <1>3, <1>4 DEF Next

\* While the main tape does something, the threads are as its list says.
LEMMA WhileDoing ==
    ASSUME OrderInv, NEW p \in Party, NEW d, Doing(p, d), NEW t \in Helper
    PROVE  /\ ip[p] \in 1 .. Len(prog) /\ todo[p] # <<>> /\ Head(todo[p]).do = d
           /\ ListOK(p) /\ TypeInv /\ ProgOK
           /\ t \in Sliced(p) => Flight(p, t, GivenSlice(ip[p], t))
           /\ t \in Taped(p) => \E i \in Nat \ {0} : Flight(p, t, TapeJob(i))
           /\ t \notin Sliced(p) \cup Taped(p) => Idle(p, t)
<1>1. TypeInv /\ ProgOK /\ InOrder(p) /\ ListOK(p)
  BY DEF OrderInv, CountInv, InOrder
<1>2. RunsMain(p, 0) /\ todo[p] # <<>> /\ Head(todo[p]).do = d
  BY DEF Doing
<1>3. HelperThread(p, t)
  BY <1>1, <1>2, MainRuns
<1>4. ip[p] \in 1 .. Len(prog)
  BY <1>1, <1>2 DEF ListOK
<1>5. QED BY <1>1, <1>2, <1>3, <1>4 DEF HelperThread

\* The answers match.
LEMMA OrderResults == OrderInv => ResultsMatch
<1> SUFFICES ASSUME OrderInv PROVE ResultsMatch
  OBVIOUS
<1>a. TypeInv /\ TapeType
  BY DEF OrderInv, CountInv, TypeInv
<1>1. ASSUME NEW p \in Party, NEW t \in Helper, Doing(p, "wrap"), At(p, t),
             out[p][t] # <<>>
      PROVE  Head(out[p][t]).kind = "slice" /\ Head(out[p][t]).prog \in {0, ip[p]}
  <2>1. /\ ip[p] \in 1 .. Len(prog) /\ todo[p] # <<>> /\ Head(todo[p]).do = "wrap"
        /\ t \in Sliced(p) => Flight(p, t, GivenSlice(ip[p], t))
    BY <1>1, WhileDoing
  <2>2. t \in Sliced(p)
    BY <1>1, <2>1 DEF At, Sliced
  <2>3. t \in Thread
    BY DEF Helper
  <2>4. GivenSlice(ip[p], t) \in Job /\ GivenSlice(ip[p], t).kind = "slice"
        /\ GivenSlice(ip[p], t).prog = ip[p]
    BY <1>a, <2>1, <2>3, GivenJobs
  <2>5. PICK j : j = GivenSlice(ip[p], t)
    OBVIOUS
  <2>6. out[p][t] = <<j>>
    BY <1>1, <2>1, <2>2, <2>3, <2>5, AnswerThere
  <2>7. Head(out[p][t]) = j
    BY <2>6
  <2>8. QED BY <2>4, <2>5, <2>7
<1>2. ASSUME NEW p \in Party, NEW t \in Helper, Doing(p, "join"), At(p, t),
             out[p][t] # <<>>
      PROVE  Head(out[p][t]).kind = "tape"
  <2>1. /\ ip[p] \in 1 .. Len(prog) /\ todo[p] # <<>> /\ Head(todo[p]).do = "join"
        /\ ListOK(p)
        /\ t \in Taped(p) => \E i \in Nat \ {0} : Flight(p, t, TapeJob(i))
    BY <1>2, WhileDoing
  <2>2. Joining(p, ip[p])
    BY <1>a, <2>1, ListAt
  <2>3. PICK k \in 1 .. Len(prog) : k = ip[p]
    BY <2>1
  <2>4. /\ prog[k].ts \in SUBSET Helper /\ Step("join", prog[k].ts, 0) \in Todo
    BY <1>a, OperationSteps
  <2>5. Head(todo[p]) = Step("join", prog[k].ts, 0)
    BY <2>2, <2>3, <2>4, ShortQueues DEF Joining
  <2>6. t \in prog[k].ts
    BY <1>2, <2>5 DEF At, Step
  <2>7. t \in Outstanding(ip[p])
    BY <2>2, <2>3, <2>6 DEF Joining, JoinAt
  <2>8. t \in Taped(p)
    BY <2>1, <2>7 DEF Taped
  <2>9. PICK i \in Nat \ {0} : Flight(p, t, TapeJob(i))
    BY <2>1, <2>8
  <2>10. PICK j : j = TapeJob(i)
    OBVIOUS
  <2>11. out[p][t] = <<j>>
    BY <1>2, <2>9, <2>10, AnswerThere DEF Helper
  <2>12. j.kind = "tape"
    BY <2>10 DEF TapeJob
  <2>13. QED BY <2>11, <2>12
<1>3. ASSUME NEW p \in Party, mpc[p] = "windresult", out[p][mi[p]] # <<>>
      PROVE  Head(out[p][mi[p]]) = Usage
  <2>1. mi[p] \in Thread
    BY <1>a, <1>3 DEF TypeInv, IndexOK
  <2>2. Shape(p, mi[p])
    BY <2>1 DEF OrderInv, InOrder
  <2>3. Leaving(p, mi[p])
    BY <1>3, <2>2 DEF Shape
  <2>4. out[p][mi[p]] = <<Usage>>
    BY <1>3, <2>3 DEF Leaving, Standing
  <2>5. QED BY <2>4
<1>4. QED BY <1>1, <1>2, <1>3 DEF ResultsMatch

\* The buffers are filled of threads that wait.
LEMMA OrderBuffers == OrderInv => FillBuffersIdle
<1> SUFFICES ASSUME OrderInv, NEW p \in Party, Doing(p, "fill"),
                    NEW t, t \in Head(todo[p]).ts
             PROVE  wpc[p][t] = "loop" /\ in[p][t] = <<>> /\ out[p][t] = <<>>
  BY DEF FillBuffersIdle
<1>a. TypeInv /\ TapeType
  BY DEF OrderInv, CountInv, TypeInv
<1>0. todo[p] # <<>>
  BY DEF Doing
<1>1. Head(todo[p]).ts \in SUBSET Helper
  BY <1>a, <1>0, HeadType DEF Todo
<1>2. t \in Helper
  BY <1>1
<1>3. /\ ip[p] \in 1 .. Len(prog) /\ todo[p] # <<>> /\ Head(todo[p]).do = "fill"
      /\ ListOK(p)
      /\ t \notin Sliced(p) \cup Taped(p) => Idle(p, t)
  BY <1>2, WhileDoing
<1>4. PICK S \in SUBSET Helper : Transferring(p, ip[p], S)
  BY <1>a, <1>3, ListAt
<1>5. PICK k \in 1 .. Len(prog) : k = ip[p]
  BY <1>3
<1>6. /\ todo[p] = <<Step("fill", S, prog[k].n), Step("sched", prog[k].ts, 0)>>
      /\ TapesAt(k) /\ Part(k, S)
  BY <1>4, <1>5 DEF Transferring, Filling, TapesAt
<1>7. /\ prog[k].ts \in SUBSET Helper /\ Step("fill", S, prog[k].n) \in Todo
      /\ Step("sched", prog[k].ts, 0) \in Todo
  BY <1>a, OperationSteps
<1>8. Head(todo[p]) = Step("fill", S, prog[k].n)
  BY <1>6, <1>7, ShortQueues
<1>9. t \in S
  BY <1>8 DEF Step
<1>10. t \in prog[k].ts /\ t \notin Outstanding(k)
  BY <1>6, <1>9 DEF Part, TapesAt, DistAt, Free
<1>11. t \notin Sliced(p) \cup Taped(p)
  BY <1>3, <1>5, <1>10 DEF Sliced, Taped
<1>12. QED BY <1>3, <1>11 DEF Idle, Standing

\* The freed queues are quiet.
LEMMA OrderFreed == OrderInv => FreedQueuesQuiet
<1> SUFFICES ASSUME OrderInv, NEW p \in Party, NEW t \in deleted[p]
             PROVE  wpc[p][t] = "exited" /\ in[p][t] = <<>> /\ out[p][t] = <<>>
  BY DEF FreedQueuesQuiet
<1>1. TypeInv /\ InOrder(p)
  BY DEF OrderInv, CountInv
<1>2. t \in Thread /\ mpc[p] \in MachineControl
  BY <1>1 DEF TypeInv, MachineType
<1>3. Control(p) /\ Shape(p, t)
  BY <1>1, <1>2 DEF InOrder
<1>4. Gone(p, t)
  BY <1>2, <1>3 DEF Control, Shape, Winding, MachineControl
<1>5. QED BY <1>4 DEF Gone, Standing

\* The main tape runs once.
LEMMA OrderMain == OrderInv => MainOnce
<1> SUFFICES ASSUME OrderInv, NEW p \in Party
             PROVE  mains[p] <= 1 /\ (mpc[p] = "done" => mains[p] = 1)
  BY DEF MainOnce
<1>1. TypeInv /\ InOrder(p)
  BY DEF OrderInv, CountInv
<1>2. mpc[p] \in MachineControl /\ 0 \in Thread
  BY <1>1, ZeroIsThread DEF TypeInv, MachineType
<1>3. Control(p) /\ Shape(p, 0)
  BY <1>1, <1>2 DEF InOrder
<1>4. mpc[p] = "joinmain" => mains[p] = 0 \/ mains[p] = 1
  BY <1>3 DEF Shape, MainThread, Fresh, Ended
<1>5. mpc[p] # "joinmain" => mains[p] = 0 \/ mains[p] = 1
  BY <1>2, <1>3 DEF Control, Winding, Fresh, Ended, MachineControl
<1>6. mpc[p] = "done" => mains[p] = 1
  BY <1>3 DEF Control, Ended
<1>7. QED BY <1>4, <1>5, <1>6
=============================================================================
