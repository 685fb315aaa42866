--------------------------- MODULE ThreadPoolJobs ---------------------------
(***************************************************************************)
(* What comes of the order that ThreadPoolProofs proves: every item of a   *)
(* distributed job is made exactly once (WorkOnce), and the threads of all *)
(* parties begin the same jobs in the same order (JobsInOrder).            *)
(***************************************************************************)
EXTENDS ThreadPoolProofs

-----------------------------------------------------------------------------
(* What a distribute of n items to the threads S and the caller makes.     *)

Share(S, n, t) ==
    <<t, Rank(S, t) * NPerThread(n, Cardinality(S)),
      (Rank(S, t) + 1) * NPerThread(n, Cardinality(S))>>
Remainder(S, n) == <<0, Cardinality(S) * NPerThread(n, Cardinality(S)), n>>
Shares(S, n, D) == {Share(S, n, t) : t \in D}

\* The threads are ranked in their order, from 0 on.
LEMMA Ranked ==
    ASSUME NEW S \in SUBSET Helper, NEW t \in S
    PROVE  /\ Rank(S, t) \in 0 .. Cardinality(S) - 1
           /\ \A u \in S : t < u => Rank(S, t) < Rank(S, u)
<1>a. S \subseteq Thread /\ \A u \in S : u \in Int
  BY NThreadsAssumption DEF Helper, Thread
<1>b. IsFiniteSet(S) /\ Cardinality(S) \in Nat
  BY <1>a, CountType
<1>c. PICK A \in SUBSET S : A = {u \in S : u < t}
  OBVIOUS
<1>d. IsFiniteSet(A) /\ Cardinality(A) \in Nat /\ Rank(S, t) = Cardinality(A)
  BY <1>a, <1>c, CountType DEF Rank
<1>1. Cardinality(A) < Cardinality(S)
  <2>1. t \notin A
    BY <1>a, <1>c
  <2>2. Cardinality(A) <= Cardinality(S) /\ (Cardinality(S) = Cardinality(A) => S = A)
    BY <1>b, FS_Subset
  <2>3. QED BY <1>b, <1>d, <2>1, <2>2
<1>2. ASSUME NEW u \in S, t < u PROVE Rank(S, t) < Rank(S, u)
  <2>1. PICK B \in SUBSET S : B = {v \in S : v < u}
    OBVIOUS
  <2>2. IsFiniteSet(B) /\ Cardinality(B) \in Nat /\ Rank(S, u) = Cardinality(B)
    BY <1>a, <2>1, CountType DEF Rank
  <2>3. A \in SUBSET B /\ t \in B /\ t \notin A
    BY <1>a, <1>c, <1>2, <2>1
  <2>4. Cardinality(A) <= Cardinality(B) /\ (Cardinality(B) = Cardinality(A) => B = A)
    BY <2>2, <2>3, FS_Subset
  <2>5. QED BY <1>d, <2>2, <2>3, <2>4
<1>3. QED BY <1>b, <1>d, <1>1, <1>2

\* Every rank is some thread's: otherwise two threads would share one.
LEMMA RankTaken ==
    ASSUME NEW S \in SUBSET Helper, NEW c \in 0 .. Cardinality(S) - 1
    PROVE  \E t \in S : Rank(S, t) = c
<1>a. S \subseteq Thread /\ \A u \in S : u \in Int
  BY NThreadsAssumption DEF Helper, Thread
<1>b. IsFiniteSet(S) /\ Cardinality(S) \in Nat
  BY <1>a, CountType
<1> SUFFICES ASSUME \A t \in S : Rank(S, t) # c PROVE FALSE
  OBVIOUS
<1>c. PICK T : T = (0 .. Cardinality(S) - 1) \ {c}
  OBVIOUS
<1>1. IsFiniteSet(T) /\ Cardinality(T) < Cardinality(S)
  <2>1. IsFiniteSet(0 .. Cardinality(S) - 1) /\ Cardinality(0 .. Cardinality(S) - 1) = Cardinality(S)
    BY <1>b, FS_Interval
  <2>2. IsFiniteSet(T) /\ Cardinality(T) = Cardinality(S) - 1
    BY <1>c, <2>1, FS_RemoveElement
  <2>3. QED BY <1>b, <2>2
<1>d. PICK f : f = [t \in S |-> Rank(S, t)]
  OBVIOUS
<1>2. f \in [S -> T]
  BY <1>c, <1>d, Ranked
<1>3. PICK x \in S, y \in S : x # y /\ f[x] = f[y]
  BY <1>b, <1>1, <1>2, FS_PigeonHole
<1>4. Rank(S, x) = Rank(S, y) /\ Rank(S, x) \in Int /\ Rank(S, y) \in Int
  BY <1>d, <1>3, Ranked
<1>5. x < y \/ y < x
  BY <1>a, <1>3
<1>6. QED BY <1>4, <1>5, Ranked

\* Intervals of one width: which of them an item is in.
LEMMA Width ==
    ASSUME NEW i \in Nat, NEW w \in Nat, w # 0
    PROVE  /\ i \div w \in Nat
           /\ (i \div w) * w <= i /\ i < (i \div w + 1) * w
  OBVIOUS

\* Multiplication by the width keeps the order.
LEMMA Multiples ==
    ASSUME NEW a \in Nat, NEW b \in Nat, NEW w \in Nat, a <= b
    PROVE  a * w <= b * w
<1>1. PICK d \in Nat : b = a + d
  BY b - a \in Nat, b = a + (b - a)
<1>2. b * w = a * w + d * w
  BY <1>1
<1>3. a * w \in Nat /\ d * w \in Nat
  BY <1>1, ProductType
<1>4. QED BY <1>2, <1>3

\* The shares and the caller's remainder hold every item exactly once.
LEMMA CoveredOnce ==
    ASSUME NEW S \in SUBSET Helper, NEW n \in Nat, NEW i \in 0 .. n - 1
    PROVE  Cardinality({s \in Shares(S, n, S) \cup {Remainder(S, n)} :
                          s[2] <= i /\ i < s[3]}) = 1
<1>a. S \subseteq Thread /\ \A u \in S : u \in Int
  BY NThreadsAssumption DEF Helper, Thread
<1>b. Cardinality(S) \in Nat
  BY <1>a, CountType
<1>c. PICK a \in Nat : a = Cardinality(S)
  BY <1>b
<1>d. PICK w \in Nat : w = NPerThread(n, Cardinality(S))
  BY <1>b, NPerThreadType
<1>e. a * w \in Nat /\ i \in Nat /\ i < n
  BY ProductType
<1>f. \A r \in Nat : r * w \in Nat /\ (r + 1) * w \in Nat
  BY ProductType
<1>g. \A t \in S : /\ Rank(S, t) \in Nat /\ Rank(S, t) < a
                   /\ Share(S, n, t) = <<t, Rank(S, t) * w, (Rank(S, t) + 1) * w>>
  BY <1>b, <1>c, <1>d, Ranked DEF Share
<1>h. Remainder(S, n) = <<0, a * w, n>>
  BY <1>c, <1>d DEF Remainder
<1>i. PICK M : M = {s \in Shares(S, n, S) \cup {Remainder(S, n)} : s[2] <= i /\ i < s[3]}
  OBVIOUS
<1>j. \A t \in S : Share(S, n, t) \in M <=>
                      Rank(S, t) * w <= i /\ i < (Rank(S, t) + 1) * w
  BY <1>g, <1>i DEF Shares
<1>k. Remainder(S, n) \in M <=> a * w <= i
  BY <1>e, <1>h, <1>i
<1>l. \A s \in M : s = Remainder(S, n) \/ \E t \in S : s = Share(S, n, t)
  BY <1>i DEF Shares
<1>1. CASE a * w <= i
  <2>1. ASSUME NEW t \in S PROVE Share(S, n, t) \notin M
    <3>1. PICK r \in Nat : r = Rank(S, t) /\ r < a
      BY <1>g
    <3>2. r + 1 \in Nat /\ r + 1 <= a
      BY <3>1
    <3>3. (r + 1) * w <= a * w
      BY <3>2, Multiples
    <3>4. PICK e \in Nat : e = (r + 1) * w
      BY <3>2, ProductType
    <3>5. ~(i < e)
      BY <1>1, <1>e, <3>3, <3>4
    <3>6. QED BY <1>j, <3>1, <3>4, <3>5
  <2>2. M = {Remainder(S, n)}
    BY <1>1, <1>k, <1>l, <2>1
  <2>3. QED BY <1>i, <2>2, FS_Singleton
<1>2. CASE ~(a * w <= i)
  <2>1. w # 0
    <3>1. w = 0 => a * w = 0
      OBVIOUS
    <3>2. QED BY <1>2, <1>e, <3>1
  <2>2. PICK c \in Nat : c * w <= i /\ i < (c + 1) * w
    BY <1>e, <2>1, Width
  <2>3. c < a
    <3>1. a <= c => a * w <= c * w
      BY Multiples
    <3>2. QED BY <1>2, <1>e, <1>f, <2>2, <3>1
  <2>4. PICK t \in S : Rank(S, t) = c
    BY <1>c, <2>3, RankTaken
  <2>5. Share(S, n, t) \in M
    BY <1>j, <2>2, <2>4
  <2>6. ASSUME NEW u \in S, Share(S, n, u) \in M PROVE u = t
    <3>1. PICK r \in Nat : r = Rank(S, u)
      BY <1>g
    <3>2. r * w <= i /\ i < (r + 1) * w
      BY <1>j, <2>6, <3>1
    <3>3. ~(r < c)
      <4>1. r < c => (r + 1) * w <= c * w
        BY Multiples, r + 1 \in Nat
      <4>2. QED BY <1>e, <1>f, <2>2, <3>2, <4>1
    <3>4. ~(c < r)
      <4>1. c < r => (c + 1) * w <= r * w
        BY Multiples, c + 1 \in Nat
      <4>2. QED BY <1>e, <1>f, <2>2, <3>2, <4>1
    <3>5. r = c
      BY <3>3, <3>4
    <3>6. ~(u < t) /\ ~(t < u)
      <4>1. /\ u < t => Rank(S, u) < Rank(S, t)
            /\ t < u => Rank(S, t) < Rank(S, u)
        BY Ranked
      <4>2. QED BY <2>4, <3>1, <3>5, <4>1
    <3>7. QED BY <1>a, <3>6
  <2>7. M = {Share(S, n, t)}
    BY <1>2, <1>k, <1>l, <2>5, <2>6
  <2>8. QED BY <1>i, <2>7, FS_Singleton
<1>3. QED BY <1>1, <1>2

-----------------------------------------------------------------------------
(* The items made, while a distribute is under way and after.              *)

SharingList(s) == s # <<>> /\ Head(s).do \in {"inner", "own", "wrap"}
Sharing(p) == SharingList(todo[p])

\* Thread t has no slice, or has done it.
Through(p, t) == wpc[p][t] = "loop" /\ in[p][t] = <<>>

Made(p) ==
    Shares(Free(ip[p]), need[p], {t \in Free(ip[p]) : Through(p, t)})
    \cup (IF Head(todo[p]).do = "wrap" THEN {Remainder(Free(ip[p]), need[p])} ELSE {})

MadeOK(p) ==
    /\ Sharing(p) => need[p] = prog[ip[p]].n /\ made[p] = Made(p)
    /\ ~Sharing(p) =>
          \/ need[p] = 0
          \/ \E S \in SUBSET Helper :
                made[p] = Shares(S, need[p], S) \cup {Remainder(S, need[p])}

MadeInv == \A p \in Party : MadeOK(p)

\* Which lists are those of a distribute under way.
LEMMA SharingHeads ==
    /\ ~SharingList(<<>>)
    /\ \A h \in Todo : SharingList(<<h>>) <=> h.do \in {"inner", "own", "wrap"}
    /\ \A x \in Todo, y \in Todo :
          SharingList(<<x, y>>) <=> x.do \in {"inner", "own", "wrap"}
    /\ \A h \in Todo, s \in Seq(Todo) :
          SharingList(<<h>> \o s) <=> h.do \in {"inner", "own", "wrap"}
<1>1. ~SharingList(<<>>)
  BY DEF SharingList
<1>2. ASSUME NEW h \in Todo PROVE SharingList(<<h>>) <=> h.do \in {"inner", "own", "wrap"}
  <2>1. <<h>> # <<>> /\ Head(<<h>>) = h
    BY ShortQueues
  <2>2. QED BY <2>1 DEF SharingList
<1>3. ASSUME NEW x \in Todo, NEW y \in Todo
      PROVE  SharingList(<<x, y>>) <=> x.do \in {"inner", "own", "wrap"}
  <2>1. <<x, y>> # <<>> /\ Head(<<x, y>>) = x
    BY ShortQueues
  <2>2. QED BY <2>1 DEF SharingList
<1>4. ASSUME NEW h \in Todo, NEW s \in Seq(Todo)
      PROVE  SharingList(<<h>> \o s) <=> h.do \in {"inner", "own", "wrap"}
  <2>1. <<h>> \o s # <<>> /\ Head(<<h>> \o s) = h
    BY ListFacts
  <2>2. QED BY <2>1 DEF SharingList
<1>5. QED BY <1>1, <1>2, <1>3, <1>4

\* What a distribute leaves is none.
LEMMA FillingQuiet ==
    ASSUME TapeType, NEW k \in 1 .. Len(prog), NEW S \in SUBSET Helper
    PROVE  ~SharingList(Filling(k, S))
<1>1. CASE prog[k].op = "dist"
  BY <1>1, SharingHeads DEF Filling
<1>2. CASE prog[k].op # "dist"
  <2>1. Step("fill", S, prog[k].n) \in Todo /\ Step("sched", prog[k].ts, 0) \in Todo
    BY OperationSteps
  <2>2. Filling(k, S) = <<Step("fill", S, prog[k].n), Step("sched", prog[k].ts, 0)>>
    BY <1>2 DEF Filling
  <2>3. Step("fill", S, prog[k].n).do = "fill"
    BY DEF Step
  <2>4. QED BY <2>1, <2>2, <2>3, SharingHeads
<1>3. QED BY <1>1, <1>2

\* Where a distribute is under way, the main tape runs.
LEMMA SharingRuns ==
    ASSUME OrderInv, NEW p \in Party, Sharing(p)
    PROVE  /\ mpc[p] = "joinmain" /\ Standing(p, 0, "busy", <<>>, <<>>)
           /\ RunsMain(p, 0) /\ todo[p] # <<>> /\ ip[p] \in 1 .. Len(prog)
           /\ Taped(p) = Outstanding(ip[p])
           /\ \A t \in Helper : HelperThread(p, t)
           /\ \A t \in Free(ip[p]) : t \in Helper /\ t \notin Taped(p)
<1>1. TypeInv /\ InOrder(p) /\ ListOK(p) /\ Control(p)
  BY DEF OrderInv, CountInv, InOrder
<1>2. todo[p] # <<>> /\ Head(todo[p]).do # "sched"
  BY DEF Sharing, SharingList
<1>3. mpc[p] \in MachineControl /\ 0 \in Thread
  BY <1>1, ZeroIsThread DEF TypeInv, MachineType
<1>4. mpc[p] = "joinmain"
  BY <1>1, <1>2, <1>3 DEF Control, Fresh, Ended, Winding, MachineControl
<1>5. MainThread(p)
  BY <1>1, <1>3, <1>4 DEF InOrder, Shape
<1>6. RunsMain(p, 0)
  BY <1>2, <1>5 DEF MainThread, Fresh, Ended, RunsMain, Standing
<1>7. ip[p] \in 1 .. Len(prog) /\ Taped(p) = Outstanding(ip[p])
  BY <1>1, <1>2 DEF ListOK, Taped
<1>8. \A t \in Free(ip[p]) : t \in Helper /\ t \notin Taped(p)
  BY <1>7 DEF Free
<1>9. QED BY <1>1, <1>2, <1>4, <1>6, <1>7, <1>8, MainRuns

\* What is made stays made.
LEMMA MadeStays ==
    ASSUME NEW q \in Party, MadeOK(q), todo'[q] = todo[q], ip'[q] = ip[q],
           made'[q] = made[q], need'[q] = need[q],
           Sharing(q) => /\ prog'[ip[q]] = prog[ip[q]]
                         /\ Free(ip[q])' = Free(ip[q])
                         /\ \A u \in Free(ip[q]) : Through(q, u)' = Through(q, u)
    PROVE  MadeOK(q)'
<1>a. PICK k : k = ip[q]
  OBVIOUS
<1>1. Sharing(q)' = Sharing(q)
  BY DEF Sharing
<1>2. CASE Sharing(q)
  <2>1. /\ prog'[k] = prog[k] /\ Free(k)' = Free(k)
        /\ \A u \in Free(k) : Through(q, u)' = Through(q, u)
    BY <1>2, <1>a
  <2>2. {t \in Free(k) : Through(q, t)}' = {t \in Free(k) : Through(q, t)}
    BY <2>1
  <2>3. PICK n : n = need[q]
    OBVIOUS
  <2>4. made[q] = Shares(Free(k), n, {t \in Free(k) : Through(q, t)})
                  \cup (IF Head(todo[q]).do = "wrap" THEN {Remainder(Free(k), n)} ELSE {})
    BY <1>2, <1>a, <2>3 DEF MadeOK, Made
  <2>5. /\ Shares(Free(k), n, {t \in Free(k) : Through(q, t)})'
           = Shares(Free(k), n, {t \in Free(k) : Through(q, t)})
        /\ Remainder(Free(k), n)' = Remainder(Free(k), n)
    BY <2>1, <2>2 DEF Shares, Share, Remainder
  <2>6. made'[q] = (Shares(Free(k), n, {t \in Free(k) : Through(q, t)})
                    \cup (IF Head(todo[q]).do = "wrap" THEN {Remainder(Free(k), n)} ELSE {}))'
    BY <2>4, <2>5
  <2>7. need'[q] = n /\ ip'[q] = k
    BY <1>a, <2>3
  <2>8. (made[q] = Made(q))'
    BY <2>6, <2>7 DEF Made
  <2>9. need[q] = prog[k].n
    BY <1>2, <1>a DEF MadeOK
  <2>10. QED BY <1>1, <1>2, <1>a, <2>1, <2>7, <2>8, <2>9 DEF MadeOK
<1>3. CASE ~Sharing(q)
  BY <1>1, <1>3 DEF MadeOK
<1>4. QED BY <1>2, <1>3

\* The machine does not disturb a distribute.
LEMMA MachineMade ==
    ASSUME OrderInv, MadeInv, NEW p \in Party, MachineStep(p)
    PROVE  MadeInv'
<1> SUFFICES ASSUME NEW q \in Party PROVE MadeOK(q)'
  BY DEF MadeInv
<1>a. TypeInv /\ QueueType /\ MadeOK(q)
  BY DEF OrderInv, CountInv, TypeInv, MadeInv
<1>b. UNCHANGED <<prog, over, ip, todo, available, need, made>>
  BY DEF MachineStep, CreateThreads, Synchronize, RunMainTape, JoinMainTape,
     StopThreads, SignOut, CollectUsage, JoinThread, tapeVars, historyVars
<1>1. Free(ip[q])' = Free(ip[q])
  BY <1>b DEF Free, Outstanding
<1>2. ASSUME Sharing(q) PROVE q # p
  <2>1. mpc[q] = "joinmain" /\ out[q][0] = <<>>
    BY <1>2, SharingRuns DEF Standing
  <2>2. q = p => JoinMainTape(p)
    BY <2>1 DEF MachineStep, CreateThreads, Synchronize, RunMainTape,
       StopThreads, SignOut, CollectUsage, JoinThread
  <2>3. QED BY <2>1, <2>2 DEF JoinMainTape, Result
<1>3. ASSUME Sharing(q), NEW u \in Free(ip[q]) PROVE Through(q, u)' = Through(q, u)
  <2>1. u \in Thread
    BY DEF Free, Helper
  <2>2. Unmoved(q, u)
    BY <1>a, <1>2, <1>3, <2>1, MachineAlone
  <2>3. QED BY <2>2 DEF Unmoved, Through
<1>4. QED BY <1>a, <1>b, <1>1, <1>3, MadeStays

\* A worker's slice is the one it was given, in a distribute under way.
LEMMA SliceGiven ==
    ASSUME OrderInv, NEW p \in Party, NEW t \in Thread, FinishSlice(p, t)
    PROVE  /\ Sharing(p) /\ t \in Helper /\ t \in Free(ip[p])
           /\ job[p][t] = GivenSlice(ip[p], t)
           /\ in[p][t] = <<>>
<1>a. /\ TypeInv /\ InOrder(p) /\ ListOK(p) /\ TapeType /\ Shape(p, t)
      /\ wpc[p][t] = "busy" /\ job[p][t].kind = "slice"
  BY DEF OrderInv, CountInv, InOrder, TypeInv, FinishSlice
<1>1. ~Unborn(p, t) /\ ~Idle(p, t) /\ ~Arriving(p, t) /\ ~Stopping(p, t)
      /\ ~Leaving(p, t) /\ ~Gone(p, t)
  BY <1>a DEF Unborn, Idle, Arriving, Stopping, Leaving, Gone, Standing
<1>2. mpc[p] \in MachineControl /\ t \in Int /\ mi[p] \in Int
  BY <1>a, NThreadsAssumption DEF TypeInv, MachineType, Thread
<1>3. mpc[p] = "joinmain"
  <2> HIDE DEF Unborn, Idle, Arriving, Stopping, Leaving, Gone
  <2>1. QED BY <1>a, <1>1, <1>2 DEF Shape, Winding, MachineControl
<1>4. t # 0
  <2>1. TapeJob(0).kind = "tape"
    BY TapeJobs
  <2>2. t = 0 => MainThread(p)
    BY <1>a, <1>3 DEF Shape
  <2>3. QED BY <1>a, <2>1, <2>2 DEF MainThread, Standing
<1>5. HelperThread(p, t) /\ t \in Helper
  BY <1>a, <1>3, <1>4 DEF Shape, Helper
<1>6. ASSUME NEW j, Flight(p, t, j) PROVE job[p][t] = j /\ in[p][t] = <<>>
  BY <1>a, <1>6 DEF Flight, Standing
<1>7. t \notin Taped(p)
  <2>1. ASSUME NEW i \in Nat \ {0}, Flight(p, t, TapeJob(i)) PROVE FALSE
    <3>1. job[p][t] = TapeJob(i)
      BY <1>6, <2>1
    <3>2. QED BY <1>a, <3>1, TapeJobs
  <2>2. QED BY <1>5, <2>1 DEF HelperThread
<1>8. t \in Sliced(p)
  BY <1>1, <1>5, <1>7 DEF HelperThread
<1>9. job[p][t] = GivenSlice(ip[p], t) /\ in[p][t] = <<>>
  BY <1>5, <1>6, <1>8 DEF HelperThread
<1>10. Sharing(p)
  BY <1>8 DEF Sliced, Sharing, SharingList
<1>11. t \in Free(ip[p])
  BY <1>5, <1>7, <1>10, SharingRuns DEF Free
<1>12. QED BY <1>5, <1>9, <1>10, <1>11

\* A worker adds its slice to what is made as it is through with it.
LEMMA WorkerMade ==
    ASSUME OrderInv, MadeInv, NEW p \in Party, NEW t \in Thread, WorkerStep(p, t)
    PROVE  MadeInv'
<1> SUFFICES ASSUME NEW q \in Party PROVE MadeOK(q)'
  BY DEF MadeInv
<1>a. TypeInv /\ QueueType /\ TapeType /\ MadeOK(q) /\ made \in [Party -> SUBSET (Thread \X Nat \X Nat)]
  BY DEF OrderInv, CountInv, TypeInv, MadeInv, HistoryType
<1>b. UNCHANGED <<prog, over, ip, todo, available, need>>
  BY DEF WorkerStep, Start, SetUp, Dispatch, FinishSlice, FinishTape,
         FinalChecks, WindDown, historyVars, tapeVars
<1>1. Free(ip[q])' = Free(ip[q])
  BY <1>b DEF Free, Outstanding
<1>2. ASSUME NEW u \in Free(ip[q]), ~(q = p /\ u = t)
      PROVE  Through(q, u)' = Through(q, u)
  <2>1. u \in Thread
    BY DEF Free, Helper
  <2>2. Unmoved(q, u)
    BY <1>a, <1>2, <2>1, WorkerAlone
  <2>3. QED BY <2>2 DEF Unmoved, Through
<1>3. CASE ~FinishSlice(p, t)
  <2>1. made' = made
    BY <1>3 DEF WorkerStep, Start, SetUp, Dispatch, FinishTape, FinalChecks,
       WindDown, historyVars
  <2>2. ASSUME Sharing(q), q = p, t \in Free(ip[q]) PROVE ~Through(p, t) /\ ~Through(p, t)'
    <3>1. t \in Helper /\ t \notin Taped(p) /\ HelperThread(p, t)
      BY <2>2, SharingRuns
    <3>2. ~Idle(p, t)
      BY <1>a, WorkerShape
    <3>3. t \in Sliced(p)
      BY <3>1, <3>2 DEF HelperThread
    <3>4. PICK j : j = GivenSlice(ip[p], t)
      OBVIOUS
    <3>5. Flight(p, t, j)
      BY <3>1, <3>3, <3>4 DEF HelperThread
    <3>6. j \in Job /\ j.kind = "slice" /\ j.prog # -1
      <4>1. ip[p] \in 1 .. Len(prog)
        BY <2>2, SharingRuns
      <4>2. QED BY <1>a, <3>4, <4>1, GivenJobs
    <3>7. CASE Standing(p, t, "loop", <<j>>, <<>>)
      <4>1. in[p][t] = <<j>> /\ wpc[p][t] = "loop"
        BY <3>7 DEF Standing
      <4>2. Head(<<j>>) = j /\ <<j>> # <<>>
        BY <3>6, ShortQueues
      <4>3. wpc'[p][t] = "busy"
        BY <1>a, <3>6, <4>1, <4>2, WorkerMoves
      <4>4. QED BY <4>1, <4>2, <4>3 DEF Through
    <3>8. CASE Standing(p, t, "busy", <<>>, <<>>) /\ job[p][t] = j
      <4>1. FinishTape(p, t)
        BY <1>3, <1>a, <3>8, WorkerMoves DEF Standing
      <4>2. QED BY <3>6, <3>8, <4>1 DEF FinishTape
    <3>9. CASE Standing(p, t, "loop", <<>>, <<j>>)
      BY <1>a, <3>9, WorkerMoves DEF Standing
    <3>10. QED BY <3>5, <3>7, <3>8, <3>9 DEF Flight
  <2>3. ASSUME Sharing(q), NEW u \in Free(ip[q]) PROVE Through(q, u)' = Through(q, u)
    <3>1. CASE q = p /\ u = t
      <4>1. ~Through(q, u) /\ ~Through(q, u)'
        BY <2>2, <2>3, <3>1
      <4>2. QED BY <4>1 DEF Through
    <3>2. QED BY <1>2, <3>1
  <2>4. QED BY <1>a, <1>b, <1>1, <2>1, <2>3, MadeStays
<1>4. CASE FinishSlice(p, t) /\ q # p
  <2>1. made'[q] = made[q]
    BY <1>4, <1>a DEF FinishSlice, Produced
  <2>2. QED BY <1>4, <1>a, <1>b, <1>1, <1>2, <2>1, MadeStays
<1>5. CASE FinishSlice(p, t) /\ q = p
  <2>a. PICK k : k = ip[p]
    OBVIOUS
  <2>b. PICK S \in SUBSET Helper : S = Free(k)
    BY DEF Free
  <2>1. /\ Sharing(p) /\ t \in S /\ job[p][t] = GivenSlice(k, t) /\ in[p][t] = <<>>
        /\ k \in 1 .. Len(prog)
    BY <1>5, <2>a, <2>b, SliceGiven, SharingRuns
  <2>2. /\ job[p][t].prog = k /\ k # 0
        /\ <<t, job[p][t].lo, job[p][t].hi>> = Share(S, prog[k].n, t)
    <3>1. k \in Int /\ k # 0
      BY <2>1
    <3>2. GivenSlice(k, t).prog = k
      BY DEF GivenSlice, SliceOf, SliceJob
    <3>3. <<t, GivenSlice(k, t).lo, GivenSlice(k, t).hi>> = Share(S, prog[k].n, t)
      BY <2>b DEF GivenSlice, SliceOf, SliceJob, Share
    <3>4. QED BY <2>1, <3>1, <3>2, <3>3
  <2>3. made'[p] = made[p] \cup {Share(S, prog[k].n, t)}
    <3>1. PICK j : j = job[p][t]
      OBVIOUS
    <3>2. made' = [made EXCEPT ![p] = IF j.prog = 0 THEN made[p]
                                      ELSE made[p] \cup {<<t, j.lo, j.hi>>}]
      BY <1>5, <3>1 DEF FinishSlice, Produced
    <3>3. QED BY <1>a, <2>2, <3>1, <3>2
  <2>4. ~Through(p, t) /\ Through(p, t)'
    <3>1. wpc[p][t] = "busy"
      BY <1>5 DEF FinishSlice
    <3>2. wpc'[p][t] = "loop" /\ in'[p][t] = in[p][t]
      BY <1>a, <3>1, WorkerMoves
    <3>3. QED BY <2>1, <3>1, <3>2 DEF Through
  <2>5. PICK n : n = need[p]
    OBVIOUS
  <2>6. n = prog[k].n /\ made[p] = Shares(S, n, {u \in S : Through(p, u)})
                   \cup (IF Head(todo[p]).do = "wrap" THEN {Remainder(S, n)} ELSE {})
    BY <1>5, <1>a, <2>1, <2>a, <2>b, <2>5 DEF MadeOK, Made
  <2>7. {u \in S : Through(p, u)'} = {u \in S : Through(p, u)} \cup {t}
    BY <1>2, <1>5, <2>1, <2>4, <2>a, <2>b
  <2>8. Shares(S, n, {u \in S : Through(p, u)'})
           = Shares(S, n, {u \in S : Through(p, u)}) \cup {Share(S, n, t)}
    BY <2>7 DEF Shares
  <2>9. made'[p] = Shares(S, n, {u \in S : Through(p, u)'})
                   \cup (IF Head(todo[p]).do = "wrap" THEN {Remainder(S, n)} ELSE {})
    BY <2>3, <2>6, <2>8
  <2>10. ip'[p] = k /\ Free(k)' = S /\ need'[p] = n /\ todo'[p] = todo[p] /\ prog' = prog
    BY <1>b, <1>1, <1>5, <2>a, <2>b, <2>5
  <2>11. Made(p)' = Shares(S, n, {u \in S : Through(p, u)'})
                    \cup (IF Head(todo[p]).do = "wrap" THEN {Remainder(S, n)} ELSE {})
    BY <2>10 DEF Made, Shares, Share, Remainder
  <2>12. Sharing(p)'
    BY <2>1, <2>10 DEF Sharing
  <2>13. QED BY <1>5, <2>6, <2>9, <2>10, <2>11, <2>12 DEF MadeOK
<1>6. QED BY <1>3, <1>4, <1>5

\* The steps outside a distribute leave what is made, and begin none.
LEMMA QuietSteps ==
    ASSUME TypeInv, ProgOK, NEW p \in Party, InOrder(p), ~Sharing(p),
           \/ NextOp(p) \/ EndOfTape(p)
           \/ \E t \in Helper : FillBuffers(p, t) \/ RunTape(p, t) \/ JoinTape(p, t)
    PROVE  ~Sharing(p)' /\ made' = made /\ need' = need
<1>a. TapeType /\ ListOK(p)
  BY DEF TypeInv, InOrder
<1>1. made' = made /\ need' = need
  BY DEF NextOp, EndOfTape, FillBuffers, RunTape, JoinTape, historyVars
<1>2. CASE EndOfTape(p)
  <2>1. todo' = todo
    BY <1>2 DEF EndOfTape
  <2>2. QED BY <1>1, <2>1 DEF Sharing
<1>3. CASE NextOp(p)
  <2>1. PICK o \in Op : todo' = [todo EXCEPT ![p] = Steps(o)]
    <3>1. CASE ip[p] < Len(prog)
      <4>1. ip[p] + 1 \in 1 .. Len(prog)
        BY <1>a, <3>1 DEF TapeType
      <4>2. prog[ip[p] + 1] \in Op
        BY <1>a, <4>1, ElementOfSeq DEF TapeType
      <4>3. todo' = [todo EXCEPT ![p] = Steps(prog[ip[p] + 1])]
        BY <1>3, <3>1 DEF NextOp
      <4>4. QED BY <4>2, <4>3
    <3>2. CASE ~(ip[p] < Len(prog))
      BY <1>3, <3>2, AllowedType DEF NextOp
    <3>3. QED BY <3>1, <3>2
  <2>2. todo'[p] = Steps(o)
    BY <1>a, <2>1 DEF TapeType
  <2>3. o.op \in {"tapes", "join", "dist"} /\ o.ts \in SUBSET Helper /\ o.n \in Nat
    BY DEF Op
  <2>4. /\ Step("dist", {}, o.n) \in Todo /\ Step("fill", o.ts, o.n) \in Todo
        /\ Step("sched", o.ts, 0) \in Todo /\ Step("join", o.ts, 0) \in Todo
    BY <2>3, StepType
  <2>5. \A d, S, n : Step(d, S, n).do = d
    BY DEF Step
  <2>6. ~SharingList(Steps(o))
    <3>1. CASE o.op = "join"
      BY <2>4, <2>5, <3>1, SharingHeads DEF Steps
    <3>2. CASE o.op = "dist"
      BY <2>4, <2>5, <3>2, SharingHeads DEF Steps
    <3>3. CASE o.op = "tapes"
      <4>1. Steps(o) = Central(o.n) \o <<Step("fill", o.ts, o.n), Step("sched", o.ts, 0)>>
        BY <3>3 DEF Steps
      <4>2. <<Step("fill", o.ts, o.n), Step("sched", o.ts, 0)>> \in Seq(Todo)
        BY <2>4
      <4>3. CASE o.n = 0
        <5>1. Steps(o) = <<Step("fill", o.ts, o.n), Step("sched", o.ts, 0)>>
          BY <4>1, <4>2, <4>3, ConcatEmptySeq DEF Central
        <5>2. QED BY <2>4, <2>5, <5>1, SharingHeads
      <4>4. CASE o.n # 0
        <5>1. Steps(o) = <<Step("dist", {}, o.n)>>
                         \o <<Step("fill", o.ts, o.n), Step("sched", o.ts, 0)>>
          BY <4>1, <4>4 DEF Central
        <5>2. QED BY <2>4, <2>5, <4>2, <5>1, SharingHeads
      <4>5. QED BY <4>3, <4>4
    <3>4. QED BY <2>3, <3>1, <3>2, <3>3
  <2>7. QED BY <1>1, <2>2, <2>6 DEF Sharing
<1>4. ASSUME NEW t \in Helper, FillBuffers(p, t) \/ RunTape(p, t) \/ JoinTape(p, t)
      PROVE  ~Sharing(p)'
  <2>1. PICK b : DoneWith(p, t, b) /\ b \in {<<>>, Central(Head(todo[p]).n)}
    BY <1>4 DEF FillBuffers, RunTape, JoinTape
  <2>2. todo[p] # <<>> /\ Head(todo[p]).do \in {"fill", "sched", "join"}
    BY <1>4 DEF FillBuffers, RunTape, JoinTape, Doing
  <2>3. PICK k \in 1 .. Len(prog) : k = ip[p]
    BY <1>a, <2>2 DEF ListOK
  <2>4. PICK e \in {"fill", "sched", "join"}, Q \in SUBSET Helper, c \in Nat :
           /\ Head(todo[p]) = Step(e, Q, c)
           /\ Tail(todo[p]) = <<>> \/ Tail(todo[p]) = <<Step("sched", prog[k].ts, 0)>>
    <3>1. CASE Head(todo[p]).do = "fill"
      <4>1. PICK S \in SUBSET Helper : Transferring(p, k, S)
        BY <1>a, <2>2, <2>3, <3>1, ListAt
      <4>2. QED BY <1>a, <4>1, HeadsAt, OperationSteps
    <3>2. CASE Head(todo[p]).do = "sched"
      <4>1. PICK S \in SUBSET Helper : Starting(p, k, S)
        BY <1>a, <2>2, <2>3, <3>2, ListAt
      <4>2. QED BY <1>a, <4>1, HeadsAt
    <3>3. CASE Head(todo[p]).do = "join"
      <4>1. Joining(p, k)
        BY <1>a, <2>2, <2>3, <3>3, ListAt
      <4>2. {} \in SUBSET Helper
        OBVIOUS
      <4>3. Tail(todo[p]) = <<>> /\ Head(todo[p]) = Step("join", prog[k].ts, 0)
        BY <1>a, <4>1, <4>2, HeadsAt
      <4>4. prog[k].ts \in SUBSET Helper
        BY <1>a, <4>2, OperationSteps
      <4>5. QED BY <4>3, <4>4
    <3>4. QED BY <2>2, <3>1, <3>2, <3>3
  <2>5. PICK V \in SUBSET Helper : V = Q \ {t}
    OBVIOUS
  <2>6. PICK s \in Seq(Todo) : s = Tail(todo[p]) /\ ~SharingList(s)
    <3>1. Step("sched", prog[k].ts, 0) \in Todo /\ Step("sched", prog[k].ts, 0).do = "sched"
      <4>1. {} \in SUBSET Helper
        OBVIOUS
      <4>2. QED BY <1>a, <4>1, OperationSteps DEF Step
    <3>2. <<>> \in Seq(Todo) /\ <<Step("sched", prog[k].ts, 0)>> \in Seq(Todo)
      BY <3>1
    <3>3. QED BY <2>4, <3>1, <3>2, SharingHeads
  <2>7. PICK h \in Todo : h = Step(e, V, c) /\ h.do \in {"fill", "sched", "join"}
    BY StepType DEF Step
  <2>8. /\ V = {} => todo'[p] = <<>> \o s
        /\ V # {} => todo'[p] = (b \o <<h>>) \o s
    <3>1. DoneWith(p, t, b) /\ TapeType
      BY <1>a, <2>1
    <3>2. \A d, R, m : Head(todo[p]) = Step(d, R, m) =>
              /\ R \ {t} = {} => todo'[p] = <<>> \o Tail(todo[p])
              /\ R \ {t} # {} =>
                    todo'[p] = (b \o <<Step(d, R \ {t}, m)>>) \o Tail(todo[p])
      BY <3>1, DoneWithAt
    <3>3. Head(todo[p]) = Step(e, Q, c)
      BY <2>4
    <3>4. /\ V = {} => todo'[p] = <<>> \o Tail(todo[p])
          /\ V # {} => todo'[p] = (b \o <<Step(e, V, c)>>) \o Tail(todo[p])
      BY <2>5, <3>2, <3>3, Zenon
    <3>5. QED BY <2>6, <2>7, <3>4
  <2>9. ~SharingList(todo'[p])
    <3>1. CASE V = {}
      BY <2>6, <2>8, <3>1, ConcatEmptySeq
    <3>2. CASE V # {} /\ b = <<>>
      <4>1. <<>> \o <<h>> = <<h>>
        <5>1. <<h>> \in Seq(Todo)
          OBVIOUS
        <5>2. QED BY <5>1, ConcatEmptySeq
      <4>2. QED BY <2>6, <2>7, <2>8, <3>2, <4>1, SharingHeads
    <3>3. CASE V # {} /\ b # <<>>
      <4>1. PICK x \in Todo : b = <<x>> /\ x.do = "dist"
        <5>1. b = Central(Head(todo[p]).n) /\ Head(todo[p]).n \in Nat
          BY <1>a, <2>1, <2>2, <3>3, HeadType
        <5>2. b = <<Step("dist", {}, Head(todo[p]).n)>>
          BY <3>3, <5>1 DEF Central
        <5>3. Step("dist", {}, Head(todo[p]).n) \in Todo
          BY <5>1, StepType
        <5>4. QED BY <5>2, <5>3 DEF Step
      <4>2. (<<x>> \o <<h>>) \o s = <<x>> \o (<<h>> \o s) /\ <<h>> \o s \in Seq(Todo)
        <5>1. <<x>> \in Seq(Todo) /\ <<h>> \in Seq(Todo)
          OBVIOUS
        <5>2. QED BY <5>1, ConcatAssociative, ConcatProperties
      <4>3. QED BY <2>8, <3>3, <4>1, <4>2, SharingHeads
    <3>4. QED BY <3>1, <3>2, <3>3
  <2>10. QED BY <2>9 DEF Sharing
<1>5. QED BY <1>1, <1>2, <1>3, <1>4

\* The other parties' distributes go on.
LEMMA OthersMade ==
    ASSUME OrderInv, MadeInv, NEW p \in Party, TapeStep(p), NEW q \in Party, q # p,
           made'[q] = made[q]
    PROVE  MadeOK(q)'
<1>a. TypeInv /\ TapeType /\ MadeOK(q)
  BY DEF OrderInv, CountInv, TypeInv, MadeInv
<1>1. /\ Grows /\ wpc' = wpc
      /\ ip'[q] = ip[q] /\ todo'[q] = todo[q] /\ need'[q] = need[q]
      /\ \A u \in Thread : in'[q][u] = in[q][u]
  BY <1>a, TapeFrame
<1>2. ASSUME Sharing(q)
      PROVE  /\ prog'[ip[q]] = prog[ip[q]] /\ Free(ip[q])' = Free(ip[q])
             /\ \A u \in Free(ip[q]) : Through(q, u)' = Through(q, u)
  <2>1. PICK k \in 1 .. Len(prog) : k = ip[q]
    BY <1>2, SharingRuns
  <2>2. prog'[k] = prog[k] /\ Free(k)' = Free(k)
    BY <1>a, <1>1, GrownProgram
  <2>3. \A u \in Free(k) : Through(q, u)' = Through(q, u)
    BY <1>1 DEF Through, Free, Helper
  <2>4. Free(ip[q])' = Free(k)'
    BY <1>1, <2>1 DEF Free, Outstanding
  <2>5. QED BY <2>1, <2>2, <2>3, <2>4
<1>3. QED BY <1>a, <1>1, <1>2, MadeStays

\* What has to hold after a step for a distribute of party p to be under way.
LEMMA MadeAfter ==
    ASSUME NEW p \in Party, NEW k, ip'[p] = k, NEW S, Free(k)' = S,
           SharingList(todo'[p]), NEW n, need'[p] = n, prog'[k].n = n,
           NEW D, D = {t \in S : Through(p, t)'},
           NEW h, Head(todo'[p]) = h,
           made'[p] = Shares(S, n, D) \cup (IF h.do = "wrap" THEN {Remainder(S, n)} ELSE {})
    PROVE  MadeOK(p)'
<1>1. Sharing(p)'
  BY DEF Sharing
<1>2. Made(p)' = Shares(S, n, D) \cup (IF h.do = "wrap" THEN {Remainder(S, n)} ELSE {})
  BY DEF Made, Shares, Share, Remainder
<1>3. QED BY <1>1, <1>2 DEF MadeOK

\* A distribute begins with nothing made.
LEMMA DistributeMade ==
    ASSUME OrderInv, MadeInv, NEW p \in Party, Distribute(p)
    PROVE  MadeOK(p)'
<1>a. TapeStep(p) /\ UNCHANGED <<prog, over, ip>>
      /\ todo[p] # <<>> /\ Head(todo[p]).do \in {"dist", "inner"}
  BY DEF TapeStep, Distribute, Doing
<1>b. /\ TypeInv /\ InOrder(p) /\ ListOK(p) /\ TapeType /\ QueueType
      /\ ip[p] \in 1 .. Len(prog) /\ ip[p] \in Nat
      /\ UNCHANGED <<wpc, job>>
  BY <1>a, WithinOperation
<1> PICK k \in 1 .. Len(prog) : k = ip[p]
  BY <1>b
<1>c. Courses(p, k) /\ Free(k)' = Free(k)
  BY <1>a, WithinOperation
<1>d. RunsMain(p, 0) /\ HistoryType /\ MadeOK(p)
  BY <1>a, <1>b, TapeFrame DEF TypeInv, MadeInv
<1>e. Doing(p, "dist") <=> Head(todo[p]).do = "dist"
  BY <1>a, <1>d DEF Doing
<1>f. PICK av \in SUBSET Helper, js \in [Thread -> Job], own \in Job, id \in Nat, n \in Nat :
         Given(p, av, js, own, id, n)
  BY <1>b, <1>d, DistributeGives
<1>g. /\ n = Head(todo[p]).n /\ av = FindAvailable(p) /\ Schedule(p, av, js)
      /\ todo'[p] = (IF Doing(p, "dist") /\ prog[ip[p]].nest
                     THEN <<Step("inner", {}, n)>> ELSE <<>>)
                    \o <<OwnStep(own)>> \o Tail(todo[p])
      /\ need' = (IF Doing(p, "dist") THEN [need EXCEPT ![p] = n] ELSE need)
      /\ made' = (IF Doing(p, "dist") THEN [made EXCEPT ![p] = {}] ELSE made)
  BY <1>f DEF Given
<1>h. OwnStep(own) \in Todo /\ OwnStep(own).do = "own"
      /\ Step("inner", {}, n) \in Todo /\ Step("inner", {}, n).do = "inner"
  BY StepType DEF OwnStep, Todo, Step
<1>1. /\ Head(todo[p]) = Step(Head(todo[p]).do, {}, prog[k].n)
      /\ Course(p, {}, Outstanding(k))
      /\ Head(todo[p]).do = "inner" => Free(k) = {} /\ prog[k].n = n
  <2>1. CASE Head(todo[p]).do = "dist"
    <3>1. PICK S \in SUBSET Helper : Beginning(p, k, S)
      BY <1>a, <1>b, <2>1, ListAt
    <3>2. Head(todo[p]) = Step("dist", {}, prog[k].n)
      BY <1>b, <3>1, HeadsAt
    <3>3. QED BY <1>c, <2>1, <3>1, <3>2 DEF Courses
  <2>2. CASE Head(todo[p]).do = "inner"
    <3>1. Nesting(p, k, Step("inner", {}, prog[k].n))
      BY <1>a, <1>b, <2>2, ListAt
    <3>2. Step("inner", {}, prog[k].n) \in Todo /\ {} \in SUBSET Helper
      BY <1>b, OperationSteps
    <3>3. Head(todo[p]) = Step("inner", {}, prog[k].n)
      BY <1>b, <3>1, <3>2, HeadsAt
    <3>4. Free(k) = {}
      BY <3>1 DEF Nesting, DistAt
    <3>5. prog[k].n = n
      BY <1>g, <3>3 DEF Step
    <3>6. QED BY <1>c, <2>2, <3>1, <3>2, <3>3, <3>4, <3>5 DEF Courses
  <2>3. QED BY <1>a, <2>1, <2>2
<1>2. av = Free(k) /\ \A t \in Free(k) : Idle(p, t)
  BY <1>a, <1>1, <1>g, AvailableFree
<1>3. n = prog[k].n
  BY <1>1, <1>g DEF Step
<1>4. need'[p] = n /\ made'[p] = {}
  <2>1. CASE Head(todo[p]).do = "dist"
    BY <1>d, <1>e, <1>g, <2>1 DEF HistoryType
  <2>2. CASE Head(todo[p]).do = "inner"
    <3>1. Sharing(p)
      BY <1>a, <2>2 DEF Sharing, SharingList
    <3>2. need[p] = prog[k].n /\ made[p] = {}
      BY <1>1, <1>d, <2>2, <3>1 DEF MadeOK, Made, Shares
    <3>3. QED BY <1>3, <1>e, <1>g, <2>2, <3>2
  <2>3. QED BY <1>a, <2>1, <2>2
<1>5. PICK h : /\ SharingList(todo'[p]) /\ Head(todo'[p]) = h
               /\ h.do \in {"inner", "own"}
  <2>1. PICK s \in Seq(Todo) : s = Tail(todo[p])
    <3>1. todo[p] \in Seq(Todo) /\ todo[p] # <<>>
      BY <1>a, <1>b DEF TapeType
    <3>2. Tail(todo[p]) \in Seq(Todo)
      BY <3>1
    <3>3. QED BY <3>2
  <2>2. CASE Doing(p, "dist") /\ prog[ip[p]].nest
    <3>1. todo'[p] = (<<Step("inner", {}, n)>> \o <<OwnStep(own)>>) \o s
      BY <1>g, <2>1, <2>2
    <3>2. PICK x \in Todo, y \in Todo : x = Step("inner", {}, n) /\ y = OwnStep(own)
      BY <1>h
    <3>3. (<<x>> \o <<y>>) \o s = <<x>> \o (<<y>> \o s) /\ <<y>> \o s \in Seq(Todo)
      <4>1. <<x>> \in Seq(Todo) /\ <<y>> \in Seq(Todo)
        OBVIOUS
      <4>2. QED BY <4>1, ConcatAssociative, ConcatProperties
    <3>4. Head(todo'[p]) = x
      BY <3>1, <3>2, <3>3, ListFacts
    <3>5. SharingList(todo'[p])
      BY <1>h, <3>1, <3>2, <3>3, SharingHeads
    <3>6. QED BY <1>h, <3>2, <3>4, <3>5
  <2>3. CASE ~(Doing(p, "dist") /\ prog[ip[p]].nest)
    <3>1. todo'[p] = (<<>> \o <<OwnStep(own)>>) \o s
      BY <1>g, <2>1, <2>3
    <3>2. <<>> \o <<OwnStep(own)>> = <<OwnStep(own)>>
      <4>1. <<OwnStep(own)>> \in Seq(Todo)
        BY <1>h
      <4>2. QED BY <4>1, ConcatEmptySeq
    <3>3. SharingList(todo'[p]) /\ Head(todo'[p]) = OwnStep(own)
      BY <1>h, <3>1, <3>2, SharingHeads, ListFacts
    <3>4. QED BY <1>h, <3>3
  <2>4. QED BY <2>2, <2>3
<1>6. ASSUME NEW t \in Free(k) PROVE ~Through(p, t)'
  <2>1. t \in Thread /\ t \in av
    BY <1>2 DEF Helper
  <2>2. PICK j \in Job : j = js[t]
    BY <1>f, <2>1
  <2>3. in'[p][t] = Append(in[p][t], j)
    BY <1>b, <1>f, <1>g, <2>1, <2>2, ScheduleAt
  <2>4. in[p][t] = <<>>
    BY <1>2 DEF Idle, Standing
  <2>5. Append(<<>>, j) # <<>>
    OBVIOUS
  <2>6. QED BY <2>3, <2>4, <2>5 DEF Through
<1>7. PICK S : S = Free(k)
  OBVIOUS
<1>8. PICK D : D = {t \in S : Through(p, t)'}
  OBVIOUS
<1>9. made'[p] = Shares(S, n, D) \cup (IF h.do = "wrap" THEN {Remainder(S, n)} ELSE {})
  <2>1. D = {}
    BY <1>6, <1>7, <1>8
  <2>2. QED BY <1>4, <1>5, <2>1 DEF Shares
<1>10. ip'[p] = k /\ Free(k)' = S /\ need'[p] = n /\ prog'[k].n = n
  BY <1>3, <1>4, <1>7, <1>a, <1>c
<1>11. QED BY <1>5, <1>8, <1>9, <1>10, MadeAfter

\* The caller adds its own slice.
LEMMA OwnSliceMade ==
    ASSUME OrderInv, MadeInv, NEW p \in Party, OwnSlice(p)
    PROVE  MadeOK(p)'
<1>a. TapeStep(p) /\ UNCHANGED <<prog, over, ip, available, in, out, need>>
      /\ todo[p] # <<>> /\ Head(todo[p]).do = "own"
  BY DEF TapeStep, OwnSlice, Doing, queueVars
<1>b. /\ TypeInv /\ InOrder(p) /\ ListOK(p) /\ TapeType
      /\ ip[p] \in 1 .. Len(prog)
      /\ UNCHANGED <<wpc, job>>
  BY <1>a, WithinOperation
<1> PICK k \in 1 .. Len(prog) : k = ip[p]
  BY <1>b
<1>c. Free(k)' = Free(k) /\ made \in [Party -> SUBSET (Thread \X Nat \X Nat)]
  BY <1>a, <1>b, WithinOperation DEF TypeInv, HistoryType
<1>d. PICK S \in SUBSET Helper : S = Free(k)
  BY DEF Free
<1>e. PICK n : n = prog[k].n
  OBVIOUS
<1>f. todo'[p] = (IF available[p] = {} THEN <<>> ELSE <<Step("wrap", available[p], 0)>>)
                 \o Tail(todo[p])
  BY <1>b DEF OwnSlice, TapeType
<1>g. \/ \E R \in SUBSET Helper : Working(p, k, R)
      \/ Nesting(p, k, OwnStep(SliceJob(0, 0, prog[k].n)))
  BY <1>a, <1>b, ListAt
<1>h. PICK D : D = {t \in S : Through(p, t)'}
  OBVIOUS
<1>1. need[p] = n /\ made[p] = Shares(S, n, D)
  <2>1. Sharing(p)
    BY <1>a DEF Sharing, SharingList
  <2>2. need[p] = n /\ made[p] = Made(p)
    BY <2>1, <1>e DEF MadeInv, MadeOK
  <2>3. D = {t \in S : Through(p, t)}
    BY <1>a, <1>b, <1>h DEF Through
  <2>4. QED BY <1>a, <1>d, <2>2, <2>3 DEF Made
<1>i. PICK j : j = Head(todo[p]).j
  OBVIOUS
<1>j. made'[p] = (IF j.prog = 0 THEN made[p] ELSE made[p] \cup {<<0, j.lo, j.hi>>})
  <2>1. made' = [made EXCEPT ![p] = IF j.prog = 0 THEN made[p]
                                    ELSE made[p] \cup {<<0, j.lo, j.hi>>}]
    BY <1>i DEF OwnSlice, Produced
  <2>2. QED BY <1>c, <2>1
<1>2. ASSUME NEW R \in SUBSET Helper, Working(p, k, R)
      PROVE  MadeOK(p)'
  <2>1. /\ Part(k, R) /\ available[p] = S
        /\ Tail(todo[p]) = Filling(k, R) /\ Filling(k, R) \in Seq(Todo)
        /\ Head(todo[p]) = OwnStep(OwnSliceOf(k))
    BY <1>2, <1>b, <1>d, HeadsAt, OperationSteps DEF Working
  <2>2. j = OwnSliceOf(k)
    BY <1>i, <2>1 DEF OwnStep
  <2>3. j.prog = k /\ k # 0 /\ <<0, j.lo, j.hi>> = Remainder(S, n)
    BY <1>d, <1>e, <2>2 DEF OwnSliceOf, SliceJob, Remainder
  <2>4. made'[p] = Shares(S, n, D) \cup {Remainder(S, n)}
    BY <1>1, <1>j, <2>3
  <2>5. CASE S = {}
    <3>1. todo'[p] = Filling(k, R)
      BY <1>f, <2>1, <2>5, ConcatEmptySeq
    <3>2. ~Sharing(p)'
      BY <1>b, <3>1, FillingQuiet DEF Sharing
    <3>3. made'[p] = Shares(S, n, S) \cup {Remainder(S, n)}
      BY <1>h, <2>4, <2>5
    <3>4. need'[p] = n
      BY <1>1, <1>a
    <3>5. \E Q \in SUBSET Helper :
             (made[p] = Shares(Q, need[p], Q) \cup {Remainder(Q, need[p])})'
      BY <3>3, <3>4 DEF Shares, Share, Remainder
    <3>6. QED BY <3>2, <3>5 DEF MadeOK
  <2>6. CASE S # {}
    <3>a. PICK h \in Todo : h = Step("wrap", S, 0) /\ h.do = "wrap"
      BY <1>b, OperationSteps DEF Step
    <3>1. todo'[p] = <<h>> \o Filling(k, R)
      BY <1>f, <2>1, <2>6, <3>a
    <3>2. SharingList(todo'[p]) /\ Head(todo'[p]) = h
      BY <2>1, <3>a, <3>1, SharingHeads, ListFacts
    <3>3. made'[p] = Shares(S, n, D) \cup (IF h.do = "wrap" THEN {Remainder(S, n)} ELSE {})
      BY <2>4, <3>a
    <3>4. ip'[p] = k /\ Free(k)' = S /\ need'[p] = n /\ prog'[k].n = n
      BY <1>1, <1>a, <1>c, <1>d, <1>e
    <3>5. QED BY <1>h, <3>2, <3>3, <3>4, MadeAfter
  <2>7. QED BY <2>5, <2>6
<1>3. ASSUME Nesting(p, k, OwnStep(SliceJob(0, 0, prog[k].n)))
      PROVE  MadeOK(p)'
  <2>a. /\ OwnStep(SliceJob(0, 0, prog[k].n)) \in Todo /\ OwnStep(OwnSliceOf(k)) \in Todo
        /\ {} \in SUBSET Helper
    BY <1>b, OperationSteps
  <2>1. /\ available[p] = {} /\ Tail(todo[p]) = <<OwnStep(OwnSliceOf(k))>>
        /\ Head(todo[p]) = OwnStep(SliceJob(0, 0, prog[k].n))
    BY <1>3, <1>b, <2>a, HeadsAt DEF Nesting
  <2>2. j.prog = 0
    BY <1>i, <2>1 DEF OwnStep, SliceJob
  <2>b. PICK h \in Todo : h = OwnStep(OwnSliceOf(k)) /\ h.do = "own"
    BY <2>a DEF OwnStep
  <2>3. todo'[p] = <<h>>
    <3>1. <<h>> \in Seq(Todo)
      OBVIOUS
    <3>2. QED BY <1>f, <2>1, <2>b, <3>1, ConcatEmptySeq
  <2>4. SharingList(todo'[p]) /\ Head(todo'[p]) = h
    BY <2>3, <2>b, SharingHeads
  <2>5. made'[p] = Shares(S, n, D) \cup (IF h.do = "wrap" THEN {Remainder(S, n)} ELSE {})
    BY <1>1, <1>j, <2>2, <2>b
  <2>6. ip'[p] = k /\ Free(k)' = S /\ need'[p] = n /\ prog'[k].n = n
    BY <1>1, <1>a, <1>c, <1>d, <1>e
  <2>7. QED BY <1>h, <2>4, <2>5, <2>6, MadeAfter
<1>4. QED BY <1>g, <1>2, <1>3

\* The last answer collected, all slices are made.
LEMMA WrapUpMade ==
    ASSUME OrderInv, MadeInv, NEW p \in Party, NEW t \in Helper, WrapUp(p, t)
    PROVE  MadeOK(p)'
<1>a. TapeStep(p) /\ UNCHANGED <<prog, over, ip, available, need, made>>
      /\ todo[p] # <<>> /\ Head(todo[p]).do = "wrap"
      /\ Result(p, t) /\ DoneWith(p, t, <<>>) /\ t \in Head(todo[p]).ts
  BY DEF TapeStep, WrapUp, Doing, At, historyVars
<1>b. /\ TypeInv /\ InOrder(p) /\ ListOK(p) /\ TapeType /\ QueueType
      /\ ip[p] \in 1 .. Len(prog)
      /\ UNCHANGED <<wpc, job>>
  BY <1>a, WithinOperation
<1> PICK k \in 1 .. Len(prog) : k = ip[p]
  BY <1>b
<1>c. Courses(p, k) /\ Free(k)' = Free(k)
  BY <1>a, WithinOperation
<1>d. PICK S \in SUBSET Helper : S = Free(k)
  BY DEF Free
<1>e. PICK n : n = prog[k].n
  OBVIOUS
<1>f. t \in Thread /\ \A u \in S : u \in Helper /\ u \in Thread
  BY DEF Helper
<1> PICK X \in SUBSET Helper, W \in SUBSET Helper : Collecting(p, k, X, W)
  BY <1>a, <1>b, ListAt
<1>g. PICK T : T = Outstanding(k)
  OBVIOUS
<1>1. /\ W \subseteq S
      /\ Tail(todo[p]) = Filling(k, X) /\ Filling(k, X) \in Seq(Todo)
      /\ Head(todo[p]) = Step("wrap", W, 0)
  BY <1>b, <1>d, HeadsAt, OperationSteps DEF Collecting
<1>2. t \in W /\ Course(p, W, T)
  <2>1. t \in W
    BY <1>1, <1>a DEF Step
  <2>2. Course(p, W, Outstanding(k))
    BY <1>c DEF Courses
  <2>3. QED BY <2>1, <2>2, <1>g
<1>3. \A u \in Thread : in'[p][u] = in[p][u]
  BY <1>a, <1>b, <1>f, ResultAt
<1>h. PICK D : D = {u \in S : Through(p, u)'}
  OBVIOUS
<1>4. need[p] = n /\ made[p] = Shares(S, n, D) \cup {Remainder(S, n)}
  <2>1. Sharing(p)
    BY <1>a DEF Sharing, SharingList
  <2>2. need[p] = n /\ made[p] = Made(p)
    BY <2>1, <1>e DEF MadeInv, MadeOK
  <2>3. D = {u \in S : Through(p, u)}
    BY <1>3, <1>b, <1>f, <1>h DEF Through
  <2>4. QED BY <1>a, <1>d, <2>2, <2>3 DEF Made
<1>i. PICK V \in SUBSET Helper : V = W \ {t}
  OBVIOUS
<1>j. PICK h \in Todo : h = Step("wrap", V, 0) /\ h.do = "wrap"
  BY <1>b, OperationSteps DEF Step
<1>5. /\ V = {} => todo'[p] = Filling(k, X)
      /\ V # {} => todo'[p] = <<h>> \o Filling(k, X)
  <2>1. DoneWith(p, t, <<>>) /\ TapeType
    BY <1>a, <1>b
  <2>2. \A d, R, m : Head(todo[p]) = Step(d, R, m) =>
            /\ R \ {t} = {} => todo'[p] = <<>> \o Tail(todo[p])
            /\ R \ {t} # {} =>
                  todo'[p] = (<<>> \o <<Step(d, R \ {t}, m)>>) \o Tail(todo[p])
    BY <2>1, DoneWithAt
  <2>3. Head(todo[p]) = Step("wrap", W, 0)
    BY <1>1
  <2>4. /\ V = {} => todo'[p] = <<>> \o Tail(todo[p])
        /\ V # {} => todo'[p] = (<<>> \o <<Step("wrap", V, 0)>>) \o Tail(todo[p])
    BY <1>i, <2>2, <2>3, Zenon
  <2>5. <<>> \o Filling(k, X) = Filling(k, X) /\ <<>> \o <<h>> = <<h>>
    <3>1. <<h>> \in Seq(Todo)
      OBVIOUS
    <3>2. QED BY <1>1, <3>1, ConcatEmptySeq
  <2>6. QED BY <1>1, <1>j, <2>4, <2>5
<1>6. CASE V = {}
  <2>1. ASSUME NEW u \in S PROVE Through(p, u)
    <3>1. /\ u \in W => Flight(p, u, GivenSlice(ip[p], u))
          /\ u \notin W \cup T => Idle(p, u)
      BY <1>2, <1>a, <1>b, <1>f, CourseHas
    <3>2. u \notin T
      BY <1>d, <1>g DEF Free
    <3>3. CASE u \in W
      <4>1. PICK j : Flight(p, u, j)
        BY <3>1, <3>3
      <4>2. out[p][u] # <<>>
        BY <1>6, <1>a, <1>i, <3>3 DEF Result
      <4>3. QED BY <1>f, <4>1, <4>2, AnswerThere DEF Through
    <3>4. CASE u \notin W
      BY <3>1, <3>2, <3>4 DEF Idle, Standing, Through
    <3>5. QED BY <3>3, <3>4
  <2>2. D = S
    BY <1>3, <1>b, <1>f, <1>h, <2>1 DEF Through
  <2>3. ~Sharing(p)'
    BY <1>5, <1>6, <1>b, FillingQuiet DEF Sharing
  <2>4. made'[p] = Shares(S, n, S) \cup {Remainder(S, n)} /\ need'[p] = n
    BY <1>4, <1>a, <2>2
  <2>5. \E Q \in SUBSET Helper :
           (made[p] = Shares(Q, need[p], Q) \cup {Remainder(Q, need[p])})'
    BY <2>4 DEF Shares, Share, Remainder
  <2>6. QED BY <2>3, <2>5 DEF MadeOK
<1>7. CASE V # {}
  <2>1. SharingList(todo'[p]) /\ Head(todo'[p]) = h
    BY <1>1, <1>5, <1>7, <1>j, SharingHeads, ListFacts
  <2>2. made'[p] = Shares(S, n, D) \cup (IF h.do = "wrap" THEN {Remainder(S, n)} ELSE {})
    BY <1>4, <1>a, <1>j
  <2>3. ip'[p] = k /\ Free(k)' = S /\ need'[p] = n /\ prog'[k].n = n
    BY <1>4, <1>a, <1>c, <1>d, <1>e
  <2>4. QED BY <1>h, <2>1, <2>2, <2>3, MadeAfter
<1>8. QED BY <1>6, <1>7

\* Every step of the main tape keeps the account.
LEMMA TapeMade ==
    ASSUME OrderInv, MadeInv, NEW p \in Party, TapeStep(p)
    PROVE  MadeInv'
<1> SUFFICES ASSUME NEW q \in Party PROVE MadeOK(q)'
  BY DEF MadeInv
<1>a. TypeInv /\ ProgOK /\ InOrder(p) /\ MadeOK(p) /\ MadeOK(q) /\ HistoryType
  BY DEF OrderInv, CountInv, TypeInv, MadeInv
<1>1. CASE q # p
  <2>1. made'[q] = made[q]
    <3>1. CASE Distribute(p)
      <4>1. QueueType /\ TapeType
        BY <1>a DEF TypeInv
      <4>2. PICK av \in SUBSET Helper, js \in [Thread -> Job], own \in Job,
                 id \in Nat, n \in Nat : Given(p, av, js, own, id, n)
        BY <1>a, <3>1, <4>1, DistributeGives
      <4>3. made' = (IF Doing(p, "dist") THEN [made EXCEPT ![p] = {}] ELSE made)
        BY <4>2 DEF Given
      <4>4. QED BY <1>1, <1>a, <4>3 DEF HistoryType
    <3>2. CASE OwnSlice(p)
      BY <1>1, <1>a, <3>2 DEF OwnSlice, Produced, HistoryType
    <3>3. CASE ~Distribute(p) /\ ~OwnSlice(p)
      BY <3>3 DEF TapeStep, NextOp, EndOfTape, WrapUp, FillBuffers, RunTape,
         JoinTape, historyVars
    <3>4. QED BY <3>1, <3>2, <3>3
  <2>2. QED BY <1>1, <2>1, OthersMade
<1>2. CASE q = p
  <2>1. CASE Distribute(p)
    BY <1>2, <2>1, DistributeMade
  <2>2. CASE OwnSlice(p)
    BY <1>2, <2>2, OwnSliceMade
  <2>3. ASSUME NEW t \in Helper, WrapUp(p, t) PROVE MadeOK(p)'
    BY <2>3, WrapUpMade
  <2>4. CASE \/ NextOp(p) \/ EndOfTape(p)
             \/ \E t \in Helper : FillBuffers(p, t) \/ RunTape(p, t) \/ JoinTape(p, t)
    <3>1. ~Sharing(p)
      BY <2>4 DEF NextOp, EndOfTape, FillBuffers, RunTape, JoinTape, Doing,
         Sharing, SharingList
    <3>2. ~Sharing(p)' /\ made' = made /\ need' = need
      BY <1>a, <2>4, <3>1, QuietSteps
    <3>3. \/ need[p] = 0
          \/ \E S \in SUBSET Helper :
                made[p] = Shares(S, need[p], S) \cup {Remainder(S, need[p])}
      BY <1>a, <3>1 DEF MadeOK
    <3>a. ~Sharing(p)'
      BY <3>2
    <3>4. CASE need[p] = 0
      <4>1. need'[p] = 0
        BY <3>2, <3>4
      <4>2. QED BY <1>2, <3>a, <4>1 DEF MadeOK
    <3>5. CASE need[p] # 0
      <4>1. PICK n : n = need[p]
        OBVIOUS
      <4>2. PICK S \in SUBSET Helper : made[p] = Shares(S, n, S) \cup {Remainder(S, n)}
        BY <3>3, <3>5, <4>1
      <4>3. made'[p] = Shares(S, n, S) \cup {Remainder(S, n)} /\ need'[p] = n
        BY <3>2, <4>1, <4>2
      <4>4. \E Q \in SUBSET Helper :
               (made[p] = Shares(Q, need[p], Q) \cup {Remainder(Q, need[p])})'
        BY <4>3 DEF Shares, Share, Remainder
      <4>5. QED BY <1>2, <3>a, <4>4 DEF MadeOK
    <3>6. QED BY <3>4, <3>5
  <2>5. QED BY <1>2, <2>1, <2>2, <2>3, <2>4 DEF TapeStep
<1>3. QED BY <1>1, <1>2

\* At first nothing is made.
LEMMA InitMade == Init => MadeInv
  BY DEF Init, MadeInv, MadeOK, Sharing, SharingList

\* Every step keeps the account.
LEMMA NextMade ==
    ASSUME OrderInv, MadeInv, [Next]_vars
    PROVE  MadeInv'
<1>1. ASSUME UNCHANGED vars PROVE MadeInv'
  <2> SUFFICES ASSUME NEW q \in Party PROVE MadeOK(q)'
    BY DEF MadeInv
  <2>1. MadeOK(q) /\ UNCHANGED <<prog, ip, todo, made, need, wpc, in>>
    BY <1>1 DEF MadeInv, vars, tapeVars, historyVars, workerVars, queueVars
  <2>2. Free(ip[q])' = Free(ip[q]) /\ \A u : Through(q, u)' = Through(q, u)
    BY <2>1 DEF Free, Outstanding, Through
  <2>3. QED BY <2>1, <2>2, MadeStays
<1>2. QED
  BY <1>1, MachineMade, TapeMade, WorkerMade DEF Next

\* After a distribute every item is there once, and in only one slice.
LEMMA MadeCovers == OrderInv /\ MadeInv => SlicesCover
<1> SUFFICES ASSUME OrderInv, MadeInv, NEW p \in Party, RunsMain(p, 0),
                    ~(\E d \in {"inner", "own", "wrap"} : Doing(p, d)),
                    NEW i \in 0 .. need[p] - 1
             PROVE  Cardinality({s \in made[p] : s[2] <= i /\ i < s[3]}) = 1
  BY DEF SlicesCover
<1>1. ~Sharing(p)
  BY DEF Doing, Sharing, SharingList
<1>2. need[p] \in Nat
  BY DEF OrderInv, CountInv, TypeInv, HistoryType
<1>3. PICK n \in Nat : n = need[p] /\ i \in 0 .. n - 1
  BY <1>2
<1>4. PICK S \in SUBSET Helper : made[p] = Shares(S, n, S) \cup {Remainder(S, n)}
  BY <1>1, <1>3 DEF MadeInv, MadeOK
<1>5. QED BY <1>3, <1>4, CoveredOnce

\* Whatever the number of parties, threads and items, and however the tapes
\* interleave: after a distribute every item it asked for has been made by
\* exactly one thread (get_n_per_thread, wrap_up), and the main tape is run
\* exactly once although the signal {} names it too (Machine::run); until a
\* distribute nests another while threads are free, as WorkOnce says. Which jobs
\* exchange messages plays no part in it.
THEOREM WorkDoneOnce == Spec => []WorkOnce
<1> DEFINE I == TypeInv /\ (~Nests => OrderInv /\ MadeInv)
<1>1. Init => I
  BY InitType, InitOrder, InitMade
<1>2. I /\ [Next]_vars => I'
  <2> SUFFICES ASSUME TypeInv, ~Nests => OrderInv /\ MadeInv, [Next]_vars
               PROVE  TypeInv' /\ (~Nests' => OrderInv' /\ MadeInv')
    OBVIOUS
  <2>1. TypeInv'
    BY NextType
  <2>2. ASSUME ~Nests' PROVE OrderInv' /\ MadeInv'
    <3>1. OrderInv /\ MadeInv
      BY <2>2, NestsBefore
    <3>2. QED BY <2>2, <3>1, NextOrder, NextMade
  <2>3. QED BY <2>1, <2>2
<1>3. I => WorkOnce
  BY MadeCovers, OrderMain DEF WorkOnce
<1>4. QED BY <1>1, <1>2, <1>3, PTL DEF Spec

-----------------------------------------------------------------------------
(* The course of a party: the places thread 0 and the machine come to, and  *)
(* the jobs the threads have been assigned on the way. Where a party goes   *)
(* next depends on its place and the program only, so that all parties      *)
(* follow one course, which is why their threads begin the same jobs.       *)

Spot(at, k, s, av) == [at |-> at, ip |-> k, todo |-> s, av |-> av]
Spots == [at : {"new", "born", "on", "off"}, ip : Nat, todo : Seq(Todo),
          av : SUBSET Helper]
Stage(p) ==
    IF mpc[p] = "create" THEN "new"
    ELSE IF mpc[p] \in {"sync", "run"} THEN "born"
    ELSE IF mpc[p] \in {"joinmain", "stop"} THEN "on"
    ELSE "off"
Place(p) == Spot(Stage(p), ip[p], todo[p], available[p])

\* The jobs thread t has begun, and the next if it can begin one.
Waiting(p, t) ==
    IF wpc[p][t] \in {"unborn", "start", "loop"} /\ in[p][t] # <<>>
    THEN <<Head(in[p][t])>> ELSE <<>>
Assigned(p, t) == log[p][t] \o Waiting(p, t)

\* A step of the list that is about threads, without the first of them.
Lowest(S) == CHOOSE t \in S : \A u \in S : t <= u
Less(h) ==
    IF h.ts \ {Lowest(h.ts)} = {} THEN <<>>
    ELSE (IF h.do = "fill" THEN Central(h.n) ELSE <<>>)
         \o <<[h EXCEPT !.ts = h.ts \ {Lowest(h.ts)}]>>

\* The slices of a distribute at place x.
Spreads(x) == Head(x.todo).do \in {"dist", "inner"}
For(x) == IF Head(x.todo).do = "dist" THEN x.ip ELSE 0
Own(x) ==
    SliceJob(For(x), Cardinality(Free(x.ip))
                     * NPerThread(Head(x.todo).n, Cardinality(Free(x.ip))),
             Head(x.todo).n)
SliceAt(x, t) ==
    SliceOf(For(x), Head(x.todo).n, Cardinality(Free(x.ip)), Rank(Free(x.ip), t))

\* The list after the next step on it.
Follow(x) ==
    IF Spreads(x)
    THEN (IF Head(x.todo).do = "dist" /\ prog[x.ip].nest
          THEN <<Step("inner", {}, Head(x.todo).n)>> ELSE <<>>)
         \o <<OwnStep(Own(x))>> \o Tail(x.todo)
    ELSE IF Head(x.todo).do = "own"
    THEN (IF x.av = {} THEN <<>> ELSE <<Step("wrap", x.av, 0)>>) \o Tail(x.todo)
    ELSE Less(Head(x.todo)) \o Tail(x.todo)

\* Place x is not the last one known, the place after it, and the jobs thread t
\* is assigned in between.
GoesOn(x) ==
    \/ x.at \in {"new", "born"}
    \/ x.at = "on" /\ (x.todo # <<>> \/ x.ip < Len(prog) \/ over)
After(x) ==
    IF x.at = "new" THEN Spot("born", x.ip, x.todo, x.av)
    ELSE IF x.at = "born" THEN Spot("on", x.ip, x.todo, x.av)
    ELSE IF x.todo # <<>>
    THEN Spot("on", x.ip, Follow(x), IF Spreads(x) THEN Free(x.ip) ELSE x.av)
    ELSE IF x.ip < Len(prog) THEN Spot("on", x.ip + 1, Steps(prog[x.ip + 1]), x.av)
    ELSE Spot("off", x.ip, x.todo, x.av)
GivesInList(x, t) ==
    IF Spreads(x)
    THEN IF t = 0 THEN <<Own(x)>>
         ELSE IF t \in Free(x.ip) THEN <<SliceAt(x, t)>> ELSE <<>>
    ELSE IF Head(x.todo).do = "sched" /\ t = Lowest(Head(x.todo).ts)
    THEN <<TapeJob(x.ip)>>
    ELSE <<>>
Gives(x, t) ==
    IF x.at = "new" THEN <<NoJob>>
    ELSE IF x.at = "born" THEN IF t = 0 THEN <<TapeJob(0)>> ELSE <<>>
    ELSE IF x.todo # <<>> THEN GivesInList(x, t)
    ELSE IF x.ip < Len(prog) THEN <<>>
    ELSE <<StopJob>>

\* A step leaves party p at its place, or takes it to the next.
Stays(p) == Place(p)' = Place(p) /\ \A t \in Thread : Assigned(p, t)' = Assigned(p, t)
Advances(p, x) ==
    /\ GoesOn(x)' /\ Place(p)' = After(x)'
    /\ \A t \in Thread : Assigned(p, t)' = Assigned(p, t) \o Gives(x, t)'

\* What place x needs for the place after it to be known for good.
Within(x) == x.ip <= Len(prog) /\ (x.todo # <<>> => x.ip \in 1 .. Len(prog))

\* Where it goes on to, it still goes on to as the program grows.
LEMMA AfterStays ==
    ASSUME TapeType, Grows, NEW x \in Spots, Within(x)
    PROVE  /\ Within(x)'
           /\ GoesOn(x) => /\ GoesOn(x)' /\ After(x)' = After(x)
                           /\ \A t \in Thread : Gives(x, t)' = Gives(x, t)
<1>a. /\ Len(prog) \in Nat /\ Len(prog') \in Nat /\ Len(prog) <= Len(prog')
      /\ \A k \in 1 .. Len(prog) : prog'[k] = prog[k]
      /\ \A k \in 1 .. Len(prog) : Free(k)' = Free(k)
  BY GrownProgram
<1>b. x.ip \in Nat
  BY DEF Spots
<1>1. Within(x)'
  BY <1>a, <1>b DEF Within
<1>2. CASE x.at \in {"new", "born"}
  BY <1>1, <1>2 DEF GoesOn, After, Gives
<1>3. CASE x.at \notin {"new", "born"} /\ x.todo # <<>>
  <2>1. PICK k \in 1 .. Len(prog) : k = x.ip
    BY <1>3 DEF Within
  <2>2. prog'[k] = prog[k] /\ Free(k)' = Free(k)
    BY <1>a
  <2>3. Own(x)' = Own(x) /\ \A t : SliceAt(x, t)' = SliceAt(x, t)
    BY <2>1, <2>2 DEF Own, SliceAt, For, Rank
  <2>4. Follow(x)' = Follow(x) /\ Spreads(x)' = Spreads(x)
    BY <2>1, <2>2, <2>3 DEF Follow, Spreads
  <2>5. \A t : GivesInList(x, t)' = GivesInList(x, t)
    BY <2>1, <2>2, <2>3, <2>4 DEF GivesInList
  <2>6. After(x)' = After(x)
    BY <1>3, <2>1, <2>2, <2>4 DEF After
  <2>7. \A t : Gives(x, t)' = Gives(x, t)
    BY <1>3, <2>5 DEF Gives
  <2>8. GoesOn(x) => GoesOn(x)'
    BY <1>3 DEF GoesOn
  <2>9. QED BY <1>1, <2>6, <2>7, <2>8
<1>4. CASE x.at \notin {"new", "born"} /\ x.todo = <<>> /\ x.ip < Len(prog)
  <2>1. PICK k \in 1 .. Len(prog) : k = x.ip + 1
    BY <1>4, <1>a, <1>b
  <2>2. prog'[k] = prog[k] /\ x.ip < Len(prog')
    BY <1>4, <1>a, <1>b
  <2>3. After(x)' = After(x)
    BY <1>4, <2>1, <2>2 DEF After
  <2>4. \A t : Gives(x, t)' = Gives(x, t)
    BY <1>4, <2>2 DEF Gives
  <2>5. GoesOn(x) => GoesOn(x)'
    BY <2>2 DEF GoesOn
  <2>6. QED BY <1>1, <2>3, <2>4, <2>5
<1>5. CASE x.at \notin {"new", "born"} /\ x.todo = <<>> /\ ~(x.ip < Len(prog))
  <2> SUFFICES ASSUME GoesOn(x)
               PROVE  /\ GoesOn(x)' /\ After(x)' = After(x)
                      /\ \A t \in Thread : Gives(x, t)' = Gives(x, t)
    BY <1>1
  <2>1. over
    BY <1>5 DEF GoesOn
  <2>2. over' /\ prog' = prog
    BY <2>1 DEF Grows
  <2>3. GoesOn(x)'
    BY <1>5, <2>2 DEF GoesOn
  <2>4. After(x)' = After(x)
    BY <1>5, <2>2 DEF After
  <2>5. \A t : Gives(x, t)' = Gives(x, t)
    BY <1>5, <2>2 DEF Gives
  <2>6. QED BY <2>3, <2>4, <2>5
<1>6. QED BY <1>2, <1>3, <1>4, <1>5

\* Sequence a is the beginning of sequence b.
Starts(a, b) == \A k \in 1 .. Len(a) : k <= Len(b) /\ b[k] = a[k]

\* The places D and the jobs assigned E up to the n-th make a course.
Links(n, D, E) ==
    \A i \in 0 .. n - 1 :
        /\ GoesOn(D[i]) /\ D[i + 1] = After(D[i])
        /\ \A t \in Thread : E[i + 1][t] = E[i][t] \o Gives(D[i], t)
Mounts(n, E) ==
    \A i, j \in 0 .. n : i <= j => \A t \in Thread : Starts(E[i][t], E[j][t])
Trail(n, D, E) ==
    (\A i \in 0 .. n : Within(D[i])) /\ Links(n, D, E) /\ Mounts(n, E)

\* Party p is at its i-th place.
StandsAt(p, D, E, i) ==
    D[i] = Place(p) /\ \A t \in Thread : E[i][t] = Assigned(p, t)

Follows(n, D, E) ==
    Trail(n, D, E) /\ \A p \in Party : \E i \in 0 .. n : StandsAt(p, D, E, i)
TrailInv ==
    \E n \in Nat, D \in [Nat -> Spots], E \in [Nat -> [Thread -> Seq(Job)]] :
        Follows(n, D, E)

\* Beginnings of sequences.
LEMMA StartsFacts ==
    ASSUME NEW a \in Seq(Job), NEW b \in Seq(Job), NEW c \in Seq(Job)
    PROVE  /\ Starts(a, a) /\ Starts(a, a \o b)
           /\ Starts(a, b) /\ Starts(b, c) => Starts(a, c)
  BY DEF Starts

\* What a party is assigned and its place are of their types.
LEMMA AssignedType ==
    ASSUME TypeInv, NEW p \in Party
    PROVE  /\ Place(p) \in Spots
           /\ \A t \in Thread : Waiting(p, t) \in Seq(Job) /\ Assigned(p, t) \in Seq(Job)
<1>1. Stage(p) \in {"new", "born", "on", "off"}
  BY DEF Stage
<1>2. Place(p) \in Spots
  BY <1>1 DEF TypeInv, TapeType, Place, Spot, Spots
<1>3. ASSUME NEW t \in Thread PROVE Waiting(p, t) \in Seq(Job) /\ Assigned(p, t) \in Seq(Job)
  <2>1. in[p][t] \in Seq(Job) /\ log[p][t] \in Seq(Job)
    BY DEF TypeInv, QueueType, HistoryType
  <2>2. in[p][t] # <<>> => Head(in[p][t]) \in Job
    BY <2>1
  <2>3. Waiting(p, t) \in Seq(Job)
    BY <2>2 DEF Waiting
  <2>4. QED BY <2>1, <2>3 DEF Assigned
<1>4. QED BY <1>2, <1>3

\* What a thread is given between two places is jobs.
LEMMA GivesType ==
    ASSUME NEW x \in Spots, NEW t \in Thread
    PROVE  TapeType /\ Within(x) /\ GoesOn(x) => Gives(x, t) \in Seq(Job)
<1> SUFFICES ASSUME TapeType, Within(x), GoesOn(x)
             PROVE  Gives(x, t) \in Seq(Job)
  OBVIOUS
<1>a. x.ip \in Nat /\ x.todo \in Seq(Todo)
  BY DEF Spots
<1>1. <<NoJob>> \in Seq(Job) /\ <<TapeJob(0)>> \in Seq(Job) /\ <<StopJob>> \in Seq(Job)
  BY ConstantJobs
<1>2. ASSUME x.todo # <<>> PROVE GivesInList(x, t) \in Seq(Job)
  <2>1. Head(x.todo) \in Todo
    BY <1>2, <1>a
  <2>2. Head(x.todo).n \in Nat
    BY <2>1 DEF Todo
  <2>3. Free(x.ip) \in SUBSET Thread
    BY DEF Free, Helper
  <2>4. Cardinality(Free(x.ip)) \in Nat
    BY <2>3, CountType
  <2>5. Rank(Free(x.ip), t) \in Nat
    BY <2>3, CountType DEF Rank
  <2>6. For(x) \in Nat
    BY <1>a DEF For
  <2>7. SliceAt(x, t) \in Job
    BY <2>2, <2>4, <2>5, <2>6, SliceType DEF SliceAt
  <2>8. Own(x) \in Job
    <3>1. Cardinality(Free(x.ip)) * NPerThread(Head(x.todo).n, Cardinality(Free(x.ip))) \in Nat
      BY <2>2, <2>4, NPerThreadType, ProductType
    <3>2. QED BY <2>2, <2>6, <3>1 DEF Own, SliceJob, Job
  <2>9. TapeJob(x.ip) \in Job
    BY <1>a, ConstantJobs
  <2>10. <<SliceAt(x, t)>> \in Seq(Job) /\ <<Own(x)>> \in Seq(Job)
         /\ <<TapeJob(x.ip)>> \in Seq(Job) /\ <<>> \in Seq(Job)
    BY <2>7, <2>8, <2>9
  <2>11. QED BY <2>10 DEF GivesInList
<1>3. <<>> \in Seq(Job)
  OBVIOUS
<1>4. QED BY <1>1, <1>2, <1>3 DEF Gives

\* A course stays one as the program grows.
LEMMA TrailStays ==
    ASSUME TapeType, Grows, NEW n \in Nat, NEW D \in [Nat -> Spots],
           NEW E \in [Nat -> [Thread -> Seq(Job)]], Trail(n, D, E)
    PROVE  Trail(n, D, E)'
<1>1. ASSUME NEW i \in 0 .. n PROVE Within(D[i])'
  <2>1. D[i] \in Spots /\ Within(D[i])
    <3>1. i \in Nat
      OBVIOUS
    <3>2. D[i] \in Spots
      BY <3>1
    <3>3. QED BY <3>2 DEF Trail
  <2>2. PICK x \in Spots : x = D[i]
    BY <2>1
  <2>3. Within(x)'
    BY <2>1, <2>2, AfterStays
  <2>4. QED BY <2>2, <2>3
<1>2. ASSUME NEW i \in 0 .. n - 1
      PROVE  /\ GoesOn(D[i])' /\ D[i + 1] = After(D[i])'
             /\ \A t \in Thread : E[i + 1][t] = E[i][t] \o Gives(D[i], t)'
  <2>1. /\ D[i] \in Spots /\ Within(D[i]) /\ GoesOn(D[i]) /\ D[i + 1] = After(D[i])
        /\ \A t \in Thread : E[i + 1][t] = E[i][t] \o Gives(D[i], t)
    <3>1. i \in Nat /\ i \in 0 .. n
      OBVIOUS
    <3>2. D[i] \in Spots
      BY <3>1
    <3>3. Within(D[i])
      BY <3>1 DEF Trail
    <3>4. /\ GoesOn(D[i]) /\ D[i + 1] = After(D[i])
          /\ \A t \in Thread : E[i + 1][t] = E[i][t] \o Gives(D[i], t)
      BY Zenon DEF Trail, Links
    <3>5. QED BY <3>2, <3>3, <3>4
  <2>2. PICK x \in Spots : x = D[i]
    BY <2>1
  <2>3. GoesOn(x)' /\ After(x)' = After(x) /\ \A t \in Thread : Gives(x, t)' = Gives(x, t)
    BY <2>1, <2>2, AfterStays
  <2>4. GoesOn(D[i])' /\ After(D[i])' = After(D[i])
        /\ \A t \in Thread : Gives(D[i], t)' = Gives(D[i], t)
    BY <2>2, <2>3
  <2>5. QED BY <2>1, <2>4
<1>3. Links(n, D, E)'
  BY <1>2 DEF Links
<1>4. Mounts(n, E)'
  BY DEF Trail, Mounts
<1>5. QED BY <1>1, <1>3, <1>4 DEF Trail

\* A party that stays where it is stands where it stood.
LEMMA StandsStill ==
    ASSUME NEW p \in Party, Stays(p), NEW D, NEW E, NEW i, StandsAt(p, D, E, i)
    PROVE  StandsAt(p, D, E, i)'
<1>1. D[i] = Place(p)'
  BY DEF Stays, StandsAt
<1>2. \A t \in Thread : E[i][t] = Assigned(p, t)'
  BY DEF Stays, StandsAt
<1>3. QED BY <1>1, <1>2 DEF StandsAt

\* A party that goes on from a place that is not the last goes where the others
\* went before it.
LEMMA StandsNext ==
    ASSUME NEW p \in Party, NEW n \in Nat, NEW D \in [Nat -> Spots],
           NEW E \in [Nat -> [Thread -> Seq(Job)]], Trail(n, D, E)',
           NEW i \in 0 .. n - 1, StandsAt(p, D, E, i), Advances(p, D[i])
    PROVE  StandsAt(p, D, E, i + 1)'
<1>1. /\ D[i + 1] = After(D[i])'
      /\ \A t \in Thread : E[i + 1][t] = E[i][t] \o Gives(D[i], t)'
  BY DEF Trail, Links
<1>2. D[i + 1] = Place(p)'
  BY <1>1 DEF Advances
<1>3. \A t \in Thread : E[i + 1][t] = Assigned(p, t)'
  BY <1>1 DEF Advances, StandsAt
<1>4. QED BY <1>2, <1>3 DEF StandsAt

\* The first party to go on from the last place adds one.
LEMMA TrailGrows ==
    ASSUME TypeInv, TypeInv', NEW p \in Party, ListOK(p)', NEW n \in Nat,
           NEW D \in [Nat -> Spots], NEW E \in [Nat -> [Thread -> Seq(Job)]],
           Trail(n, D, E)', StandsAt(p, D, E, n), Advances(p, D[n]),
           NEW D2 \in [Nat -> Spots], NEW E2 \in [Nat -> [Thread -> Seq(Job)]],
           D2 = [D EXCEPT ![n + 1] = Place(p)'],
           E2 = [E EXCEPT ![n + 1] = [t \in Thread |-> Assigned(p, t)']]
    PROVE  Trail(n + 1, D2, E2)' /\ StandsAt(p, D2, E2, n + 1)'
<1>a. /\ \A i \in 0 .. n : D2[i] = D[i] /\ E2[i] = E[i]
      /\ D2[n + 1] = Place(p)'
      /\ \A t \in Thread : E2[n + 1][t] = Assigned(p, t)'
  <2>1. n + 1 \in Nat /\ \A i \in 0 .. n : i # n + 1 /\ i \in Nat
    OBVIOUS
  <2>2. QED BY <2>1
<1>b. \A i \in 0 .. n + 1 : i \in 0 .. n \/ i = n + 1
  OBVIOUS
<1>1. \A i \in 0 .. n + 1 : Within(D2[i])'
  <2>1. Within(D2[n + 1])'
    <3>1. /\ Place(p)'.ip = ip'[p] /\ Place(p)'.todo = todo'[p]
      BY DEF Place, Spot
    <3>2. D2[n + 1].ip = ip'[p] /\ D2[n + 1].todo = todo'[p]
      BY <1>a, <3>1
    <3>3. ip'[p] <= Len(prog') /\ (todo'[p] # <<>> => ip'[p] \in 1 .. Len(prog'))
      BY DEF ListOK
    <3>4. QED BY <3>2, <3>3 DEF Within
  <2>2. \A i \in 0 .. n : Within(D[i])'
    BY DEF Trail
  <2>3. \A i \in 0 .. n : Within(D2[i])'
    BY <1>a, <2>2
  <2>4. QED BY <1>b, <2>1, <2>3
<1>2. Links(n + 1, D2, E2)'
  <2>0. 0 .. (n + 1) - 1 = 0 .. n
    OBVIOUS
  <2> SUFFICES ASSUME NEW i \in 0 .. n
               PROVE  /\ GoesOn(D2[i])' /\ D2[i + 1] = After(D2[i])'
                      /\ \A t \in Thread : E2[i + 1][t] = E2[i][t] \o Gives(D2[i], t)'
    BY <2>0, Zenon DEF Links
  <2>1. CASE i = n
    <3>1. D2[i] = D[n] /\ E2[i] = E[n] /\ i + 1 = n + 1
      BY <1>a, <2>1
    <3>2. GoesOn(D[n])' /\ Place(p)' = After(D[n])'
      BY DEF Advances
    <3>3. \A t \in Thread : Assigned(p, t)' = E[n][t] \o Gives(D[n], t)'
      BY DEF Advances, StandsAt
    <3>4. GoesOn(D2[i])' /\ D2[i + 1] = After(D2[i])'
      BY <1>a, <3>1, <3>2
    <3>5. \A t \in Thread : E2[i + 1][t] = E2[i][t] \o Gives(D2[i], t)'
      BY <1>a, <3>1, <3>3
    <3>6. QED BY <3>4, <3>5
  <2>2. CASE i # n
    <3>1. i \in 0 .. n - 1 /\ i + 1 \in 0 .. n
      BY <2>2
    <3>2. D2[i] = D[i] /\ E2[i] = E[i] /\ D2[i + 1] = D[i + 1] /\ E2[i + 1] = E[i + 1]
      BY <1>a, <3>1
    <3>3. /\ GoesOn(D[i])' /\ D[i + 1] = After(D[i])'
          /\ \A t \in Thread : E[i + 1][t] = E[i][t] \o Gives(D[i], t)'
      BY <3>1 DEF Trail, Links
    <3>4. QED BY <3>2, <3>3
  <2>3. QED BY <2>1, <2>2
<1>3. ASSUME NEW t \in Thread
      PROVE  E2[n][t] \in Seq(Job) /\ E2[n + 1][t] \in Seq(Job)
             /\ Starts(E2[n][t], E2[n + 1][t])
  <2>1. n \in 0 .. n /\ n \in 0 .. n + 1
    OBVIOUS
  <2>2. E[n] \in [Thread -> Seq(Job)] /\ E2[n] = E[n]
    BY <1>a, <2>1
  <2>3. E[n][t] \in Seq(Job)
    BY <2>2
  <2>4. Gives(D[n], t)' \in Seq(Job)
    <3>1. PICK x \in Spots : x = D[n]
      OBVIOUS
    <3>2. Within(x)'
      BY <2>1, <3>1 DEF Trail
    <3>3. GoesOn(x)'
      BY <3>1 DEF Advances
    <3>4. (TapeType /\ Within(x) /\ GoesOn(x) => Gives(x, t) \in Seq(Job))'
      BY GivesType, PTL
    <3>5. TapeType'
      BY DEF TypeInv
    <3>6. Gives(x, t)' \in Seq(Job)
      BY <3>2, <3>3, <3>4, <3>5
    <3>7. QED BY <3>1, <3>6
  <2>5. E2[n + 1][t] = E[n][t] \o Gives(D[n], t)'
    BY <1>a DEF Advances, StandsAt
  <2>6. E[n][t] \o Gives(D[n], t)' \in Seq(Job) /\ Starts(E[n][t], E[n][t] \o Gives(D[n], t)')
    BY <2>3, <2>4, StartsFacts
  <2>7. QED BY <2>2, <2>3, <2>5, <2>6
<1>4. Mounts(n + 1, E2)'
  <2> SUFFICES ASSUME NEW i \in 0 .. n + 1, NEW j \in 0 .. n + 1, i <= j, NEW t \in Thread
               PROVE  Starts(E2[i][t], E2[j][t])
    BY DEF Mounts
  <2>0. n \in 0 .. n
    OBVIOUS
  <2>1. CASE j \in 0 .. n
    <3>1. i \in 0 .. n
      BY <2>1
    <3>2. Starts(E[i][t], E[j][t])
      BY <2>1, <3>1 DEF Trail, Mounts
    <3>3. QED BY <1>a, <2>1, <3>1, <3>2
  <2>2. CASE j = n + 1 /\ i \in 0 .. n
    <3>1. i <= n
      BY <2>2
    <3>2. Starts(E[i][t], E[n][t])
      BY <2>0, <2>2, <3>1 DEF Trail, Mounts
    <3>3. Starts(E2[i][t], E2[n][t])
      BY <1>a, <2>0, <2>2, <3>2
    <3>4. E2[i][t] \in Seq(Job)
      <4>1. i \in Nat
        BY <2>2
      <4>2. QED BY <4>1
    <3>5. Starts(E2[i][t], E2[n + 1][t])
      BY <1>3, <3>3, <3>4, StartsFacts
    <3>6. QED BY <2>2, <3>5
  <2>3. CASE j = n + 1 /\ i = n + 1
    BY <1>3, <2>3, StartsFacts
  <2>4. QED BY <1>b, <2>1, <2>2, <2>3
<1>5. Trail(n + 1, D2, E2)'
  BY <1>1, <1>2, <1>4 DEF Trail
<1>6. StandsAt(p, D2, E2, n + 1)'
  BY <1>a DEF StandsAt
<1>7. QED BY <1>5, <1>6

\* When one party stays or goes on and the others stay, there is still one
\* course they all follow.
LEMMA TrailKept ==
    ASSUME TypeInv, TypeInv', Grows, TrailInv, NEW p \in Party, ListOK(p)',
           \A q \in Party : q # p => Stays(q),
           Stays(p) \/ \A x \in Spots : x = Place(p) => Advances(p, x)
    PROVE  TrailInv'
<1>1. PICK n \in Nat, D \in [Nat -> Spots], E \in [Nat -> [Thread -> Seq(Job)]] :
          Follows(n, D, E)
  BY DEF TrailInv
<1>2. Trail(n, D, E) /\ \A q \in Party : \E i \in 0 .. n : StandsAt(q, D, E, i)
  BY <1>1 DEF Follows
<1>3. Trail(n, D, E)'
  BY <1>2, TrailStays DEF TypeInv
<1>4. ASSUME NEW q \in Party, Stays(q)
      PROVE  \E i \in 0 .. n : StandsAt(q, D, E, i)'
  <2>1. PICK i \in 0 .. n : StandsAt(q, D, E, i)
    BY <1>2
  <2>2. StandsAt(q, D, E, i)'
    BY <1>4, <2>1, StandsStill
  <2>3. QED BY <2>2
<1>5. PICK i \in 0 .. n : StandsAt(p, D, E, i)
  BY <1>2
<1>6. CASE Stays(p)
  <2>1. \A q \in Party : \E k \in 0 .. n : StandsAt(q, D, E, k)'
    BY <1>4, <1>6
  <2>2. Follows(n, D, E)'
    BY <1>3, <2>1 DEF Follows
  <2>3. QED BY <2>2 DEF TrailInv
<1>7. CASE ~Stays(p)
  <2>1. D[i] \in Spots /\ D[i] = Place(p)
    <3>1. i \in Nat
      OBVIOUS
    <3>2. QED BY <1>5, <3>1 DEF StandsAt
  <2>2. PICK x \in Spots : x = D[i]
    BY <2>1
  <2>3. Advances(p, x)
    BY <1>7, <2>1, <2>2
  <2>4. Advances(p, D[i])
    BY <2>2, <2>3
  <2>5. CASE i # n
    <3>1. i \in 0 .. n - 1 /\ i + 1 \in 0 .. n
      BY <2>5
    <3>2. StandsAt(p, D, E, i + 1)'
      BY <1>3, <1>5, <2>4, <3>1, StandsNext
    <3>3. \A q \in Party : \E k \in 0 .. n : StandsAt(q, D, E, k)'
      BY <1>4, <3>1, <3>2
    <3>4. Follows(n, D, E)'
      BY <1>3, <3>3 DEF Follows
    <3>5. QED BY <3>4 DEF TrailInv
  <2>6. CASE i = n
    <3>1. (TypeInv => Place(p) \in Spots
                      /\ \A t \in Thread : Waiting(p, t) \in Seq(Job) /\ Assigned(p, t) \in Seq(Job))'
      BY AssignedType, PTL
    <3>2. Place(p)' \in Spots /\ \A t \in Thread : Assigned(p, t)' \in Seq(Job)
      BY <3>1
    <3>3. PICK D2 : D2 = [D EXCEPT ![n + 1] = Place(p)']
      OBVIOUS
    <3>4. PICK E2 : E2 = [E EXCEPT ![n + 1] = [t \in Thread |-> Assigned(p, t)']]
      OBVIOUS
    <3>5. D2 \in [Nat -> Spots] /\ E2 \in [Nat -> [Thread -> Seq(Job)]]
      BY <3>2, <3>3, <3>4
    <3>6. StandsAt(p, D, E, n) /\ Advances(p, D[n])
      BY <1>5, <2>4, <2>6
    <3>7. Trail(n + 1, D2, E2)' /\ StandsAt(p, D2, E2, n + 1)'
      BY <1>3, <3>3, <3>4, <3>5, <3>6, TrailGrows
    <3>8. ASSUME NEW q \in Party, q # p
          PROVE  \E k \in 0 .. n + 1 : StandsAt(q, D2, E2, k)'
      <4>1. PICK k \in 0 .. n : StandsAt(q, D, E, k)'
        BY <1>4, <3>8
      <4>2. k \in 0 .. n + 1 /\ k # n + 1 /\ k \in Nat
        OBVIOUS
      <4>3. D2[k] = D[k] /\ E2[k] = E[k]
        BY <3>3, <3>4, <4>2
      <4>4. StandsAt(q, D2, E2, k)'
        BY <4>1, <4>3 DEF StandsAt
      <4>5. QED BY <4>2, <4>4
    <3>9. n + 1 \in Nat /\ n + 1 \in 0 .. n + 1
      OBVIOUS
    <3>10. Follows(n + 1, D2, E2)'
      BY <3>7, <3>8, <3>9 DEF Follows
    <3>11. QED BY <3>5, <3>9, <3>10 DEF TrailInv
  <2>7. QED BY <2>5, <2>6
<1>8. QED BY <1>6, <1>7

\* Whoever follows one course begins the same jobs.
LEMMA TrailSame == TypeInv /\ TrailInv => SameJobs
<1> SUFFICES ASSUME TypeInv, TrailInv, NEW p \in Party, NEW q \in Party, NEW t \in Thread,
                    NEW k \in 1 .. Len(log[p][t]), k <= Len(log[q][t])
             PROVE  log[p][t][k] = log[q][t][k]
  BY DEF SameJobs
<1>1. PICK n \in Nat, D \in [Nat -> Spots], E \in [Nat -> [Thread -> Seq(Job)]] :
          Follows(n, D, E)
  BY DEF TrailInv
<1>2. Mounts(n, E) /\ \A r \in Party : \E i \in 0 .. n : StandsAt(r, D, E, i)
  BY <1>1 DEF Follows, Trail
<1>3. PICK i \in 0 .. n : StandsAt(p, D, E, i)
  BY <1>2
<1>4. PICK j \in 0 .. n : StandsAt(q, D, E, j)
  BY <1>2
<1>5. E[i][t] = Assigned(p, t) /\ E[j][t] = Assigned(q, t)
  BY <1>3, <1>4 DEF StandsAt
<1>6. Starts(Assigned(p, t), Assigned(q, t)) \/ Starts(Assigned(q, t), Assigned(p, t))
  <2>1. i <= j \/ j <= i
    OBVIOUS
  <2>2. Starts(E[i][t], E[j][t]) \/ Starts(E[j][t], E[i][t])
    BY <1>2, <2>1 DEF Mounts
  <2>3. QED BY <1>5, <2>2
<1>7. ASSUME NEW r \in Party, k <= Len(log[r][t])
      PROVE  k \in 1 .. Len(Assigned(r, t)) /\ Assigned(r, t)[k] = log[r][t][k]
  <2>1. log[r][t] \in Seq(Job) /\ Waiting(r, t) \in Seq(Job)
    BY AssignedType DEF TypeInv, HistoryType
  <2>2. QED BY <1>7, <2>1 DEF Assigned
<1>8. /\ k \in 1 .. Len(Assigned(p, t)) /\ Assigned(p, t)[k] = log[p][t][k]
      /\ k \in 1 .. Len(Assigned(q, t)) /\ Assigned(q, t)[k] = log[q][t][k]
  <2>1. log[p][t] \in Seq(Job)
    BY DEF TypeInv, HistoryType
  <2>2. k <= Len(log[p][t])
    BY <2>1
  <2>3. QED BY <1>7, <2>2
<1>9. QED BY <1>6, <1>8 DEF Starts

\* At the start the course is where everybody is.
LEMMA InitTrail == Init => TrailInv
<1> SUFFICES ASSUME Init PROVE TrailInv
  OBVIOUS
<1>1. PICK x : x = Spot("new", 0, <<>>, {})
  OBVIOUS
<1>2. x \in Spots /\ Within(x)
  <2>1. x \in Spots
    BY <1>1 DEF Spot, Spots
  <2>2. x.ip = 0 /\ x.todo = <<>> /\ Len(prog) = 0
    BY <1>1 DEF Spot, Init
  <2>3. QED BY <2>1, <2>2 DEF Within
<1>3. PICK D : D = [i \in Nat |-> x]
  OBVIOUS
<1>4. PICK E : E = [i \in Nat |-> [t \in Thread |-> <<>>]]
  OBVIOUS
<1>5. D \in [Nat -> Spots] /\ E \in [Nat -> [Thread -> Seq(Job)]] /\ 0 .. 0 = {0}
  BY <1>2, <1>3, <1>4
<1>6. D[0] = x /\ \A t \in Thread : E[0][t] = <<>>
  BY <1>3, <1>4
<1>7. \A i \in 0 .. 0 : Within(D[i])
  BY <1>2, <1>5, <1>6
<1>8. Links(0, D, E)
  <2>1. 0 .. 0 - 1 = {}
    OBVIOUS
  <2>2. QED BY <2>1 DEF Links
<1>9. Mounts(0, E)
  <2>1. \A t \in Thread : Starts(E[0][t], E[0][t])
    BY <1>6 DEF Starts
  <2>2. QED BY <1>5, <2>1 DEF Mounts
<1>10. ASSUME NEW p \in Party PROVE StandsAt(p, D, E, 0)
  <2>1. Place(p) = x
    BY <1>1 DEF Init, Place, Stage
  <2>2. ASSUME NEW t \in Thread PROVE Assigned(p, t) = <<>>
    <3>1. log[p][t] = <<>> /\ Waiting(p, t) = <<>>
      BY DEF Init, Waiting
    <3>2. QED BY <3>1 DEF Assigned
  <2>3. QED BY <1>6, <2>1, <2>2 DEF StandsAt
<1>11. Follows(0, D, E)
  BY <1>5, <1>7, <1>8, <1>9, <1>10 DEF Follows, Trail
<1>12. QED BY <1>5, <1>11 DEF TrailInv

\* A thread that stays where it is, with the same history, is assigned nothing.
LEMMA AssignedStays ==
    ASSUME NEW p \in Party, NEW t \in Thread, wpc'[p][t] = wpc[p][t],
           in'[p][t] = in[p][t], log'[p][t] = log[p][t]
    PROVE  Assigned(p, t)' = Assigned(p, t)
<1>1. Waiting(p, t)' = Waiting(p, t)
  BY DEF Waiting
<1>2. QED BY <1>1 DEF Assigned

\* A party in the same stage of the main tape stays at its place.
LEMMA PlaceStays ==
    ASSUME NEW p \in Party, Stage(p)' = Stage(p), ip'[p] = ip[p], todo'[p] = todo[p],
           available'[p] = available[p]
    PROVE  Place(p)' = Place(p)
  BY DEF Place, Spot

\* A worker that has a job at hand has none waiting.
LEMMA AtWork ==
    ASSUME OrderInv, NEW p \in Party, NEW t \in Thread, wpc[p][t] \in {"busy", "setup"}
    PROVE  in[p][t] = <<>>
<1>a. TypeInv /\ InOrder(p) /\ Shape(p, t)
  BY DEF OrderInv, CountInv, InOrder
<1>1. ~Unborn(p, t) /\ ~Idle(p, t) /\ ~Stopping(p, t) /\ ~Leaving(p, t) /\ ~Gone(p, t)
  BY DEF Unborn, Idle, Stopping, Leaving, Gone, Standing
<1>2. mpc[p] \in MachineControl /\ t \in Int /\ mi[p] \in Int
  BY <1>a, NThreadsAssumption DEF TypeInv, MachineType, Thread
<1>3. \/ mpc[p] = "joinmain"
      \/ mpc[p] = "sync" /\ Arriving(p, t)
  <2> HIDE DEF Unborn, Idle, Arriving, Stopping, Leaving, Gone
  <2>1. QED BY <1>a, <1>1, <1>2 DEF Shape, Winding, MachineControl
<1>4. ASSUME Arriving(p, t) PROVE in[p][t] = <<>>
  BY <1>4 DEF Arriving, Standing
<1>5. ASSUME mpc[p] = "joinmain" PROVE in[p][t] = <<>>
  <2>1. CASE t = 0
    <3>1. MainThread(p)
      BY <1>5, <1>a, <2>1 DEF Shape
    <3>2. QED BY <2>1, <3>1 DEF MainThread, Standing
  <2>2. CASE t # 0
    <3>1. HelperThread(p, t)
      BY <1>5, <1>a, <2>2 DEF Shape
    <3>2. \E j : Flight(p, t, j)
      BY <1>1, <3>1 DEF HelperThread
    <3>3. QED BY <3>2 DEF Flight, Standing
  <2>3. QED BY <2>1, <2>2
<1>6. QED BY <1>3, <1>4, <1>5

\* Beginning the job that waits changes nothing about the jobs assigned.
LEMMA BegunJob ==
    ASSUME TypeInv, NEW p \in Party, NEW t \in Thread, in[p][t] # <<>>,
           wpc[p][t] \in {"start", "loop"}, wpc'[p][t] \in {"setup", "busy", "checks"},
           Begin(p, t, Head(in[p][t]))
    PROVE  Assigned(p, t)' = Assigned(p, t)
<1>1. /\ in[p][t] \in Seq(Job) /\ log[p][t] \in Seq(Job)
      /\ log \in [Party -> [Thread -> Seq(Job)]]
  BY DEF TypeInv, QueueType, HistoryType
<1>2. PICK j \in Job : j = Head(in[p][t])
  BY <1>1
<1>3. log'[p][t] = Append(log[p][t], j)
  BY <1>1, <1>2 DEF Begin
<1>4. Waiting(p, t) = <<j>>
  BY <1>2 DEF Waiting
<1>5. Waiting(p, t)' = <<>>
  BY DEF Waiting
<1>6. PICK s \in Seq(Job) : s = log[p][t]
  BY <1>1
<1>7. Append(s, j) \o <<>> = s \o <<j>>
  OBVIOUS
<1>8. Assigned(p, t) = s \o <<j>>
  BY <1>4, <1>6 DEF Assigned
<1>9. Assigned(p, t)' = Append(s, j) \o <<>>
  BY <1>3, <1>5, <1>6 DEF Assigned
<1>10. QED BY <1>7, <1>8, <1>9

\* A worker assigns no jobs.
LEMMA WorkerStays ==
    ASSUME OrderInv, NEW p \in Party, NEW t \in Thread, WorkerStep(p, t)
    PROVE  Grows /\ \A q \in Party : Stays(q)
<1>a. TypeInv /\ QueueType /\ WorkerType /\ log \in [Party -> [Thread -> Seq(Job)]]
  BY DEF OrderInv, CountInv, TypeInv, HistoryType
<1>b. UNCHANGED <<prog, over, ip, todo, available, mpc>>
  BY DEF WorkerStep, Start, SetUp, Dispatch, FinishSlice, FinishTape,
         FinalChecks, WindDown, tapeVars, machineVars
<1>1. Grows
  BY <1>b DEF Grows
<1>2. ASSUME NEW q \in Party, NEW u \in Thread, ~(q = p /\ u = t)
      PROVE  Assigned(q, u)' = Assigned(q, u)
  <2>1. Unmoved(q, u)
    BY <1>a, <1>2, WorkerAlone
  <2>2. log'[q][u] = log[q][u]
    BY <1>a, <1>2 DEF WorkerStep, Start, SetUp, Dispatch, FinishSlice, FinishTape,
         FinalChecks, WindDown, Begin, historyVars
  <2>3. QED BY <2>1, <2>2, AssignedStays DEF Unmoved
<1>3. Assigned(p, t)' = Assigned(p, t)
  <2>1. CASE Start(p, t)
    <3>1. /\ wpc[p][t] = "start" /\ in[p][t] # <<>> /\ Begin(p, t, Head(in[p][t]))
      BY <2>1 DEF Start, TakeJob
    <3>2. wpc'[p][t] = "setup"
      BY <1>a, <2>1, GotoAt DEF Start
    <3>3. QED BY <1>a, <3>1, <3>2, BegunJob
  <2>2. CASE Dispatch(p, t)
    <3>1. /\ wpc[p][t] = "loop" /\ in[p][t] # <<>> /\ Begin(p, t, Head(in[p][t]))
      BY <2>2 DEF Dispatch, TakeJob
    <3>2. wpc'[p][t] \in {"checks", "busy"}
      BY <1>a, <2>2, GotoAt DEF Dispatch
    <3>3. QED BY <1>a, <3>1, <3>2, BegunJob
  <2>3. CASE ~Start(p, t) /\ ~Dispatch(p, t)
    <3>1. log' = log
      BY <2>3 DEF WorkerStep, SetUp, FinishSlice, FinishTape,
           FinalChecks, WindDown, historyVars
    <3>2. Waiting(p, t) = <<>> /\ Waiting(p, t)' = <<>>
      <4>1. CASE SetUp(p, t) \/ FinishSlice(p, t) \/ FinishTape(p, t)
        <5>1. wpc[p][t] \in {"busy", "setup"}
          BY <4>1 DEF SetUp, FinishSlice, FinishTape
        <5>2. in[p][t] = <<>>
          BY <5>1, AtWork
        <5>3. in' = in
          BY <4>1 DEF SetUp, FinishSlice, FinishTape, Finished
        <5>4. QED BY <5>2, <5>3 DEF Waiting
      <4>2. CASE FinalChecks(p, t) \/ WindDown(p, t)
        <5>1. wpc[p][t] \in {"checks", "last"}
          BY <4>2 DEF FinalChecks, WindDown
        <5>2. wpc'[p][t] \in {"last", "exited"}
          BY <1>a, <4>2, GotoAt DEF FinalChecks, WindDown
        <5>3. QED BY <5>1, <5>2 DEF Waiting
      <4>3. QED BY <2>3, <4>1, <4>2 DEF WorkerStep
    <3>3. QED BY <3>1, <3>2 DEF Assigned
  <2>4. QED BY <2>1, <2>2, <2>3
<1>4. ASSUME NEW q \in Party PROVE Stays(q)
  <2>1. Place(q)' = Place(q)
    <3>1. Stage(q)' = Stage(q)
      BY <1>b DEF Stage
    <3>2. QED BY <1>b, <3>1, PlaceStays
  <2>2. \A u \in Thread : Assigned(q, u)' = Assigned(q, u)
    BY <1>2, <1>3
  <2>3. QED BY <2>1, <2>2 DEF Stays
<1>5. QED BY <1>1, <1>4

\* A step of one party's machine or main tape leaves the others at their places.
LEMMA OthersStay ==
    ASSUME OrderInv, NEW p \in Party, MachineStep(p) \/ TapeStep(p)
    PROVE  Grows /\ \A q \in Party : q # p => Stays(q)
<1>a. TypeInv /\ TapeType /\ log \in [Party -> [Thread -> Seq(Job)]]
  BY DEF OrderInv, CountInv, TypeInv, HistoryType
<1>1. CASE MachineStep(p)
  <2>1. UNCHANGED <<prog, over, ip, todo, available, log>>
    BY <1>1 DEF MachineStep, CreateThreads, Synchronize, RunMainTape, JoinMainTape,
           StopThreads, SignOut, CollectUsage, JoinThread, tapeVars, historyVars
  <2>2. ASSUME NEW q \in Party, q # p PROVE Stays(q)
    <3>1. mpc'[q] = mpc[q] /\ \A u \in Thread : Unmoved(q, u)
      BY <1>1, <1>a, <2>2, MachineAlone
    <3>2. Place(q)' = Place(q)
      BY <2>1, <3>1, PlaceStays DEF Stage
    <3>3. \A u \in Thread : Assigned(q, u)' = Assigned(q, u)
      BY <2>1, <3>1, AssignedStays DEF Unmoved
    <3>4. QED BY <3>2, <3>3 DEF Stays
  <2>3. QED BY <2>1, <2>2 DEF Grows
<1>2. CASE TapeStep(p)
  <2>1. /\ Grows /\ UNCHANGED <<mpc, wpc>>
        /\ \A q \in Party : q # p =>
              /\ ip'[q] = ip[q] /\ todo'[q] = todo[q] /\ available'[q] = available[q]
              /\ \A u \in Thread : in'[q][u] = in[q][u]
    BY <1>2, <1>a, TapeFrame
  <2>2. ASSUME NEW q \in Party, q # p PROVE log'[q] = log[q]
    BY <1>2, <1>a, <2>2 DEF TapeStep, NextOp, EndOfTape, Distribute, OwnSlice, WrapUp,
         FillBuffers, RunTape, JoinTape, Begin, historyVars
  <2>3. ASSUME NEW q \in Party, q # p PROVE Stays(q)
    <3>1. Place(q)' = Place(q)
      BY <2>1, <2>3, PlaceStays DEF Stage
    <3>2. \A u \in Thread : Assigned(q, u)' = Assigned(q, u)
      BY <2>1, <2>2, <2>3, AssignedStays
    <3>3. QED BY <3>1, <3>2 DEF Stays
  <2>4. QED BY <2>1, <2>3
<1>3. QED BY <1>1, <1>2

\* A thread without a job is assigned one.
LEMMA IdleGets ==
    ASSUME TypeInv, NEW p \in Party, NEW t \in Thread, NEW j \in Job,
           in[p][t] = <<>>, in'[p][t] = Append(in[p][t], j),
           wpc'[p][t] \in {"start", "loop"}, log'[p][t] = log[p][t]
    PROVE  Assigned(p, t)' = Assigned(p, t) \o <<j>>
<1>1. log[p][t] \in Seq(Job)
  BY DEF TypeInv, HistoryType
<1>2. in'[p][t] = <<j>> /\ <<j>> # <<>> /\ Head(<<j>>) = j
  OBVIOUS
<1>3. Waiting(p, t) = <<>> /\ Waiting(p, t)' = <<j>>
  BY <1>2 DEF Waiting
<1>4. log[p][t] \o <<>> = log[p][t]
  BY <1>1
<1>5. QED BY <1>3, <1>4 DEF Assigned

\* A thread is assigned nothing.
LEMMA IdleKeeps ==
    ASSUME TypeInv, NEW p \in Party, NEW t \in Thread, Assigned(p, t)' = Assigned(p, t)
    PROVE  Assigned(p, t)' = Assigned(p, t) \o <<>>
<1>1. PICK s \in Seq(Job) : s = Assigned(p, t)
  BY AssignedType
<1>2. s \o <<>> = s
  OBVIOUS
<1>3. QED BY <1>1, <1>2

\* The machine's steps: what they assign is what its place says.
LEMMA MachineGoesOn ==
    ASSUME OrderInv, NEW p \in Party, MachineStep(p)
    PROVE  Stays(p) \/ \A x \in Spots : x = Place(p) => Advances(p, x)
<1>a. /\ TypeInv /\ QueueType /\ MachineType /\ InOrder(p) /\ Control(p)
      /\ \A t \in Thread : Shape(p, t)
      /\ \A j \in Job : Always(j) \in [Thread -> Job]
  BY AlwaysType DEF OrderInv, CountInv, TypeInv, InOrder
<1>b. UNCHANGED <<prog, over, ip, todo, available, log>>
  BY DEF MachineStep, CreateThreads, Synchronize, RunMainTape, JoinMainTape,
         StopThreads, SignOut, CollectUsage, JoinThread, tapeVars, historyVars
<1>c. NoJob \in Job /\ StopJob \in Job /\ TapeJob(0) \in Job
  BY ConstantJobs
<1>d. /\ \A u \in Thread : Always(NoJob)[u] = NoJob
      /\ \A u \in Thread : Always(StopJob)[u] = StopJob
      /\ \A u \in Thread : Always(TapeJob(0))[u] = TapeJob(0)
  BY DEF Always
<1>1. CASE CreateThreads(p)
  <2>1. mpc[p] = "create" /\ mpc'[p] = "sync" /\ \A u \in Thread : wpc'[p][u] = "start"
    BY <1>a, <1>1 DEF CreateThreads, MachineType, TypeInv, WorkerType
  <2>2. ASSUME NEW u \in Thread PROVE Assigned(p, u)' = Assigned(p, u) \o <<NoJob>>
    <3>1. in[p][u] = <<>>
      BY <1>a, <2>1 DEF Shape, Unborn, Standing
    <3>2. Schedule(p, Thread, Always(NoJob))
      BY <1>1 DEF CreateThreads
    <3>3. in'[p][u] = Append(in[p][u], NoJob)
      BY <1>a, <1>c, <1>d, <3>2, ScheduleAt
    <3>4. QED BY <1>a, <1>b, <1>c, <2>1, <3>1, <3>3, IdleGets
  <2> SUFFICES ASSUME NEW x \in Spots, x = Place(p) PROVE Advances(p, x)
    OBVIOUS
  <2>3. x.at = "new" /\ x.ip = ip[p] /\ x.todo = todo[p] /\ x.av = available[p]
    BY <2>1 DEF Place, Spot, Stage
  <2>4. Place(p)' = After(x)'
    BY <1>b, <2>1, <2>3 DEF Place, Stage, After
  <2>5. GoesOn(x)' /\ \A u : Gives(x, u)' = <<NoJob>>
    BY <2>3 DEF GoesOn, Gives
  <2>6. QED BY <2>2, <2>4, <2>5 DEF Advances
<1>2. CASE RunMainTape(p)
  <2>1. mpc[p] = "run" /\ mpc'[p] = "joinmain" /\ UNCHANGED wpc
    BY <1>a, <1>2 DEF RunMainTape, MachineType, workerVars
  <2>2. Schedule(p, {0}, Always(TapeJob(0)))
    BY <1>2 DEF RunMainTape
  <2>3. Assigned(p, 0)' = Assigned(p, 0) \o <<TapeJob(0)>>
    <3>1. in[p][0] = <<>> /\ wpc[p][0] = "loop"
      BY <1>a, <2>1, ZeroIsThread DEF Shape, Idle, Standing
    <3>2. in'[p][0] = Append(in[p][0], TapeJob(0))
      BY <1>a, <1>c, <1>d, <2>2, ZeroIsThread, ScheduleAt
    <3>3. QED BY <1>a, <1>b, <1>c, <2>1, <3>1, <3>2, ZeroIsThread, IdleGets
  <2>4. ASSUME NEW u \in Thread, u # 0 PROVE Assigned(p, u)' = Assigned(p, u) \o <<>>
    <3>1. in'[p][u] = in[p][u]
      BY <1>a, <1>c, <2>2, <2>4, ScheduleAt
    <3>2. Assigned(p, u)' = Assigned(p, u)
      BY <1>b, <2>1, <3>1, AssignedStays
    <3>3. QED BY <1>a, <3>2, IdleKeeps
  <2> SUFFICES ASSUME NEW x \in Spots, x = Place(p) PROVE Advances(p, x)
    OBVIOUS
  <2>5. x.at = "born" /\ x.ip = ip[p] /\ x.todo = todo[p] /\ x.av = available[p]
    BY <2>1 DEF Place, Spot, Stage
  <2>6. Place(p)' = After(x)'
    BY <1>b, <2>1, <2>5 DEF Place, Stage, After
  <2>7. /\ GoesOn(x)' /\ Gives(x, 0)' = <<TapeJob(0)>>
        /\ \A u : u # 0 => Gives(x, u)' = <<>>
    BY <2>5 DEF GoesOn, Gives
  <2>8. QED BY <2>3, <2>4, <2>6, <2>7 DEF Advances
<1>3. CASE StopThreads(p)
  <2>1. mpc[p] = "stop" /\ mpc'[p] = "wind" /\ UNCHANGED wpc
    BY <1>a, <1>3 DEF StopThreads, MachineType, workerVars
  <2>2. ASSUME NEW u \in Thread PROVE Assigned(p, u)' = Assigned(p, u) \o <<StopJob>>
    <3>1. in[p][u] = <<>> /\ wpc[p][u] = "loop"
      BY <1>a, <2>1 DEF Shape, Idle, Standing
    <3>2. Schedule(p, Thread, Always(StopJob))
      BY <1>3 DEF StopThreads
    <3>3. in'[p][u] = Append(in[p][u], StopJob)
      BY <1>a, <1>c, <1>d, <3>2, ScheduleAt
    <3>4. QED BY <1>a, <1>b, <1>c, <2>1, <3>1, <3>3, IdleGets
  <2> SUFFICES ASSUME NEW x \in Spots, x = Place(p) PROVE Advances(p, x)
    OBVIOUS
  <2>3. x.at = "on" /\ x.ip = ip[p] /\ x.todo = todo[p] /\ x.av = available[p]
    BY <2>1 DEF Place, Spot, Stage
  <2>4. over /\ x.todo = <<>> /\ x.ip = Len(prog) /\ Len(prog) \in Nat
    BY <1>a, <2>1, <2>3 DEF Control, Ended, TypeInv, TapeType
  <2>5. Place(p)' = After(x)'
    BY <1>b, <2>1, <2>3, <2>4 DEF Place, Stage, After
  <2>6. GoesOn(x)' /\ \A u : Gives(x, u)' = <<StopJob>>
    BY <1>b, <2>3, <2>4 DEF GoesOn, Gives
  <2>7. QED BY <2>2, <2>5, <2>6 DEF Advances
<1>4. CASE SignOut(p)
  <2>1. mpc[p] = "wind" /\ mpc'[p] = "windresult" /\ UNCHANGED wpc
    BY <1>a, <1>4 DEF SignOut, MachineType, workerVars
  <2>2. Place(p)' = Place(p)
    <3>1. Stage(p) = "off" /\ Stage(p)' = "off"
      BY <2>1 DEF Stage
    <3>2. QED BY <1>b, <3>1, PlaceStays
  <2>3. ASSUME NEW u \in Thread PROVE Assigned(p, u)' = Assigned(p, u)
    <3>1. Schedule(p, {mi[p]}, Always(NoJob))
      BY <1>4 DEF SignOut
    <3>2. CASE u # mi[p]
      <4>1. in'[p][u] = in[p][u]
        BY <1>a, <1>c, <3>1, <3>2, ScheduleAt
      <4>2. QED BY <1>b, <2>1, <4>1, AssignedStays
    <3>3. CASE u = mi[p]
      <4>1. in'[p][u] = Append(in[p][u], NoJob)
        <5>1. u \in {mi[p]}
          BY <3>3
        <5>2. in'[p][u] = Append(in[p][u], Always(NoJob)[u])
          BY <1>a, <1>c, <3>1, <5>1, ScheduleAt
        <5>3. QED BY <1>d, <5>2
      <4>2. Stopping(p, u)
        BY <1>a, <2>1, <3>3 DEF Shape
      <4>3. \/ wpc[p][u] = "loop" /\ in[p][u] = <<StopJob>>
            \/ wpc[p][u] \in {"checks", "last"}
        BY <4>2 DEF Stopping, Standing
      <4>4. Waiting(p, u)' = Waiting(p, u)
        <5>1. CASE wpc[p][u] = "loop" /\ in[p][u] = <<StopJob>>
          <6>1. /\ in'[p][u] = <<StopJob, NoJob>>
                /\ <<StopJob, NoJob>> # <<>> /\ Head(<<StopJob, NoJob>>) = StopJob
                /\ <<StopJob>> # <<>> /\ Head(<<StopJob>>) = StopJob
            BY <1>c, <4>1, <5>1, ShortQueues
          <6>2. QED BY <2>1, <5>1, <6>1 DEF Waiting
        <5>2. CASE wpc[p][u] \in {"checks", "last"}
          BY <2>1, <5>2 DEF Waiting
        <5>3. QED BY <4>3, <5>1, <5>2
      <4>5. QED BY <1>b, <4>4 DEF Assigned
    <3>4. QED BY <3>2, <3>3
  <2>4. QED BY <2>2, <2>3 DEF Stays
<1>5. CASE Synchronize(p) \/ JoinMainTape(p) \/ CollectUsage(p) \/ JoinThread(p)
  <2>1. UNCHANGED <<in, wpc>>
    BY <1>5 DEF Synchronize, JoinMainTape, CollectUsage, JoinThread, Result,
           workerVars, queueVars
  <2>2. Stage(p)' = Stage(p)
    <3>1. CASE Synchronize(p)
      <4>1. mpc[p] = "sync" /\ mpc'[p] \in {"sync", "run"}
        BY <1>a, <3>1 DEF Synchronize, MachineType
      <4>2. QED BY <4>1 DEF Stage
    <3>2. CASE JoinMainTape(p)
      <4>1. mpc[p] = "joinmain" /\ mpc'[p] = "stop"
        BY <1>a, <3>2 DEF JoinMainTape, MachineType
      <4>2. QED BY <4>1 DEF Stage
    <3>3. CASE CollectUsage(p)
      <4>1. mpc[p] = "windresult" /\ mpc'[p] = "windjoin"
        BY <1>a, <3>3 DEF CollectUsage, MachineType
      <4>2. QED BY <4>1 DEF Stage
    <3>4. CASE JoinThread(p)
      <4>1. mpc[p] = "windjoin" /\ mpc'[p] \in {"done", "wind"}
        BY <1>a, <3>4 DEF JoinThread, MachineType
      <4>2. QED BY <4>1 DEF Stage
    <3>5. QED BY <1>5, <3>1, <3>2, <3>3, <3>4
  <2>3. Place(p)' = Place(p)
    BY <1>b, <2>2, PlaceStays
  <2>4. \A u \in Thread : Assigned(p, u)' = Assigned(p, u)
    BY <1>b, <2>1, AssignedStays
  <2>5. QED BY <2>3, <2>4 DEF Stays
<1>6. QED BY <1>1, <1>2, <1>3, <1>4, <1>5 DEF MachineStep

\* What a step of the main tape has to show to be the next of the course.
LEMMA OnTheTape ==
    ASSUME OrderInv, NEW p \in Party, TapeStep(p)
    PROVE  /\ TypeInv /\ TapeType /\ QueueType /\ Grows /\ ListOK(p)
           /\ Stage(p) = "on" /\ Stage(p)' = "on" /\ UNCHANGED wpc
           /\ wpc[p][0] = "busy" /\ in'[p][0] = in[p][0]
<1>1. TypeInv /\ TapeType /\ QueueType /\ InOrder(p) /\ ListOK(p)
  BY DEF OrderInv, CountInv, InOrder, TypeInv
<1>2. RunsMain(p, 0) /\ Grows /\ UNCHANGED <<mpc, wpc>> /\ in'[p][0] = in[p][0]
  BY <1>1, TapeFrame
<1>3. mpc[p] = "joinmain"
  BY <1>1, <1>2, MainRuns
<1>4. Stage(p) = "on" /\ Stage(p)' = "on"
  BY <1>2, <1>3 DEF Stage
<1>5. QED BY <1>1, <1>2, <1>4 DEF RunsMain

\* A step on the list.
LEMMA ListGoesOn ==
    ASSUME OrderInv, NEW p \in Party, TapeStep(p), UNCHANGED <<prog, over, ip>>,
           todo[p] # <<>>, NEW x \in Spots, x = Place(p), todo'[p] = Follow(x),
           available'[p] = (IF Spreads(x) THEN Free(x.ip) ELSE x.av),
           \A t \in Thread : Assigned(p, t)' = Assigned(p, t) \o GivesInList(x, t)
    PROVE  Advances(p, x)
<1>1. /\ TapeType /\ Grows /\ ListOK(p) /\ Stage(p) = "on" /\ Stage(p)' = "on"
  BY OnTheTape
<1>2. x.at = "on" /\ x.ip = ip[p] /\ x.todo = todo[p] /\ x.av = available[p]
  BY <1>1 DEF Place, Spot
<1>3. Within(x)
  BY <1>1, <1>2 DEF ListOK, Within
<1>4. GoesOn(x)
  BY <1>2 DEF GoesOn
<1>5. GoesOn(x)' /\ After(x)' = After(x) /\ \A t \in Thread : Gives(x, t)' = Gives(x, t)
  BY <1>1, <1>3, <1>4, AfterStays
<1>6. After(x) = Spot("on", x.ip, Follow(x), IF Spreads(x) THEN Free(x.ip) ELSE x.av)
  BY <1>2 DEF After
<1>7. Place(p)' = Spot("on", ip[p], todo'[p], available'[p])
  BY <1>1 DEF Place
<1>8. Place(p)' = After(x)'
  BY <1>2, <1>5, <1>6, <1>7
<1>9. \A t \in Thread : Gives(x, t) = GivesInList(x, t)
  BY <1>2 DEF Gives
<1>10. \A t \in Thread : Assigned(p, t)' = Assigned(p, t) \o Gives(x, t)'
  BY <1>5, <1>9
<1>11. QED BY <1>5, <1>8, <1>10 DEF Advances

\* The thread a step is about next is the first of them.
LEMMA LowestAt ==
    ASSUME TapeType, NEW p \in Party, todo[p] # <<>>, NEW t, At(p, t)
    PROVE  Lowest(Head(todo[p]).ts) = t
<1>1. PICK S : S = Head(todo[p]).ts
  OBVIOUS
<1>2. S \in SUBSET Helper
  BY <1>1, HeadType DEF Todo
<1>3. t \in S /\ \A u \in S : t <= u
  BY <1>1 DEF At
<1>4. \A u \in S : u \in Int
  BY <1>2, NThreadsAssumption DEF Helper, Thread
<1>5. Lowest(S) \in S /\ \A u \in S : Lowest(S) <= u
  BY <1>3 DEF Lowest
<1>6. Lowest(S) = t
  BY <1>3, <1>4, <1>5
<1>7. QED BY <1>1, <1>6

\* Done with the first of the threads, the list goes on as the course does.
LEMMA DoneFollows ==
    ASSUME TapeType, NEW p \in Party, todo[p] # <<>>, NEW t, At(p, t),
           NEW d \in {"wrap", "fill", "sched", "join"}, Head(todo[p]).do = d,
           DoneWith(p, t, IF d = "fill" THEN Central(Head(todo[p]).n) ELSE <<>>),
           NEW x \in Spots, x = Place(p)
    PROVE  todo'[p] = Follow(x) /\ ~Spreads(x)
<1>1. PICK h : h = Head(todo[p])
  OBVIOUS
<1>2. x.todo = todo[p]
  BY DEF Place, Spot
<1>3. h.do = d /\ Lowest(h.ts) = t
  BY <1>1, LowestAt
<1>4. todo' = [todo EXCEPT ![p] =
                  (IF h.ts \ {t} = {} THEN <<>>
                   ELSE (IF d = "fill" THEN Central(h.n) ELSE <<>>)
                        \o <<[h EXCEPT !.ts = h.ts \ {t}]>>) \o Tail(@)]
  BY <1>1 DEF DoneWith
<1>5. todo'[p] = (IF h.ts \ {t} = {} THEN <<>>
                  ELSE (IF d = "fill" THEN Central(h.n) ELSE <<>>)
                       \o <<[h EXCEPT !.ts = h.ts \ {t}]>>) \o Tail(todo[p])
  BY <1>4 DEF TapeType
<1>6. Less(h) = (IF h.ts \ {t} = {} THEN <<>>
                 ELSE (IF d = "fill" THEN Central(h.n) ELSE <<>>)
                      \o <<[h EXCEPT !.ts = h.ts \ {t}]>>)
  BY <1>3 DEF Less
<1>7. todo'[p] = Less(h) \o Tail(todo[p])
  BY <1>5, <1>6
<1>8. ~Spreads(x) /\ Follow(x) = Less(h) \o Tail(todo[p])
  BY <1>1, <1>2, <1>3 DEF Follow, Spreads
<1>9. QED BY <1>7, <1>8

\* The steps on the list that give no thread a job.
LEMMA QuietGoesOn ==
    ASSUME OrderInv, NEW p \in Party, NEW t \in Helper,
           WrapUp(p, t) \/ FillBuffers(p, t) \/ JoinTape(p, t),
           NEW x \in Spots, x = Place(p)
    PROVE  Advances(p, x)
<1>1. TapeStep(p) /\ UNCHANGED <<prog, over, ip, available, log>> /\ todo[p] # <<>> /\ At(p, t)
  BY DEF TapeStep, WrapUp, FillBuffers, JoinTape, Doing, historyVars
<1>2. TypeInv /\ TapeType /\ QueueType /\ UNCHANGED wpc
  BY <1>1, OnTheTape
<1>3. PICK d \in {"wrap", "fill", "join"} :
          /\ Head(todo[p]).do = d
          /\ DoneWith(p, t, IF d = "fill" THEN Central(Head(todo[p]).n) ELSE <<>>)
  BY DEF WrapUp, FillBuffers, JoinTape, Doing
<1>4. todo'[p] = Follow(x) /\ ~Spreads(x)
  BY <1>1, <1>2, <1>3, DoneFollows
<1>5. in' = in
  BY DEF WrapUp, FillBuffers, JoinTape, Result, queueVars
<1>6. x.todo = todo[p] /\ x.av = available[p]
  BY DEF Place, Spot
<1>7. ASSUME NEW u \in Thread PROVE Assigned(p, u)' = Assigned(p, u) \o GivesInList(x, u)
  <2>1. Assigned(p, u)' = Assigned(p, u) \o <<>>
    BY <1>1, <1>2, <1>5, AssignedStays, IdleKeeps
  <2>2. GivesInList(x, u) = <<>>
    BY <1>3, <1>4, <1>6 DEF GivesInList
  <2>3. QED BY <2>1, <2>2
<1>8. QED BY <1>1, <1>4, <1>6, <1>7, ListGoesOn

\* Starting a tape.
LEMMA RunTapeGoesOn ==
    ASSUME OrderInv, NEW p \in Party, NEW t \in Helper, RunTape(p, t),
           NEW x \in Spots, x = Place(p)
    PROVE  Advances(p, x)
<1>1. /\ TapeStep(p) /\ UNCHANGED <<prog, over, ip, available, log>> /\ todo[p] # <<>>
      /\ At(p, t) /\ Head(todo[p]).do = "sched" /\ DoneWith(p, t, <<>>)
      /\ Schedule(p, {t}, Always(TapeJob(ip[p]))) /\ Doing(p, "sched")
      /\ t \in Head(todo[p]).ts
  BY DEF TapeStep, RunTape, Doing, historyVars, At
<1>2. TypeInv /\ TapeType /\ QueueType /\ UNCHANGED wpc /\ ListOK(p)
  BY <1>1, OnTheTape
<1>3. todo'[p] = Follow(x) /\ ~Spreads(x)
  BY <1>1, <1>2, DoneFollows
<1>4. x.todo = todo[p] /\ x.av = available[p] /\ x.ip = ip[p]
  BY DEF Place, Spot
<1>5. Idle(p, t)
  <2>1. PICK k \in 1 .. Len(prog) : k = ip[p]
    BY <1>1, <1>2, ListAt
  <2>2. PICK S \in SUBSET Helper : Starting(p, k, S)
    BY <1>1, <1>2, <2>1, ListAt
  <2>3. S \subseteq prog[k].ts /\ prog[k].ts \subseteq Free(k)
    BY <2>2 DEF Starting, TapesAt
  <2>4. Head(todo[p]) = Step("sched", S, 0)
    BY <1>2, <2>2, HeadsAt
  <2>5. t \in S /\ t \notin Outstanding(k)
    BY <1>1, <2>3, <2>4 DEF Step, Free
  <2>6. t \notin Sliced(p) \cup Taped(p)
    BY <1>1, <2>1, <2>4, <2>5 DEF Sliced, Taped, Step
  <2>7. QED BY <1>1, <2>6, WhileDoing
<1>6. t \in Thread /\ TapeJob(ip[p]) \in Job /\ Always(TapeJob(ip[p])) \in [Thread -> Job]
      /\ Always(TapeJob(ip[p]))[t] = TapeJob(ip[p])
  <2>1. t \in Thread /\ ip[p] \in Nat
    BY <1>2 DEF Helper, TapeType
  <2>2. QED BY <2>1, ConstantJobs, AlwaysType DEF Always
<1>7. Assigned(p, t)' = Assigned(p, t) \o <<TapeJob(ip[p])>>
  <2>1. in[p][t] = <<>> /\ wpc[p][t] = "loop"
    BY <1>5 DEF Idle, Standing
  <2>2. in'[p][t] = Append(in[p][t], TapeJob(ip[p]))
    BY <1>1, <1>2, <1>6, ScheduleAt
  <2>3. QED BY <1>1, <1>2, <1>6, <2>1, <2>2, IdleGets
<1>8. ASSUME NEW u \in Thread, u # t PROVE Assigned(p, u)' = Assigned(p, u) \o <<>>
  <2>1. in'[p][u] = in[p][u]
    BY <1>1, <1>2, <1>6, <1>8, ScheduleAt
  <2>2. QED BY <1>1, <1>2, <2>1, AssignedStays, IdleKeeps
<1>9. \A u \in Thread : GivesInList(x, u) = IF u = t THEN <<TapeJob(ip[p])>> ELSE <<>>
  <2>1. Lowest(Head(x.todo).ts) = t /\ Head(x.todo).do = "sched"
    BY <1>1, <1>2, <1>4, LowestAt
  <2>2. QED BY <1>3, <1>4, <2>1 DEF GivesInList
<1>10. \A u \in Thread : Assigned(p, u)' = Assigned(p, u) \o GivesInList(x, u)
  BY <1>7, <1>8, <1>9
<1>11. QED BY <1>1, <1>3, <1>4, <1>10, ListGoesOn

\* The caller's slice.
LEMMA OwnSliceGoesOn ==
    ASSUME OrderInv, NEW p \in Party, OwnSlice(p), NEW x \in Spots, x = Place(p)
    PROVE  Advances(p, x)
<1>1. /\ TapeStep(p) /\ UNCHANGED <<prog, over, ip, available, log, in>> /\ todo[p] # <<>>
      /\ Head(todo[p]).do = "own"
  BY DEF TapeStep, OwnSlice, Doing, queueVars
<1>2. TypeInv /\ TapeType /\ UNCHANGED wpc
  BY <1>1, OnTheTape
<1>3. x.todo = todo[p] /\ x.av = available[p]
  BY DEF Place, Spot
<1>4. todo'[p] = (IF available[p] = {} THEN <<>>
                  ELSE <<Step("wrap", available[p], 0)>>) \o Tail(todo[p])
  BY <1>2 DEF OwnSlice, TapeType
<1>5. ~Spreads(x) /\ todo'[p] = Follow(x)
  BY <1>1, <1>3, <1>4 DEF Spreads, Follow
<1>6. ASSUME NEW u \in Thread PROVE Assigned(p, u)' = Assigned(p, u) \o GivesInList(x, u)
  <2>1. Assigned(p, u)' = Assigned(p, u) \o <<>>
    BY <1>1, <1>2, AssignedStays, IdleKeeps
  <2>2. GivesInList(x, u) = <<>>
    BY <1>1, <1>3, <1>5 DEF GivesInList
  <2>3. QED BY <2>1, <2>2
<1>7. QED BY <1>1, <1>3, <1>5, <1>6, ListGoesOn

\* A distribute: the threads without a tape get their slices, thread 0 begins
\* its own.
LEMMA DistributeGoesOn ==
    ASSUME OrderInv, NEW p \in Party, Distribute(p), NEW x \in Spots, x = Place(p)
    PROVE  Advances(p, x)
<1>1. /\ TapeStep(p) /\ UNCHANGED <<prog, over, ip>> /\ todo[p] # <<>>
      /\ Head(todo[p]).do \in {"dist", "inner"}
      /\ (Doing(p, "dist") <=> Head(todo[p]).do = "dist")
  BY DEF TapeStep, Distribute, Doing
<1>2. /\ TypeInv /\ TapeType /\ QueueType /\ HistoryType /\ UNCHANGED wpc /\ ListOK(p)
      /\ wpc[p][0] = "busy" /\ in'[p][0] = in[p][0]
  BY <1>1, OnTheTape DEF TypeInv
<1>3. x.todo = todo[p] /\ x.av = available[p] /\ x.ip = ip[p]
  BY DEF Place, Spot
<1>4. Spreads(x)
  BY <1>1, <1>3 DEF Spreads
<1>5. PICK k \in 1 .. Len(prog) : k = ip[p]
  BY <1>1, <1>2, ListAt
<1>6. Course(p, {}, Outstanding(k))
  <2>1. Courses(p, k)
    BY <1>2, <1>5, CourseAt DEF AllCourses
  <2>2. CASE Head(todo[p]).do = "dist"
    <3>1. PICK S \in SUBSET Helper : Beginning(p, k, S)
      BY <1>1, <1>2, <1>5, <2>2, ListAt
    <3>2. QED BY <2>1, <3>1 DEF Courses
  <2>3. CASE Head(todo[p]).do = "inner"
    <3>1. Nesting(p, k, Step("inner", {}, prog[k].n))
      BY <1>1, <1>2, <1>5, <2>3, ListAt
    <3>2. Step("inner", {}, prog[k].n) \in Todo
      BY <1>2, OperationSteps
    <3>3. QED BY <2>1, <3>1, <3>2 DEF Courses
  <2>4. QED BY <1>1, <2>2, <2>3
<1>7. FindAvailable(p) = Free(k) /\ \A t \in Free(k) : Idle(p, t)
  BY <1>1, <1>6, AvailableFree
<1>8. PICK av \in SUBSET Helper, js \in [Thread -> Job], own \in Job, id \in Nat, n \in Nat :
          Given(p, av, js, own, id, n)
  BY <1>2, DistributeGives
<1>9. /\ av = Free(x.ip) /\ id = For(x) /\ n = Head(x.todo).n
      /\ own = SliceJob(id, Cardinality(av) * NPerThread(n, Cardinality(av)), n)
      /\ \A t \in Thread : js[t] = SliceOf(id, n, Cardinality(av), Rank(av, t))
      /\ Schedule(p, av, js) /\ available'[p] = av /\ Begin(p, 0, own)
  <2>1. /\ id = (IF Doing(p, "dist") THEN ip[p] ELSE 0)
        /\ n = Head(todo[p]).n /\ av = FindAvailable(p)
        /\ own = SliceJob(id, Cardinality(av) * NPerThread(n, Cardinality(av)), n)
        /\ \A t \in Thread : js[t] = SliceOf(id, n, Cardinality(av), Rank(av, t))
        /\ Schedule(p, av, js) /\ available'[p] = av /\ Begin(p, 0, own)
    BY <1>8 DEF Given
  <2>2. av = Free(x.ip)
    BY <1>3, <1>5, <1>7, <2>1
  <2>3. id = For(x)
    BY <1>1, <1>3, <2>1 DEF For
  <2>4. QED BY <1>3, <2>1, <2>2, <2>3
<1>10. own = Own(x) /\ \A t \in Thread : js[t] = SliceAt(x, t)
  <2>1. own = Own(x)
    BY <1>9 DEF Own
  <2>2. \A t \in Thread : js[t] = SliceAt(x, t)
    BY <1>9 DEF SliceAt
  <2>3. QED BY <2>1, <2>2
<1>11. todo'[p] = Follow(x)
  <2>1. todo'[p] = (IF Doing(p, "dist") /\ prog[ip[p]].nest
                    THEN <<Step("inner", {}, n)>> ELSE <<>>)
                   \o <<OwnStep(own)>> \o Tail(todo[p])
    BY <1>8 DEF Given
  <2>2. Follow(x) = (IF Head(x.todo).do = "dist" /\ prog[x.ip].nest
                     THEN <<Step("inner", {}, Head(x.todo).n)>> ELSE <<>>)
                    \o <<OwnStep(Own(x))>> \o Tail(x.todo)
    BY <1>4 DEF Follow
  <2>3. n = Head(x.todo).n /\ own = Own(x)
    BY <1>9, <1>10
  <2>4. QED BY <1>1, <1>3, <2>1, <2>2, <2>3
<1>12. Assigned(p, 0)' = Assigned(p, 0) \o <<own>>
  <2>1. log \in [Party -> [Thread -> Seq(Job)]]
    BY <1>2 DEF HistoryType
  <2>2. log'[p][0] = Append(log[p][0], own) /\ log[p][0] \in Seq(Job)
    BY <1>9, <2>1, ZeroIsThread DEF Begin
  <2>3. Waiting(p, 0) = <<>> /\ Waiting(p, 0)' = <<>>
    BY <1>2 DEF Waiting
  <2>4. PICK s \in Seq(Job) : s = log[p][0]
    BY <2>2
  <2>5. Append(s, own) \o <<>> = (s \o <<>>) \o <<own>>
    OBVIOUS
  <2>6. Assigned(p, 0) = s \o <<>> /\ Assigned(p, 0)' = Append(s, own) \o <<>>
    BY <2>2, <2>3, <2>4 DEF Assigned
  <2>7. QED BY <2>5, <2>6
<1>13. ASSUME NEW t \in Thread, t # 0 PROVE log'[p][t] = log[p][t]
  <2>1. log \in [Party -> [Thread -> Seq(Job)]]
    BY <1>2 DEF HistoryType
  <2>2. QED BY <1>9, <1>13, <2>1 DEF Begin
<1>14. ASSUME NEW t \in Thread, t \in av
       PROVE  t # 0 /\ Assigned(p, t)' = Assigned(p, t) \o <<js[t]>>
  <2>1. t # 0 /\ js[t] \in Job
    BY <1>14 DEF Helper
  <2>2. in'[p][t] = Append(in[p][t], js[t])
    BY <1>2, <1>9, <1>14, ScheduleAt
  <2>3. Idle(p, t)
    BY <1>3, <1>5, <1>7, <1>9, <1>14
  <2>4. in[p][t] = <<>> /\ wpc'[p][t] = "loop"
    BY <1>2, <2>3 DEF Idle, Standing
  <2>5. log'[p][t] = log[p][t]
    BY <1>13, <2>1
  <2>6. QED BY <1>2, <2>1, <2>2, <2>4, <2>5, IdleGets
<1>15. ASSUME NEW t \in Thread, t # 0, t \notin av
       PROVE  Assigned(p, t)' = Assigned(p, t) \o <<>>
  <2>1. in'[p][t] = in[p][t]
    BY <1>2, <1>9, <1>15, ScheduleAt
  <2>2. log'[p][t] = log[p][t]
    BY <1>13, <1>15
  <2>3. QED BY <1>2, <2>1, <2>2, AssignedStays, IdleKeeps
<1>16. \A t \in Thread : GivesInList(x, t) =
           IF t = 0 THEN <<own>> ELSE IF t \in av THEN <<js[t]>> ELSE <<>>
  BY <1>4, <1>9, <1>10 DEF GivesInList
<1>17. \A t \in Thread : Assigned(p, t)' = Assigned(p, t) \o GivesInList(x, t)
  BY <1>12, <1>14, <1>15, <1>16
<1>18. available'[p] = (IF Spreads(x) THEN Free(x.ip) ELSE x.av)
  BY <1>4, <1>9
<1>19. QED BY <1>1, <1>11, <1>17, <1>18, ListGoesOn

\* The next operation.
LEMMA NextOpGoesOn ==
    ASSUME OrderInv, NEW p \in Party, NextOp(p), NEW x \in Spots, x = Place(p)
    PROVE  Advances(p, x)
<1>1. /\ TapeStep(p) /\ UNCHANGED <<available, log, in>> /\ todo[p] = <<>>
      /\ ip' = [ip EXCEPT ![p] = @ + 1]
  BY DEF TapeStep, NextOp, historyVars, queueVars
<1>2. /\ TypeInv /\ TapeType /\ UNCHANGED wpc /\ Stage(p) = "on" /\ Stage(p)' = "on"
  BY <1>1, OnTheTape
<1>3. x.at = "on" /\ x.ip = ip[p] /\ x.todo = <<>> /\ x.av = available[p]
  BY <1>1, <1>2 DEF Place, Spot
<1>4. ip'[p] = ip[p] + 1 /\ ip[p] \in Nat
  BY <1>1, <1>2 DEF TapeType
<1>5. ip[p] < Len(prog') /\ todo'[p] = Steps(prog'[ip[p] + 1])
  <2>1. CASE ip[p] < Len(prog) /\ prog' = prog
             /\ todo' = [todo EXCEPT ![p] = Steps(prog[ip[p] + 1])]
    BY <1>2, <2>1 DEF TapeType
  <2>2. CASE ip[p] = Len(prog)
             /\ \E o \in Allowed : /\ prog' = Append(prog, o)
                                   /\ todo' = [todo EXCEPT ![p] = Steps(o)]
    <3>1. PICK o \in Allowed : /\ prog' = Append(prog, o)
                               /\ todo' = [todo EXCEPT ![p] = Steps(o)]
      BY <2>2
    <3>2. o \in Op /\ prog \in Seq(Op)
      BY <1>2, AllowedType DEF TapeType
    <3>3. prog'[Len(prog) + 1] = o /\ Len(prog') = Len(prog) + 1 /\ Len(prog) \in Nat
      BY <3>1, <3>2
    <3>4. todo'[p] = Steps(o)
      BY <1>2, <3>1 DEF TapeType
    <3>5. QED BY <2>2, <3>3, <3>4
  <2>3. QED BY <2>1, <2>2 DEF NextOp
<1>6. Place(p)' = Spot("on", ip[p] + 1, Steps(prog'[ip[p] + 1]), available[p])
  BY <1>1, <1>2, <1>4, <1>5 DEF Place
<1>7. After(x)' = Spot("on", ip[p] + 1, Steps(prog'[ip[p] + 1]), available[p])
  BY <1>3, <1>5 DEF After
<1>8. GoesOn(x)' /\ \A t : Gives(x, t)' = <<>>
  BY <1>3, <1>5 DEF GoesOn, Gives
<1>9. ASSUME NEW t \in Thread PROVE Assigned(p, t)' = Assigned(p, t) \o Gives(x, t)'
  <2>1. Assigned(p, t)' = Assigned(p, t) \o <<>>
    BY <1>1, <1>2, AssignedStays, IdleKeeps
  <2>2. QED BY <1>8, <2>1
<1>10. QED BY <1>6, <1>7, <1>8, <1>9 DEF Advances

\* The steps of the main tape.
LEMMA TapeGoesOn ==
    ASSUME OrderInv, NEW p \in Party, TapeStep(p)
    PROVE  Stays(p) \/ \A x \in Spots : x = Place(p) => Advances(p, x)
<1>1. CASE EndOfTape(p)
  <2>1. UNCHANGED <<ip, todo, available, in, log, wpc, mpc>>
    BY <1>1 DEF EndOfTape, queueVars, historyVars, workerVars, machineVars
  <2>2. Place(p)' = Place(p)
    BY <2>1, PlaceStays DEF Stage
  <2>3. \A t \in Thread : Assigned(p, t)' = Assigned(p, t)
    BY <2>1, AssignedStays
  <2>4. QED BY <2>2, <2>3 DEF Stays
<1>2. CASE NextOp(p)
  BY <1>2, NextOpGoesOn
<1>3. CASE Distribute(p)
  BY <1>3, DistributeGoesOn
<1>4. CASE OwnSlice(p)
  BY <1>4, OwnSliceGoesOn
<1>5. ASSUME NEW t \in Helper,
             WrapUp(p, t) \/ FillBuffers(p, t) \/ RunTape(p, t) \/ JoinTape(p, t)
      PROVE  \A x \in Spots : x = Place(p) => Advances(p, x)
  BY <1>5, QuietGoesOn, RunTapeGoesOn
<1>6. QED BY <1>1, <1>2, <1>3, <1>4, <1>5 DEF TapeStep

\* Every step keeps all parties on one course.
LEMMA NextTrail ==
    ASSUME ~Nests', OrderInv, TrailInv, [Next]_vars
    PROVE  TrailInv'
<1>a. TypeInv /\ OrderInv' /\ TypeInv' /\ \A q \in Party : ListOK(q)'
  <2>1. OrderInv'
    BY NextOrder
  <2>2. TypeInv
    BY DEF OrderInv, CountInv
  <2>3. TypeInv'
    BY <2>1 DEF OrderInv, CountInv
  <2>4. \A q \in Party : ListOK(q)'
    BY <2>1 DEF OrderInv, InOrder
  <2>5. QED BY <2>1, <2>2, <2>3, <2>4
<1>1. ASSUME NEW p \in Party, MachineStep(p) \/ TapeStep(p) PROVE TrailInv'
  <2>1. Grows /\ \A q \in Party : q # p => Stays(q)
    BY <1>1, OthersStay
  <2>2. Stays(p) \/ \A x \in Spots : x = Place(p) => Advances(p, x)
    BY <1>1, MachineGoesOn, TapeGoesOn
  <2>3. QED BY <1>a, <2>1, <2>2, TrailKept
<1>2. ASSUME NEW p \in Party, NEW t \in Thread, WorkerStep(p, t) PROVE TrailInv'
  <2>1. Grows /\ \A q \in Party : Stays(q)
    BY <1>2, WorkerStays
  <2>2. QED BY <1>a, <2>1, TrailKept
<1>3. ASSUME UNCHANGED vars PROVE TrailInv'
  <2>1. UNCHANGED <<prog, over, ip, todo, available, mpc, wpc, in, log>>
    BY <1>3 DEF vars, machineVars, queueVars, workerVars, tapeVars, historyVars
  <2>2. Grows
    BY <2>1 DEF Grows
  <2>3. ASSUME NEW q \in Party PROVE Stays(q)
    <3>1. Place(q)' = Place(q)
      BY <2>1, PlaceStays DEF Stage
    <3>2. \A t \in Thread : Assigned(q, t)' = Assigned(q, t)
      BY <2>1, AssignedStays
    <3>3. QED BY <3>1, <3>2 DEF Stays
  <2>4. PICK p : p \in Party
    BY PartyAssumption
  <2>5. QED BY <1>a, <2>2, <2>3, <2>4, TrailKept
<1>4. QED BY <1>1, <1>2, <1>3 DEF Next

\* Thread t begins the same jobs in the same order at all parties, answers go
\* to who waits for them, and buffers are written and queues freed only while
\* their thread is quiet, for any number of parties and threads and any program
\* (ThreadQueues::distribute, wrap_up, Machine::fill_buffers, Machine::run);
\* until a distribute nests another while threads are free, as JobsInOrder says.
\* A nested distribute that finds no thread free is within the theorem, and
\* which jobs exchange messages plays no part in it.
THEOREM JobsBeginInOrder == Spec => []JobsInOrder
<1> DEFINE I == TypeInv /\ (~Nests => OrderInv /\ TrailInv)
<1>1. Init => I
  BY InitType, InitOrder, InitTrail
<1>2. I /\ [Next]_vars => I'
  <2> SUFFICES ASSUME TypeInv, ~Nests => OrderInv /\ TrailInv, [Next]_vars
               PROVE  TypeInv' /\ (~Nests' => OrderInv' /\ TrailInv')
    OBVIOUS
  <2>1. TypeInv'
    BY NextType
  <2>2. ASSUME ~Nests' PROVE OrderInv' /\ TrailInv'
    <3>1. OrderInv /\ TrailInv
      BY <2>2, NestsBefore
    <3>2. QED BY <2>2, <3>1, NextOrder, NextTrail
  <2>3. QED BY <2>1, <2>2
<1>3. I => JobsInOrder
  <2>1. ~Nests /\ I => SameJobs
    BY TrailSame
  <2>2. ~Nests /\ I => ResultsMatch /\ FillBuffersIdle /\ FreedQueuesQuiet
    BY OrderResults, OrderBuffers, OrderFreed
  <2>3. QED BY <2>1, <2>2 DEF JobsInOrder
<1>4. QED BY <1>1, <1>2, <1>3, PTL DEF Spec
=============================================================================
