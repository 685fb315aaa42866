-------------------------- MODULE WaitQueueProofs --------------------------
(***************************************************************************)
(* Theorems about WaitQueue for any values, any number of pushes and either *)
(* kind of consumer.                                                        *)
(***************************************************************************)
EXTENDS WaitQueue, TLAPS

\* After pop's unlock() there is a value in hand for "return running" to
\* report: what typing the value handed over rests on.
SomethingInHand == pc = "unlocked" => got # <<>>

TypeInv == TypeOK /\ SomethingInHand

\* A consumer woken in pop finds something or finds the queue stopped, which
\* makes its "if" around wait() enough: the strengthening NoUB needs.
WokenForAReason ==
    ~DontStop /\ ~Spurious /\ pc = "woken" /\ running => queue # <<>>

WakeInv == NoUB /\ NoLostWakeup /\ WokenForAReason

-----------------------------------------------------------------------------
\* Taking the front off a deque that has one keeps the types and leaves a
\* value in hand.
LEMMA TakeFrontType ==
    ASSUME TypeOK, queue # <<>>, TakeFront
    PROVE  /\ Head(queue) \in Value
           /\ queue' \in Seq(Value)
           /\ got' \in Seq(Value)
           /\ got' # <<>>
  BY DEF TypeOK, TakeFront

\* Either pop after its wait keeps the types.
LEMMA BodyType ==
    ASSUME TypeInv, Body, UNCHANGED <<mode, running, pushed>>
    PROVE  TypeInv'
<1> USE DEF TypeInv, TypeOK, SomethingInHand, Control
<1>1. CASE queue = <<>>
  BY <1>1 DEF Body, PopBody, PopDontStopBody
<1>2. CASE queue # <<>> /\ TakeFront
  <2>1. /\ Head(queue) \in Value
        /\ queue' \in Seq(Value)
        /\ got' \in Seq(Value)
        /\ got' # <<>>
    BY <1>2, TakeFrontType
  <2>2. CASE PopDontStopBody
    <3>1. Append(handled, Head(queue)) \in Seq(Value)
      BY <2>1
    <3>2. QED
      BY <1>2, <2>1, <2>2, <3>1, Zenon DEF PopDontStopBody
  <2>3. CASE PopBody
    BY <1>2, <2>1, <2>3, Zenon DEF PopBody
  <2>4. QED BY <2>2, <2>3 DEF Body
<1>3. CASE queue # <<>> /\ ~TakeFront
  BY <1>3 DEF Body, PopBody, PopDontStopBody
<1>4. QED BY <1>1, <1>2, <1>3

\* Every variable keeps its type (WaitQueue.h as a whole).
THEOREM TypeCorrect == Spec => []TypeOK
<1>1. Init => TypeInv
  <2>1. <<>> \in Seq(Value)
    OBVIOUS
  <2>2. QED
    BY <2>1, Zenon DEF Init, TypeInv, TypeOK, SomethingInHand, Control
<1>2. ASSUME TypeInv, [Next]_vars PROVE TypeInv'
  <2> USE <1>2 DEF TypeInv, SomethingInHand, Control
  <2>1. CASE \E v \in Value : Push(v)
    BY <2>1 DEF TypeOK, Push, Signal
  <2>2. CASE Stop
    BY <2>2 DEF TypeOK, Stop, Signal
  <2>3. CASE Enter
    <3>1. CASE MustWait
      BY <2>3, <3>1 DEF TypeOK, Enter
    <3>2. CASE ~MustWait
      BY <2>3, <3>2, BodyType DEF Enter
    <3>3. QED BY <3>1, <3>2
  <2>4. CASE Resume
    BY <2>4, BodyType DEF Resume
  <2>5. CASE Return
    <3>1. got[Len(got)] \in Value
      BY <2>5 DEF TypeOK, Return
    <3>2. Append(handled, got[Len(got)]) \in Seq(Value)
      BY <3>1 DEF TypeOK
    <3>3. QED BY <2>5, <3>2, Zenon DEF TypeOK, Return
  <2>6. CASE SpuriousWakeup
    BY <2>6 DEF TypeOK, SpuriousWakeup
  <2>7. CASE UNCHANGED vars
    BY <2>7 DEF TypeOK, vars
  <2>8. QED
    BY <2>1, <2>2, <2>3, <2>4, <2>5, <2>6, <2>7 DEF Next, ConsumerStep
<1>3. TypeInv => TypeOK
  BY DEF TypeInv
<1>4. QED BY <1>1, <1>2, <1>3, PTL DEF Spec

-----------------------------------------------------------------------------
\* Where wait() returns only when signalled, or the consumer looks at the size
\* again after it (pop_dont_stop), pop never touches an empty deque, and no
\* consumer sleeps through a push or a stop (WaitQueue.h:58-109).
THEOREM WakeSafe == Spec => [](NoUB /\ NoLostWakeup)
<1>1. Init => WakeInv
  BY DEF Init, WakeInv, NoUB, NoLostWakeup, WokenForAReason
<1>2. ASSUME WakeInv, TypeOK, [Next]_vars PROVE WakeInv'
  <2> USE <1>2 DEF WakeInv, NoUB, NoLostWakeup, WokenForAReason, DontStop, Spurious
  <2>1. CASE \E v \in Value : Push(v)
    BY <2>1 DEF TypeOK, Push, Signal
  <2>2. CASE Stop
    BY <2>2 DEF Stop, Signal
  <2>3. ASSUME Body, ~(~DontStop /\ ~Spurious /\ running /\ queue = <<>>),
               UNCHANGED <<mode, running, pushed>>
        PROVE  WakeInv'
    BY <2>3 DEF Body, PopBody, PopDontStopBody
  <2>4. CASE Enter
    BY <2>3, <2>4 DEF Enter, MustWait
  <2>5. CASE Resume
    BY <2>3, <2>5 DEF Resume
  <2>6. CASE Return
    BY <2>6 DEF Return
  <2>7. CASE SpuriousWakeup
    BY <2>7 DEF SpuriousWakeup
  <2>8. CASE UNCHANGED vars
    BY <2>8 DEF vars
  <2>9. QED
    BY <2>1, <2>2, <2>4, <2>5, <2>6, <2>7, <2>8 DEF Next, ConsumerStep
<1>3. WakeInv => NoUB /\ NoLostWakeup
  BY DEF WakeInv
<1>4. QED BY <1>1, <1>2, <1>3, TypeCorrect, PTL DEF Spec

-----------------------------------------------------------------------------
\* Either pop takes the oldest value or takes nothing.
LEMMA BodyTakes ==
    ASSUME Body, UNCHANGED running
    PROVE  Fifo!Take \/ UNCHANGED Fifo!vars
  BY DEF Body, PopBody, PopDontStopBody, TakeFront, Fifo!Take, Fifo!vars

\* The mutex and the condition variable implement the work queue of Fifo.tla:
\* values leave in order and once, and a stopped queue stays stopped. This
\* needs no assumption about spurious wakeups.
THEOREM RefinesFifo == Spec => ImplementsFifo
<1>1. Init => Fifo!Init
  BY DEF Init, Fifo!Init
<1>2. ASSUME [Next]_vars PROVE [Fifo!Next]_(Fifo!vars)
  <2>1. CASE \E v \in Value : Push(v)
    BY <2>1 DEF Push, Fifo!Next, Fifo!Put
  <2>2. CASE Stop
    BY <2>2 DEF Stop, Fifo!Next, Fifo!Close
  <2>3. CASE Enter
    <3>1. CASE MustWait /\ UNCHANGED <<queue, ub, got, handled>>
      BY <2>3, <3>1 DEF Enter, Fifo!vars
    <3>2. CASE Body
      BY <2>3, <3>2, BodyTakes DEF Enter, Fifo!Next
    <3>3. QED BY <2>3, <3>1, <3>2 DEF Enter
  <2>4. CASE Resume
    BY <2>4, BodyTakes DEF Resume, Fifo!Next
  <2>5. CASE Return
    BY <2>5 DEF Return, Fifo!vars
  <2>6. CASE SpuriousWakeup
    BY <2>6 DEF SpuriousWakeup, Fifo!vars
  <2>7. CASE UNCHANGED vars
    BY <2>7 DEF vars, Fifo!vars
  <2>8. QED
    BY <1>2, <2>1, <2>2, <2>3, <2>4, <2>5, <2>6, <2>7 DEF Next, ConsumerStep
<1>3. QED BY <1>1, <1>2, PTL DEF Spec, ImplementsFifo, Fifo!Spec

-----------------------------------------------------------------------------
\* Nothing is lost on the way: what was pushed is what was taken and what is
\* still queued, and pop_dont_stop hands over what it takes.
Conserved == pushed = got \o queue

DrainInv ==
    /\ Conserved
    /\ DontStop => got = handled
    /\ DontStop => pc # "unlocked"
    /\ DontStop /\ ~Spurious /\ pc = "woken" /\ running => queue # <<>>
    /\ DontStop /\ ~Spurious /\ pc = "done" => ~running /\ queue = <<>>

\* Moving the front of a queue to the end of what was taken changes nothing
\* about the two together.
LEMMA MoveFront ==
    ASSUME NEW s \in Seq(Value), NEW q \in Seq(Value), q # <<>>
    PROVE  Append(s, Head(q)) \o Tail(q) = s \o q
  OBVIOUS

\* Pushing appends to the two together.
LEMMA PushBack ==
    ASSUME NEW s \in Seq(Value), NEW q \in Seq(Value), NEW v \in Value
    PROVE  Append(s \o q, v) = s \o Append(q, v)
  OBVIOUS

\* A consumer that uses pop_dont_stop has handled everything that was pushed
\* when its loop ends (WaitQueue.h:87-100, used by GC::Thread and BMR Client).
THEOREM Drained == Spec => []DrainedWhenDone
<1>1. Init => DrainInv
  BY DEF Init, DrainInv, Conserved
<1>2. ASSUME DrainInv, TypeOK, [Next]_vars PROVE DrainInv'
  <2> USE <1>2 DEF DrainInv, Conserved, DontStop, Spurious
  <2>1. ASSUME NEW v \in Value, Push(v) PROVE DrainInv'
    <3>1. /\ got' \o queue' = got \o Append(queue, v)
          /\ pushed' = Append(got \o queue, v)
      BY <2>1 DEF Push
    <3>2. Conserved'
      BY <3>1, PushBack DEF TypeOK
    <3>3. queue' # <<>> /\ (pc = "done" => pc' = "done") /\ running
      BY <2>1 DEF Push, Signal, TypeOK
    <3>4. QED
      BY <2>1, <3>2, <3>3 DEF Push, Signal
  <2>2. CASE Stop
    BY <2>2 DEF Stop, Signal
  <2>3. ASSUME Body, UNCHANGED <<mode, running, pushed>>,
               DontStop /\ ~Spurious /\ running => queue # <<>>
        PROVE  DrainInv'
    <3>1. CASE queue # <<>> /\ TakeFront
      <4>1. Conserved'
        BY <2>3, <3>1, MoveFront DEF TakeFront, TypeOK
      <4>2. QED
        BY <2>3, <3>1, <4>1 DEF Body, PopBody, PopDontStopBody, TakeFront
    <3>2. CASE ~(queue # <<>> /\ TakeFront)
      BY <2>3, <3>2 DEF Body, PopBody, PopDontStopBody
    <3>3. QED BY <3>1, <3>2
  <2>4. CASE Enter
    BY <2>3, <2>4 DEF Enter, MustWait
  <2>5. CASE Resume
    BY <2>3, <2>5 DEF Resume
  <2>6. CASE Return
    BY <2>6 DEF Return
  <2>7. CASE SpuriousWakeup
    BY <2>7 DEF SpuriousWakeup
  <2>8. CASE UNCHANGED vars
    BY <2>8 DEF vars
  <2>9. QED
    BY <2>1, <2>2, <2>4, <2>5, <2>6, <2>7, <2>8 DEF Next, ConsumerStep
<1>3. TypeOK /\ DrainInv => DrainedWhenDone
  <2>1. got \in Seq(Value) => got \o <<>> = got
    OBVIOUS
  <2>2. QED
    BY <2>1 DEF DrainInv, Conserved, DrainedWhenDone, TypeOK
<1>4. QED BY <1>1, <1>2, <1>3, TypeCorrect, PTL DEF Spec

-----------------------------------------------------------------------------
\* What the consumer took and did not handle yet is the last value: after
\* pop's unlock(), or when a stop() came before "return running" was read.
LastInHand == got = Append(handled, got[Len(got)])
HandInv ==
    /\ pc \in {"idle", "waiting", "woken"} => got = handled
    /\ pc = "unlocked" => ~DontStop /\ got # <<>> /\ LastInHand
    /\ pc = "done" => got = handled \/ (~DontStop /\ ~running /\ got # <<>> /\ LastInHand)

\* The front of the queue is what is in hand after it was taken.
LEMMA TakenInHand ==
    ASSUME TypeOK, queue # <<>>, got = handled, TakeFront
    PROVE  /\ got' = Append(handled, Head(queue))
           /\ got'[Len(got')] = Head(queue)
           /\ got' # <<>>
  BY DEF TypeOK, TakeFront

\* Either pop after its wait handles what it takes, or has it in hand.
LEMMA BodyHands ==
    ASSUME TypeOK, pc \in {"idle", "woken"}, got = handled, Body,
           UNCHANGED <<mode, running, pushed>>
    PROVE  HandInv'
<1> USE DEF HandInv, LastInHand, DontStop
<1>1. CASE queue # <<>> /\ TakeFront
  <2>1. /\ got' = Append(handled, Head(queue))
        /\ got'[Len(got')] = Head(queue)
        /\ got' # <<>>
    BY <1>1, TakenInHand
  <2>2. CASE DontStop /\ PopDontStopBody
    BY <1>1, <2>1, <2>2 DEF PopDontStopBody
  <2>3. CASE ~DontStop /\ PopBody
    BY <1>1, <2>1, <2>3 DEF PopBody
  <2>4. QED BY <2>2, <2>3 DEF Body
<1>2. CASE ~(queue # <<>> /\ TakeFront)
  <2>1. pc' # "unlocked" /\ got' = handled'
    BY <1>2 DEF Body, PopBody, PopDontStopBody
  <2>2. QED BY <2>1
<1>3. QED BY <1>1, <1>2

\* A consumer never sleeps through a push, and a value it took goes unhandled
\* only if stop() came between pop's unlock() and its unlocked read of
\* running; never more than one value, and none with pop_dont_stop
\* (WaitQueue.h:69-77).
THEOREM NothingIsMissed == Spec => []NothingMissed
<1>1. Init => HandInv
  BY DEF Init, HandInv
<1>2. ASSUME HandInv, TypeOK, [Next]_vars PROVE HandInv'
  <2> USE <1>2 DEF HandInv, LastInHand, DontStop
  <2>1. CASE \E v \in Value : Push(v)
    BY <2>1 DEF Push, Signal
  <2>2. CASE Stop
    BY <2>2 DEF Stop, Signal
  <2>3. CASE Enter
    <3>1. CASE MustWait
      BY <2>3, <3>1 DEF Enter
    <3>2. CASE ~MustWait
      BY <2>3, <3>2, BodyHands DEF Enter
    <3>3. QED BY <3>1, <3>2
  <2>4. CASE Resume
    BY <2>4, BodyHands DEF Resume
  <2>5. CASE Return
    BY <2>5 DEF Return
  <2>6. CASE SpuriousWakeup
    BY <2>6 DEF SpuriousWakeup
  <2>7. CASE UNCHANGED vars
    BY <2>7 DEF vars
  <2>8. QED
    BY <2>1, <2>2, <2>3, <2>4, <2>5, <2>6, <2>7 DEF Next, ConsumerStep
<1>3. TypeOK /\ HandInv => LostOnlyByStop
  <2> SUFFICES ASSUME TypeOK, HandInv PROVE LostOnlyByStop
    OBVIOUS
  <2>1. CASE got = handled
    <3>1. InHand = <<>>
      BY <2>1 DEF InHand, TypeOK
    <3>2. handled \o <<>> = handled
      BY DEF TypeOK
    <3>3. QED BY <2>1, <3>1, <3>2 DEF LostOnlyByStop
  <2>2. CASE got # handled
    <3>1. /\ LastInHand /\ got # <<>> /\ ~DontStop
          /\ pc = "unlocked" \/ (pc = "done" /\ ~running)
      BY <2>2 DEF HandInv, TypeOK, Control
    <3>2. got[Len(got)] \in Value
      BY <3>1 DEF TypeOK
    <3>3. Len(handled) < Len(got)
      BY <3>1, <3>2 DEF TypeOK, LastInHand
    <3>4. handled \o <<got[Len(got)]>> = Append(handled, got[Len(got)])
      BY <3>2 DEF TypeOK
    <3>5. QED BY <3>1, <3>3, <3>4 DEF InHand, LostOnlyByStop, LastInHand
  <2>3. QED BY <2>1, <2>2
<1>4. QED
  BY <1>1, <1>2, <1>3, TypeCorrect, WakeSafe, PTL DEF Spec, NothingMissed

=============================================================================
