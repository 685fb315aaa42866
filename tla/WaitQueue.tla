----------------------------- MODULE WaitQueue -----------------------------
(***************************************************************************)
(* Tools/WaitQueue.h: a deque guarded by a mutex and a condition variable.  *)
(* Every queue of the program (ThreadQueue, Sender, Receiver, Worker,       *)
(* GC::Thread, OTMultiplier, BMR Client) has one thread that pops from it   *)
(* and one owner that pushes and, last of all, may stop it.                 *)
(*                                                                          *)
(* Every method holds the mutex from its first to its last access of the    *)
(* deque, so the steps below are the stretches between two points where a   *)
(* thread holds no lock:                                                    *)
(*   Push, Stop       the whole method;                                     *)
(*   Enter            pop / pop_dont_stop up to wait() or up to unlock();   *)
(*   Resume           from the return of wait() up to unlock();             *)
(*   Return           pop's "return running", read after unlock().          *)
(* A consumer in wait() is woken by signal() or, if Spurious, by nothing    *)
(* at all (POSIX allows it).                                                *)
(*                                                                          *)
(* front() and pop_front() on an empty deque are undefined behaviour: the   *)
(* flag ub records that it happened, and nothing is claimed afterwards.     *)
(***************************************************************************)
EXTENDS Naturals, Sequences

CONSTANTS Value,      \* what is queued
          Modes,      \* the consumers and condition variables considered
          MaxPush     \* bound: values pushed in one behaviour

\* Both ways to pop, on condition variables with and without spurious wakeups.
AllModes == [dontStop : BOOLEAN, spurious : BOOLEAN]

ASSUME ModesAssumption == Modes \subseteq AllModes
ASSUME MaxPushAssumption == MaxPush \in Nat

VARIABLES mode,       \* which of Modes this queue is used in
          queue,      \* the deque, front first
          running,    \* cleared by stop()
          pc,         \* where the consumer is
          ub,         \* front()/pop_front() met an empty deque
          pushed,     \* history: values pushed, in order
          got,        \* history: values taken off the deque, in order
          handled     \* history: values the consumer was told to handle

vars == <<mode, queue, running, pc, ub, pushed, got, handled>>

\* The consumer loops on pop_dont_stop, else on pop.
DontStop == mode.dontStop
\* wait() may return without a signal.
Spurious == mode.spurious

\* idle      about to call pop
\* waiting   in pthread_cond_wait
\* woken     signalled (or spuriously woken), mutex not yet reacquired
\* unlocked  pop has a value and released the mutex, about to read running
\* done      pop said FALSE, the consumer's loop is over
Control == {"idle", "waiting", "woken", "unlocked", "done"}

\* Every variable has its type.
TypeOK ==
    /\ mode \in Modes
    /\ queue \in Seq(Value)
    /\ running \in BOOLEAN
    /\ pc \in Control
    /\ ub \in BOOLEAN
    /\ pushed \in Seq(Value)
    /\ got \in Seq(Value)
    /\ handled \in Seq(Value)

Init ==
    /\ mode \in Modes
    /\ queue = <<>>
    /\ running = TRUE
    /\ pc = "idle"
    /\ ub = FALSE
    /\ pushed = <<>>
    /\ got = <<>>
    /\ handled = <<>>

-----------------------------------------------------------------------------
\* Mutant: nobody is woken.
SignalLost == pc' = pc

\* pthread_cond_signal: wakes the waiter if there is one, is lost otherwise.
Signal == pc' = IF pc = "waiting" THEN "woken" ELSE pc

Push(v) ==
    /\ ~ub
    /\ running
    /\ Len(pushed) < MaxPush
    /\ queue' = Append(queue, v)
    /\ pushed' = Append(pushed, v)
    /\ Signal
    /\ UNCHANGED <<mode, running, ub, got, handled>>

\* Mutant: stop() without signal().
StopSilent ==
    /\ ~ub
    /\ running
    /\ running' = FALSE
    /\ UNCHANGED <<mode, queue, pc, ub, pushed, got, handled>>

\* The owner's last call, from its destructor or GC::Thread::finish.
Stop ==
    /\ ~ub
    /\ running
    /\ running' = FALSE
    /\ Signal
    /\ UNCHANGED <<mode, queue, ub, pushed, got, handled>>

-----------------------------------------------------------------------------
\* Mutant: back() and pop_back().
TakeBack ==
    /\ queue' = SubSeq(queue, 1, Len(queue) - 1)
    /\ got' = Append(got, queue[Len(queue)])

TakeFront ==
    /\ queue' = Tail(queue)
    /\ got' = Append(got, Head(queue))

\* pop after its wait: "if (running) front(), pop_front()", whatever the size.
PopBody ==
    \/ /\ running
       /\ queue # <<>>
       /\ TakeFront
       /\ pc' = "unlocked"
       /\ UNCHANGED <<ub, handled>>
    \/ /\ running
       /\ queue = <<>>
       /\ ub' = TRUE
       /\ UNCHANGED <<queue, got, handled, pc>>
    \/ /\ ~running
       /\ pc' = "done"
       /\ UNCHANGED <<queue, ub, got, handled>>

\* pop_dont_stop after its wait: decides by the size, and returns what it
\* decided while it held the mutex.
PopDontStopBody ==
    \/ /\ queue # <<>>
       /\ TakeFront
       /\ handled' = Append(handled, Head(queue))
       /\ pc' = "idle"
       /\ UNCHANGED ub
    \/ /\ queue = <<>>
       /\ pc' = "done"
       /\ UNCHANGED <<queue, ub, got, handled>>

\* Mutant: pop where pop_dont_stop is meant.
BodyPop == PopBody

Body == (DontStop /\ PopDontStopBody) \/ (~DontStop /\ PopBody)

\* Mutant: no wait.
MustWaitNever == FALSE

\* "if (running and queue.size() == 0) wait()"
MustWait == running /\ queue = <<>>

Enter ==
    /\ ~ub
    /\ pc = "idle"
    /\ \/ /\ MustWait
          /\ pc' = "waiting"
          /\ UNCHANGED <<queue, ub, got, handled>>
       \/ ~MustWait /\ Body
    /\ UNCHANGED <<mode, running, pushed>>

Resume ==
    /\ ~ub
    /\ pc = "woken"
    /\ Body
    /\ UNCHANGED <<mode, running, pushed>>

\* Mutant: "value = queue.front()" forgotten, the caller keeps its initial 0.
ReturnUnset ==
    /\ ~ub
    /\ pc = "unlocked"
    /\ \/ /\ running
          /\ handled' = Append(handled, 0)
          /\ pc' = "idle"
       \/ /\ ~running
          /\ pc' = "done"
          /\ UNCHANGED handled
    /\ UNCHANGED <<mode, queue, running, ub, pushed, got>>

\* "return running": a stop() since the unlock turns a successful pop into a
\* FALSE, and the caller never looks at the value.
Return ==
    /\ ~ub
    /\ pc = "unlocked"
    /\ \/ /\ running
          /\ handled' = Append(handled, got[Len(got)])
          /\ pc' = "idle"
       \/ /\ ~running
          /\ pc' = "done"
          /\ UNCHANGED handled
    /\ UNCHANGED <<mode, queue, running, ub, pushed, got>>

SpuriousWakeup ==
    /\ Spurious
    /\ ~ub
    /\ pc = "waiting"
    /\ pc' = "woken"
    /\ UNCHANGED <<mode, queue, running, ub, pushed, got, handled>>

ConsumerStep == Enter \/ Resume \/ Return

Next ==
    \/ \E v \in Value : Push(v)
    \/ Stop
    \/ ConsumerStep
    \/ SpuriousWakeup

Spec == Init /\ [][Next]_vars

\* A thread that can run is scheduled eventually, and a mutex held for a few
\* instructions is obtained eventually; nobody has to push or to stop.
FairSpec == Spec /\ WF_vars(ConsumerStep)

-----------------------------------------------------------------------------
(* Properties.                                                             *)

\* pop never calls front() or pop_front() on an empty deque, although it
\* tests the size with "if" and not in a loop (WaitQueue.h:69-75): given that
\* wait() returns only when signalled, or that the consumer uses pop_dont_stop.
NoUB == (Spurious => DontStop) => ~ub

\* A consumer that sleeps has nothing to do: no push and no stop() came
\* between its test of the queue and its wait without waking it.
NoLostWakeup == pc = "waiting" => queue = <<>> /\ running

\* The two histories agree on a prefix, and a value that left the deque goes
\* unhandled only if stop() came between pop's unlock() and its unlocked read
\* of running (WaitQueue.h:76-77); never more than the one in hand, and never
\* with pop_dont_stop.
InHand == IF Len(handled) < Len(got) THEN <<got[Len(got)]>> ELSE <<>>
LostOnlyByStop ==
    /\ got = handled \o InHand
    /\ InHand # <<>> => /\ ~DontStop
                        /\ pc = "unlocked" \/ (pc = "done" /\ ~running)

\* A consumer never sleeps through a push, and what it took is dropped only
\* if the queue was stopped between the two (wait, pop).
NothingMissed == NoLostWakeup /\ LostOnlyByStop

\* A consumer that loops on pop_dont_stop leaves its loop only after stop()
\* and after everything pushed has been handled (GC/Thread.hpp:69 relies on
\* it to run every scheduled tape). Only without spurious wakeups.
DrainedWhenDone ==
    DontStop /\ ~Spurious /\ pc = "done" => ~running /\ handled = pushed

\* What the queue promises, with the deque as what is pending.
Fifo == INSTANCE Fifo WITH pending <- queue, taken <- got, open <- running
ImplementsFifo == Fifo!Spec

\* Everything pushed is handled, unless the queue is stopped. A spurious
\* wakeup ends the consumer's loop instead (or is undefined, in pop).
Delivery == \A n \in 1..MaxPush :
    Len(pushed) >= n ~> Len(handled) >= n \/ ~running \/ Spurious

\* stop() ends the consumer's loop, so the pthread_join after it returns.
StopEndsLoop == ~running ~> pc = "done"

\* What is pushed is delivered unless the queue is stopped, and a stopped
\* queue ends its consumer's loop (push, stop and the loops over pop).
LoopServes == Delivery /\ StopEndsLoop

=============================================================================
