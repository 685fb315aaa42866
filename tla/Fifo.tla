-------------------------------- MODULE Fifo --------------------------------
(***************************************************************************)
(* What a work queue promises its users: values leave in the order in which *)
(* they were put in, each once, none is made up, and once the queue has     *)
(* been closed it never opens again.                                        *)
(*                                                                          *)
(* This is the contract under which ThreadQueue, Sender, Receiver and       *)
(* Worker use Tools/WaitQueue.h; WaitQueue.tla is shown to implement it.    *)
(***************************************************************************)
EXTENDS Sequences

CONSTANT Value        \* what the queue holds

VARIABLES pending,    \* values put in and not yet taken out, oldest first
          taken,      \* values taken out, in the order they left
          open        \* FALSE once the queue has been closed

vars == <<pending, taken, open>>

Init ==
    /\ pending = <<>>
    /\ taken = <<>>
    /\ open = TRUE

Put(v) ==
    /\ pending' = Append(pending, v)
    /\ UNCHANGED <<taken, open>>

Take ==
    /\ pending # <<>>
    /\ pending' = Tail(pending)
    /\ taken' = Append(taken, Head(pending))
    /\ UNCHANGED open

Close ==
    /\ open' = FALSE
    /\ UNCHANGED <<pending, taken>>

Next ==
    \/ \E v \in Value : Put(v)
    \/ Take
    \/ Close

Spec == Init /\ [][Next]_vars

=============================================================================
