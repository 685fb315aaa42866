--------------------------- MODULE ThreadedPlayer ---------------------------
(***************************************************************************)
(* An encrypted player at work (CryptoPlayer, Sender, Receiver), on the    *)
(* connections that Connect has set up.  For every peer the player has a   *)
(* sending thread on one of the two connections and a receiving thread on  *)
(* the other; the peer has them the other way round.  The main thread puts *)
(* streams into their queues and then waits for the same streams to come   *)
(* out of the finished ones, in the same order.                            *)
(*                                                                         *)
(* All parties go through the same operations.  The main thread sends from *)
(* one stream that it fills anew for every operation, so that what arrives *)
(* depends on when a sending thread reads it.  Pushing never waits: the    *)
(* requests of one operation are one step.  A connection holds one message *)
(* in each direction.                                                      *)
(***************************************************************************)
EXTENDS Connect, Sequences

CONSTANT Scripts   \* by number of parties: the sequences of operations

VARIABLES script,       \* the operations, see Operation
          talk,         \* of every party: operation, stage, next call
          sIn, sOut,    \* Sender::in and out by party and peer: streams
          rIn, rOut,    \* Receiver::in and out
          wire,         \* what is under way, by connection and sending party
          got           \* by party: what arrived, from whom in which operation

players == <<script, talk, sIn, sOut, rIn, rOut, wire, got>>

(* An operation has a kind; channels: who sends to whom; offset.           *)
Broadcast(n) == [kind |-> "all", channels |-> {c \in (0..n-1) \X (0..n-1) : c[1] # c[2]}, offset |-> 0]
SendReceiveAll(ch) == [kind |-> "all", channels |-> ch, offset |-> 0]
PassAround(off) == [kind |-> "pass", channels |-> {}, offset |-> off]
SendTo(i, k) == [kind |-> "all", channels |-> {<<i, k>>}, offset |-> 0]
InPlace(n, off) == [kind |-> "inPlace", channels |-> {}, offset |-> off]

\* What all parties call together; get_player goes round by a proper offset.
Operation(n) ==
    [kind : {"all"}, channels : SUBSET ((0..n-1) \X (0..n-1)), offset : {0}]
    \cup [kind : {"pass", "inPlace"}, channels : {{}}, offset : 1..n-1]
ASSUME ScriptsAssumption ==
    \A x \in Teams : x.encrypted => \A s \in Scripts[x.n] : s \in Seq(Operation(x.n))

Peer(i, offset) == (i + offset) % team.n

\* The streams party i requests, and then waits for, by their place in the
\* order: per peer, the one to send and the one to receive.
Calls(i, op) ==
    IF op.kind = "pass" THEN << <<"send", Peer(i, op.offset)>>, <<"receive", Peer(i, team.n - op.offset)>> >>
    ELSE IF op.kind = "inPlace" THEN <<>>
    ELSE LET call(j) == <<IF j % 2 = 1 THEN "send" ELSE "receive", Peer(i, (j + 1) \div 2)>>
             wanted(c) == (IF c[1] = "send" THEN <<i, c[2]>> ELSE <<c[2], i>>) \in op.channels
         IN  [j \in {l \in 1..(2 * (team.n - 1)) : wanted(call(l))} |-> call(j)]
First(J) == CHOOSE j \in J : \A l \in J : j <= l

(* The socket a sending thread and a receiving thread get.                 *)
SendChannel(i, k) == IF k < i THEN 0 ELSE 1
ReceiveChannel(i, k) == IF k < i THEN 1 ELSE 0

Socket(i, ch, k) == sockets[Main(i)][ch][k]
Direction(i, ch, k) == <<Socket(i, ch, k), i>>
From(i, ch, k) == <<Socket(i, ch, k), k>>

Queues == [i \in Parties |-> [k \in Parties |-> <<>>]]
Room == 1

TalkInit ==
    /\ script \in IF team.encrypted /\ team.threads = 1 THEN Scripts[team.n] ELSE {<<>>}
    /\ talk = [i \in Parties |-> [op |-> 1, stage |-> "request", at |-> 1]]
    /\ sIn = Queues /\ sOut = Queues /\ rIn = Queues /\ rOut = Queues
    /\ wire = [d \in Conns \X Parties |-> <<>>]
    /\ got = [i \in Parties |-> {}]

Working(i) == pc[Main(i)] = Up /\ talk[i].op <= Len(script)
Op(i) == script[talk[i].op]
Message(i) == <<i, talk[i].op>>
Advance(i) == talk' = [talk EXCEPT ![i] = [op |-> @.op + 1, stage |-> "request", at |-> 1]]

\* request for every stream of the operation.
Request(i) ==
    LET o == talk[i].op
        order == DOMAIN Calls(i, Op(i))
        calls == {Calls(i, Op(i))[j] : j \in order}
        add(q, s) == [q EXCEPT ![i] = [k \in Parties |-> IF <<s, k>> \in calls THEN Append(@[k], o) ELSE @[k]]]
    IN  /\ Working(i)
        /\ talk[i].stage = "request"
        /\ Op(i).kind # "inPlace"
        /\ sIn' = add(sIn, "send")
        /\ rIn' = add(rIn, "receive")
        /\ IF order = {} THEN Advance(i)
           ELSE talk' = [talk EXCEPT ![i] = [op |-> o, stage |-> "wait", at |-> First(order)]]
        /\ UNCHANGED <<vars, script, sOut, rOut, wire, got>>

(* Mutant: an operation ends without waiting for its last stream.          *)
WaitForEarly(i) ==
    LET o == talk[i].op
        calls == Calls(i, Op(i))
        c == calls[talk[i].at]
        later == {j \in DOMAIN calls : j > talk[i].at}
        out == IF c[1] = "send" THEN sOut[i][c[2]] ELSE rOut[i][c[2]]
    IN  /\ Working(i)
        /\ talk[i].stage = "wait"
        /\ out # <<>>
        /\ sOut' = IF c[1] = "send" THEN [sOut EXCEPT ![i][c[2]] = Tail(@)] ELSE sOut
        /\ rOut' = IF c[1] = "send" THEN rOut ELSE [rOut EXCEPT ![i][c[2]] = Tail(@)]
        /\ IF Head(out) # o THEN talk' = [talk EXCEPT ![i].stage = "threw"]
           ELSE IF Cardinality(later) <= 1 THEN Advance(i)
           ELSE talk' = [talk EXCEPT ![i].at = First(later)]
        /\ UNCHANGED <<vars, script, sIn, rIn, wire, got>>

\* Sender::wait and Receiver::wait; another stream than the awaited one throws.
WaitFor(i) ==
    LET o == talk[i].op
        calls == Calls(i, Op(i))
        c == calls[talk[i].at]
        later == {j \in DOMAIN calls : j > talk[i].at}
        out == IF c[1] = "send" THEN sOut[i][c[2]] ELSE rOut[i][c[2]]
    IN  /\ Working(i)
        /\ talk[i].stage = "wait"
        /\ out # <<>>
        /\ sOut' = IF c[1] = "send" THEN [sOut EXCEPT ![i][c[2]] = Tail(@)] ELSE sOut
        /\ rOut' = IF c[1] = "send" THEN rOut ELSE [rOut EXCEPT ![i][c[2]] = Tail(@)]
        /\ IF Head(out) # o THEN talk' = [talk EXCEPT ![i].stage = "threw"]
           ELSE IF later = {} THEN Advance(i)
           ELSE talk' = [talk EXCEPT ![i].at = First(later)]
        /\ UNCHANGED <<vars, script, sIn, rIn, wire, got>>

\* Sender::run: the stream is read when it is sent.
SenderRun(i, k) ==
    LET d == Direction(i, SendChannel(i, k), k)
    IN  /\ pc[Main(i)] = Up
        /\ sIn[i][k] # <<>>
        /\ Len(wire[d]) < Room
        /\ wire' = [wire EXCEPT ![d] = Append(@, Message(i))]
        /\ sIn' = [sIn EXCEPT ![i][k] = Tail(@)]
        /\ sOut' = [sOut EXCEPT ![i][k] = Append(@, Head(sIn[i][k]))]
        /\ UNCHANGED <<vars, script, talk, rIn, rOut, got>>

Receive(i, k, o, d) ==
    /\ wire[d] # <<>>
    /\ wire' = [wire EXCEPT ![d] = Tail(@)]
    /\ got' = [got EXCEPT ![i] = @ \cup {[op |-> o, k |-> k, message |-> Head(wire[d])]}]

\* Receiver::run.
ReceiverRun(i, k) ==
    /\ pc[Main(i)] = Up
    /\ rIn[i][k] # <<>>
    /\ Receive(i, k, Head(rIn[i][k]), From(i, ReceiveChannel(i, k), k))
    /\ rIn' = [rIn EXCEPT ![i][k] = Tail(@)]
    /\ rOut' = [rOut EXCEPT ![i][k] = Append(@, Head(rIn[i][k]))]
    /\ UNCHANGED <<vars, script, talk, sIn, sOut>>

\* pass_around and exchange with one stream for both go around the threads:
\* MultiPlayer sends and receives on the first connection, and write_some
\* waits where a plain socket would not.
DirectSend(i) ==
    LET d == Direction(i, 0, Peer(i, Op(i).offset))
    IN  /\ Working(i)
        /\ Op(i).kind = "inPlace" /\ talk[i].stage = "request"
        /\ Len(wire[d]) < Room
        /\ wire' = [wire EXCEPT ![d] = Append(@, Message(i))]
        /\ talk' = [talk EXCEPT ![i].stage = "direct"]
        /\ UNCHANGED <<vars, script, sIn, sOut, rIn, rOut, got>>

DirectReceive(i) ==
    LET k == Peer(i, team.n - Op(i).offset)
    IN  /\ Working(i)
        /\ talk[i].stage = "direct"
        /\ Receive(i, k, talk[i].op, From(i, 0, k))
        /\ Advance(i)
        /\ UNCHANGED <<vars, script, sIn, sOut, rIn, rOut>>

MainStep(i) == Request(i) \/ WaitFor(i) \/ DirectSend(i) \/ DirectReceive(i)
WorkerStep(i, k) == k # i /\ (SenderRun(i, k) \/ ReceiverRun(i, k))

TalkNext == \E i \in Parties : MainStep(i) \/ \E k \in Parties : WorkerStep(i, k)

\* Setting up, then talking.
PlayerInit == Init /\ TalkInit
PlayerNext == (Next /\ UNCHANGED players) \/ TalkNext
PlayerSpec == PlayerInit /\ [][PlayerNext]_<<vars, players>>

\* Main threads and working threads make progress.
TalkFairness ==
    /\ \A i \in 0..2 : WF_<<vars, players>>(i \in Parties /\ MainStep(i))
    /\ \A i \in 0..2, k \in 0..2 : WF_<<vars, players>>(i \in Parties /\ k \in Parties /\ WorkerStep(i, k))

\* What a party has received from a peer in an operation it has completed is
\* what the peer filled its stream with for that operation: the queues, the
\* two connections and the reuse of the stream never mix up operations
\* (CryptoPlayer::Broadcast_Receive_no_stats, Sender::wait).
InStep ==
    \A i \in Parties : \A g \in got[i] : g.message = <<g.k, g.op>>

\* Nobody waits for a stream and gets another (Receiver::wait throws
\* not_implemented).
NoMixUp == \A i \in Parties : talk[i].stage # "threw"

\* What a party receives is what was sent to it in this operation, and its
\* receivers never hand out a stream nobody waits for (Sender, Receiver).
TalkInStep == InStep /\ NoMixUp

\* Every operation ends at every party, unless a process has ended.
Finished == \/ \E i \in Parties : ~ Alive(i)
            \/ \A i \in Parties : talk[i].op = Len(script) + 1
=============================================================================
