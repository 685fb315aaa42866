------------------------------ MODULE Exchange ------------------------------
(***************************************************************************)
(* Communication of the parties over one socket per pair (MultiPlayer): an  *)
(* octetStream is sent as its length and its octets, through a socket that  *)
(* takes Room items at a time. Exchanger sends and receives at once, by     *)
(* rounds that never wait to send, possibly with one stream for both.       *)
(*                                                                          *)
(* All parties go through the same operations. A length is one item of a    *)
(* socket; an octet is known by the message it is from and its place there. *)
(***************************************************************************)
EXTENDS Integers, Sequences, FiniteSets

CONSTANTS N,          \* number of parties
          Scripts,    \* sequences of operations that may be gone through
          Room,       \* items that a socket holds in one direction
          Spare       \* allocated octets of a stream beyond those in it

Party == 0 .. N - 1
None == -1

ASSUME PartyAssumption == N \in Nat \ {0, 1}
ASSUME RoomAssumption == Room \in Nat \ {0} /\ Spare \in Nat

\* exchange: pairs of parties, in channels, with each other; pass: pass_around
\* by offset; all: send_receive_all over channels; broadcast:
\* Broadcast_Receive. inPlace: the received stream is the sent one. length: of
\* what each party sends.
Operation == [kind : {"exchange", "pass", "all", "broadcast"}, offset : 0 .. N - 1,
              channels : SUBSET (Party \X Party), inPlace : BOOLEAN,
              length : [Party -> Nat]]
VARIABLES script,     \* the operations
          op, group,  \* [p] the operation and the part of it p is at
          ex,         \* [p] the Exchangers of this part, as far as constructed
          chan        \* [p][q] what is under way from p to q

vars == <<script, op, group, ex, chan>>

-----------------------------------------------------------------------------
(* Items and messages.                                                     *)

Header(p, o) == [from |-> p, op |-> o, i |-> 0, n |-> script[o].length[p]]
Octet(p, o, j) == [from |-> p, op |-> o, i |-> j, n |-> 0]
Junk == [from |-> None, op |-> 0, i |-> 0, n |-> 0]

\* What p sends in operation o.
Message(p, o) == [j \in 1 .. script[o].length[p] |-> Octet(p, o, j)]

\* decode_length: of a header its length; another item is read as some number.
Decoded(item) == IF item.i = 0 THEN item.n ELSE item.i

Larger(m, n) == IF m >= n THEN m ELSE n
Smaller(m, n) == IF m <= n THEN m ELSE n

-----------------------------------------------------------------------------
(* Whom the operations send to and receive from.                           *)

GetPlayer(p, offset) == (p + offset) % N

Transfer(to, from) == [to |-> to, from |-> from]

\* exchange of p with its partner, if it has one.
WithPartner(p, channels) ==
    LET partners == {q \in Party \ {p} : <<p, q>> \in channels}
    IN IF partners = {} THEN <<>>
       ELSE LET q == CHOOSE r \in partners : TRUE IN << <<Transfer(q, q)>> >>

\* Mutant: at every offset a party receives before it sends.
ByOffsetReceiveFirst(p, channels) ==
    [m \in 1 .. 2 * (N - 1) |->
        LET d == (m + 1) \div 2
            to == GetPlayer(p, d)
            from == GetPlayer(p, N - d)
        IN <<IF m % 2 = 1
             THEN Transfer(None, IF <<from, p>> \in channels THEN from ELSE None)
             ELSE Transfer(IF <<p, to>> \in channels THEN to ELSE None, None)>>]

\* send_receive_all: offset by offset, to one and from another party.
ByOffset(p, channels) ==
    [d \in 1 .. N - 1 |->
        LET to == GetPlayer(p, d)
            from == GetPlayer(p, N - d)
        IN <<Transfer(IF <<p, to>> \in channels THEN to ELSE None,
                      IF <<from, p>> \in channels THEN from ELSE None)>>]

\* Broadcast_Receive: the same, all at once.
AtOnce(p) == << [d \in 1 .. N - 1 |-> Transfer(GetPlayer(p, d), GetPlayer(p, N - d))] >>

\* The parts of operation a of party p, each the transfers it has under way
\* at the same time.
Parts(p, a) ==
    CASE a.kind = "exchange"  -> WithPartner(p, a.channels)
      [] a.kind = "pass"      -> << <<Transfer(GetPlayer(p, a.offset),
                                               GetPlayer(p, N - a.offset))>> >>
      [] a.kind = "all"       -> ByOffset(p, a.channels)
      [] a.kind = "broadcast" -> AtOnce(p)

\* What the parties do fits together: one is exchanged with by whom it exchanges
\* with, and only exchange and pass_around send from the stream they receive
\* into. That one must not move while octets of it are still to be sent, and
\* who is not the one sent to may have started its next message when fewer octets
\* than own ones are to come.
Usable(a) ==
    /\ a.kind = "exchange" =>
          \A c \in a.channels :
             /\ <<c[2], c[1]>> \in a.channels
             /\ \A d \in a.channels :
                   c[1] = d[1] /\ c[2] # c[1] /\ d[2] # d[1] => c[2] = d[2]
    /\ a.inPlace =>
          /\ a.kind \in {"exchange", "pass"}
          /\ \A p \in Party : \A g \in DOMAIN Parts(p, a) :
                LET t == Parts(p, a)[g][1]
                    own == a.length[p]
                    other == a.length[t.from]
                IN /\ own = 0 \/ Larger(own, other) < own + Spare
                   /\ t.to = t.from \/ other = 0 \/ own <= other + 1

ASSUME ScriptAssumption ==
    /\ Scripts \subseteq Seq(Operation)
    /\ \A s \in Scripts : \A o \in DOMAIN s : Usable(s[o])

Active(p) == op[p] <= Len(script) /\ group[p] <= Len(Parts(p, script[op[p]]))
Current(p) == Parts(p, script[op[p]])[group[p]]
InPlace(p) == script[op[p]].inPlace

-----------------------------------------------------------------------------

Init ==
    /\ script \in Scripts
    /\ op = [p \in Party |-> 1]
    /\ group = [p \in Party |-> 1]
    /\ ex = [p \in Party |-> <<>>]
    /\ chan = [p \in Party |-> [q \in Party |-> <<>>]]

\* The Exchanger of a transfer, or the state of a Send or a Receive alone.
NewExchanger(p, t) ==
    [to       |-> t.to,
     from     |-> t.from,
     len      |-> IF t.to = None THEN 0 ELSE script[op[p]].length[p],
     sent     |-> 0,
     received |-> 0,
     known    |-> t.from = None,
     newLen   |-> 0,
     buf      |-> IF InPlace(p) THEN Message(p, op[p]) ELSE <<>>,
     freed    |-> FALSE]

\* The constructor waits until it has sent the length.
Construct(p) ==
    /\ Active(p)
    /\ Len(ex[p]) < Len(Current(p))
    /\ LET t == Current(p)[Len(ex[p]) + 1]
       IN /\ ex' = [ex EXCEPT ![p] = Append(@, NewExchanger(p, t))]
          /\ \/ t.to = None /\ chan' = chan
             \/ /\ t.to # None
                /\ Len(chan[p][t.to]) < Room
                /\ chan' = [chan EXCEPT ![p][t.to] = Append(@, Header(p, op[p]))]
    /\ UNCHANGED <<script, op, group>>

\* round(): whether to go on.
Busy(e) == e.received < e.newLen \/ e.sent < e.len \/ ~e.known

\* What may be read at the position to send from: memory that has been freed
\* may hold anything.
Outgoing(p, e, n) ==
    LET own == IF InPlace(p) /\ ~e.freed THEN e.buf ELSE Message(p, op[p])
    IN {[j \in 1 .. n |-> own[e.sent + j]]}
       \cup (IF e.freed THEN {[j \in 1 .. n |-> Junk]} ELSE {})

\* Mutant: nothing is held back when there is one stream.
ToReceiveAll(p, e) == e.newLen - e.received

\* How much to ask for: with one stream no more than was sent from it.
ToReceive(p, e) ==
    IF e.sent = e.len \/ ~InPlace(p) THEN e.newLen - e.received
    ELSE IF e.sent > e.received THEN e.sent - e.received
    ELSE 0

\* The octets s written behind those received.
Received(e, s) ==
    [e EXCEPT !.buf = [j \in 1 .. Larger(Len(@), e.received + Len(s)) |->
                          IF j > e.received /\ j <= e.received + Len(s)
                          THEN s[j - e.received] ELSE @[j]],
              !.received = @ + Len(s)]

\* The length has come: resize, which moves a stream that is full, and leaves
\* the Exchanger with the old place if it also sends from it.
Resized(p, e, n) ==
    LET size == Larger(n, e.len)
        moves == size >= e.len + Spare
    IN [e EXCEPT !.known = TRUE,
                 !.newLen = n,
                 !.buf = [j \in 1 .. Larger(Len(@), size) |->
                             IF j <= Len(@) THEN @[j] ELSE Junk],
                 !.freed = InPlace(p) /\ moves]

\* e after n octets more were sent, and the sockets after those, s, were.
SentMore(e, n) == [e EXCEPT !.sent = @ + n]
Wires(p, e, n, s) == IF n = 0 THEN chan ELSE [chan EXCEPT ![p][e.to] = @ \o s]

\* What party p finds to receive for e, with c in the sockets.
There(p, e, c) == IF e.from = None THEN <<>> ELSE c[e.from][p]
Ask(p, e, c) == Smaller(ToReceive(p, e), Len(There(p, e, c)))

\* What is left of the round of Exchanger j of party p, now e: it receives octets
\* that are there, or the length, or nothing.
ReceiveOctets(p, j, e, c) ==
    /\ e.received < e.newLen
    /\ \E k \in 1 .. Ask(p, e, c) :
          /\ ex' = [ex EXCEPT ![p][j] = Received(e, SubSeq(There(p, e, c), 1, k))]
          /\ chan' = [c EXCEPT ![e.from][p] = SubSeq(@, k + 1, Len(@))]

ReceiveLength(p, j, e, c) ==
    /\ ~e.known
    /\ There(p, e, c) # <<>>
    /\ ex' = [ex EXCEPT ![p][j] = Resized(p, e, Decoded(Head(There(p, e, c))))]
    /\ chan' = [c EXCEPT ![e.from][p] = Tail(@)]

ReceiveNothing(p, j, e, c) ==
    /\ IF e.received < e.newLen THEN Ask(p, e, c) = 0 ELSE e.known \/ There(p, e, c) = <<>>
    /\ ex' = [ex EXCEPT ![p][j] = e]
    /\ chan' = c

\* A round of Exchanger j of party p: it sends what fits, if anything does,
\* then it receives what is there, or the length.
Round(p, j) ==
    LET e == ex[p][j]
        room == IF e.to = None THEN 0 ELSE Room - Len(chan[p][e.to])
        most == Smaller(e.len - e.sent, room)
        least == IF most > 0 THEN 1 ELSE 0
    IN \E n \in least .. most : \E s \in Outgoing(p, e, n) :
          \/ ReceiveOctets(p, j, SentMore(e, n), Wires(p, e, n, s))
          \/ ReceiveLength(p, j, SentMore(e, n), Wires(p, e, n, s))
          \/ ReceiveNothing(p, j, SentMore(e, n), Wires(p, e, n, s))

\* Rounds begin when all Exchangers are constructed.
Exchanging(p, j) ==
    /\ Active(p)
    /\ Len(ex[p]) = Len(Current(p))
    /\ j \in DOMAIN ex[p]
    /\ Round(p, j)
    /\ UNCHANGED <<script, op, group>>

\* Every round says that it is done: on to the next part.
Finish(p) ==
    /\ Active(p)
    /\ Len(ex[p]) = Len(Current(p))
    /\ \A j \in DOMAIN ex[p] : ~Busy(ex[p][j])
    /\ ex' = [ex EXCEPT ![p] = <<>>]
    /\ group' = [group EXCEPT ![p] = @ + 1]
    /\ UNCHANGED <<script, op, chan>>

NextOperation(p) ==
    /\ op[p] <= Len(script)
    /\ ~Active(p)
    /\ op' = [op EXCEPT ![p] = @ + 1]
    /\ group' = [group EXCEPT ![p] = 1]
    /\ UNCHANGED <<script, ex, chan>>

Done == \A p \in Party : op[p] > Len(script)

PartyStep(p) ==
    \/ Construct(p)
    \/ \E j \in 1 .. N - 1 : Exchanging(p, j)
    \/ Finish(p)
    \/ NextOperation(p)

Next ==
    \/ \E p \in Party : PartyStep(p)
    \/ Done /\ UNCHANGED vars

Spec == Init /\ [][Next]_vars

\* Every party's thread runs, and a round that can move something is made.
FairSpec == Spec /\ \A p \in Party : WF_vars(PartyStep(p))

-----------------------------------------------------------------------------
(* Properties.                                                             *)

Item == [from : Party \cup {None}, op : Nat, i : Nat, n : Nat]

\* Every variable has its type; a socket never holds more than its room.
TypeOK ==
    /\ script \in Seq(Operation)
    /\ op \in [Party -> 1 .. Len(script) + 1]
    /\ group \in [Party -> 1 .. N]
    /\ \A p \in Party, q \in Party :
          chan[p][q] \in Seq(Item) /\ Len(chan[p][q]) <= Room
    /\ \A p \in Party : \A j \in DOMAIN ex[p] :
          /\ ex[p][j].sent \in 0 .. ex[p][j].len
          /\ ex[p][j].buf \in Seq(Item)

\* An exchange that is over has brought exactly the message the other party
\* sent in this operation, whatever was sent from the same stream meanwhile
\* (Exchanger.h:81-90) and however the octets came (Player.cpp:400-466).
Delivered ==
    \A p \in Party : \A j \in DOMAIN ex[p] :
        LET e == ex[p][j]
        IN ~Busy(e) /\ e.from # None =>
              SubSeq(e.buf, 1, e.newLen) = Message(e.from, op[p])

\* Nobody reads into a message of another operation: what an Exchanger finds
\* first in its socket is the next item of the message it is receiving, while
\* it has something of it to receive (sockets.h:131-149, Exchanger.h:78-128).
Framed ==
    \A p \in Party : \A j \in DOMAIN ex[p] :
        LET e == ex[p][j]
        IN Busy(e) /\ e.from # None /\ chan[e.from][p] # <<>> =>
             /\ ~e.known => Head(chan[e.from][p]) = Header(e.from, op[p])
             /\ e.known /\ e.received < e.newLen =>
                   Head(chan[e.from][p]) = Octet(e.from, op[p], e.received + 1)

\* Nothing is left in a socket when all is done.
Drained == Done => \A p \in Party, q \in Party : chan[p][q] = <<>>

\* Everyone gets the other's message in every operation, and nothing of it
\* runs into the next operation or is left over (Exchanger, PlainPlayer). Of
\* Usable operations only: where one stream serves both directions, the code
\* goes wrong if resize moves octets that are still to be sent
\* (Exchanger.h:126), or if more is read than the message holds (Exchanger.h:88).
Transferred == TypeOK /\ Delivered /\ Framed /\ Drained

\* All parties get through, although nobody's message fits into a socket
\* ("to avoid problems with OS max buffer size", Player.cpp:442).
Completion == <>Done

=============================================================================
