------------------------------ MODULE TreeSum ------------------------------
(***************************************************************************)
(* Opening by indirect communication (TreeSum): the shares of all parties   *)
(* are added up a tree of fan-in opening_sum to the base player, and the    *)
(* sum goes down a tree of fan-out max_broadcast. Parties go through one    *)
(* opening after the other without any other synchronisation.               *)
(*                                                                          *)
(* A value is known by how often each party's share is in it.               *)
(***************************************************************************)
EXTENDS Integers, Sequences

CONSTANTS MaxN,         \* bound: number of parties
          MaxRuns,      \* bound: openings
          OpeningSum,   \* values of opening_sum tried
          MaxBroadcast, \* values of max_broadcast tried
          Large         \* whether a send waits for the other party to receive

ASSUME BoundAssumption == MaxN \in Nat \ {0} /\ MaxRuns \in Nat
\* Machine.hpp:48-51: smaller values stand for the number of parties.
ASSUME FanAssumption ==
    /\ OpeningSum \subseteq Nat \ {0, 1} /\ MaxBroadcast \subseteq Nat \ {0, 1}
    /\ Large \subseteq BOOLEAN

VARIABLES par,     \* number of parties, opening_sum, max_broadcast, base_player,
                   \* and whether the values are many enough for sends to wait
          runs,    \* [p] openings begun
          phase,   \* [p] "up", "add", "down", "spread" or "idle"
          level,   \* [p] sum_players
          last,    \* [p] last_sum_players
          next,    \* [p] loop counter of the senders or the receivers
          value,   \* [p] the opening it is of, and the count of every share
          vals,    \* [p] the values added for the MAC check
          chan     \* [p][q] messages from p to q

vars == <<par, runs, phase, level, last, next, value, vals, chan>>

Party == 0 .. par.n - 1

\* my_relative_num, and back.
Relative(p) == (p - par.base) % par.n
Player(r) == (par.base + r) % par.n

\* What p begins an opening with.
Share(p, o) == [run |-> o, count |-> [q \in Party |-> IF q = p THEN 1 ELSE 0]]
Sum(o) == [run |-> o, count |-> [q \in Party |-> 1]]
Plus(v, w) == [v EXCEPT !.count = [q \in Party |-> @[q] + w.count[q]]]

Init ==
    /\ \E n \in 1 .. MaxN, s \in OpeningSum, b \in MaxBroadcast :
          par \in [n : {n}, sum : {s}, bcast : {b}, base : 0 .. n - 1,
                   large : Large]
    /\ runs = [p \in Party |-> 0]
    /\ phase = [p \in Party |-> "idle"]
    /\ level = [p \in Party |-> 0]
    /\ last = [p \in Party |-> 0]
    /\ next = [p \in Party |-> 0]
    /\ value = [p \in Party |-> Share(p, 0)]
    /\ vals = [p \in Party |-> <<>>]
    /\ chan = [p \in Party |-> [q \in Party |-> <<>>]]

-----------------------------------------------------------------------------

\* A party whose message has to be received first does not go on.
Free(p) == par.large => \A q \in Party : chan[p][q] = <<>>

SendTo(p, q, v) == chan' = [chan EXCEPT ![p][q] = Append(@, v)]

\* Receiving at p from q.
There(p, q) == chan[q][p] # <<>>
Received(p, q) == Head(chan[q][p])
ReceiveFrom(p, q) == chan' = [chan EXCEPT ![q][p] = Tail(@)]

\* AddToValues.
Add(p, v) == vals' = [vals EXCEPT ![p] = Append(@, v)]

Begin(p) ==
    /\ Free(p)
    /\ phase[p] = "idle"
    /\ runs[p] < MaxRuns
    /\ runs' = [runs EXCEPT ![p] = @ + 1]
    /\ value' = [value EXCEPT ![p] = Share(p, runs[p] + 1)]
    /\ level' = [level EXCEPT ![p] = par.n]
    /\ phase' = [phase EXCEPT ![p] = "up"]
    /\ UNCHANGED <<par, last, next, vals, chan>>

\* Mutant: the tree is cut by one level too many.
NextLevelDown(s) == s \div par.sum

\* How many parties still have something to add after the next level.
NextLevel(s) == (s - 2 + par.sum) \div par.sum

\* Mutant: the base player is forgotten.
ReceiverOfRelative(p, s) == Relative(p) % s

\* Whom p sends its sum to when s parties remain.
ReceiverOf(p, s) == Player(Relative(p) % s)

\* One level: send up, or add what is sent, or neither.
Up(p) ==
    /\ Free(p)
    /\ phase[p] = "up"
    /\ LET s == NextLevel(level[p])
       IN /\ level' = [level EXCEPT ![p] = s]
          /\ last' = [last EXCEPT ![p] = level[p]]
          /\ \/ /\ s > 0
                /\ Relative(p) >= s /\ Relative(p) < level[p]
                /\ SendTo(p, ReceiverOf(p, s), value[p])
                /\ UNCHANGED <<phase, next>>
             \/ /\ s > 0
                /\ Relative(p) >= level[p]
                /\ UNCHANGED <<phase, next, chan>>
             \/ /\ s > 0
                /\ Relative(p) < s
                /\ phase' = [phase EXCEPT ![p] = "add"]
                /\ next' = [next EXCEPT ![p] = Relative(p) + s]
                /\ UNCHANGED chan
             \/ /\ s = 0
                /\ phase' = [phase EXCEPT ![p] = "down"]
                /\ UNCHANGED <<next, chan>>
    /\ UNCHANGED <<par, runs, value, vals>>

\* add_openings: one sender after the other.
AddOpening(p) ==
    /\ phase[p] = "add"
    /\ \/ /\ next[p] < last[p]
          /\ There(p, Player(next[p]))
          /\ value' = [value EXCEPT ![p] = Plus(@, Received(p, Player(next[p])))]
          /\ ReceiveFrom(p, Player(next[p]))
          /\ next' = [next EXCEPT ![p] = @ + level[p]]
          /\ UNCHANGED phase
       \/ /\ next[p] >= last[p]
          /\ phase' = [phase EXCEPT ![p] = "up"]
          /\ UNCHANGED <<value, next, chan>>
    /\ UNCHANGED <<par, runs, level, last, vals>>

\* Whom the party with relative number r gets the sum from.
SenderOf(r) == Player(r \div par.bcast)

\* The first it sends the sum to; the base player's would be itself.
FirstReceiver(r) == IF r = 0 THEN 1 ELSE r * par.bcast

\* The base player has the sum; everyone else waits for it.
Down(p) ==
    /\ phase[p] = "down"
    /\ IF Relative(p) = 0
       THEN UNCHANGED <<value, chan>> /\ Add(p, value[p])
       ELSE LET q == SenderOf(Relative(p))
            IN /\ There(p, q)
               /\ value' = [value EXCEPT ![p] = Received(p, q)]
               /\ ReceiveFrom(p, q)
               /\ Add(p, Received(p, q))
    /\ phase' = [phase EXCEPT ![p] = "spread"]
    /\ next' = [next EXCEPT ![p] = FirstReceiver(Relative(p))]
    /\ UNCHANGED <<par, runs, level, last>>

\* The sum is sent on, to max_broadcast numbers as far as there are parties.
Spread(p) ==
    /\ Free(p)
    /\ phase[p] = "spread"
    /\ LET r == Relative(p)
       IN \/ /\ next[p] < (r + 1) * par.bcast /\ next[p] < par.n
             /\ SendTo(p, Player(next[p]), value[p])
             /\ next' = [next EXCEPT ![p] = @ + 1]
             /\ UNCHANGED phase
          \/ /\ next[p] >= (r + 1) * par.bcast \/ next[p] >= par.n
             /\ phase' = [phase EXCEPT ![p] = "idle"]
             /\ UNCHANGED <<next, chan>>
    /\ UNCHANGED <<par, runs, level, last, value, vals>>

Done == \A p \in Party : phase[p] = "idle" /\ runs[p] = MaxRuns

Next ==
    \/ \E p \in Party : Begin(p) \/ Up(p) \/ AddOpening(p) \/ Down(p) \/ Spread(p)
    \/ Done /\ UNCHANGED vars

Spec == Init /\ [][Next]_vars

\* Each party is a thread that goes on when it can.
FairSpec ==
    /\ Spec
    /\ \A p \in 0 .. MaxN - 1 :
          WF_vars(p \in Party /\ (Begin(p) \/ Up(p) \/ AddOpening(p) \/ Down(p) \/ Spread(p)))

-----------------------------------------------------------------------------
(* Properties.                                                             *)

Value == [run : 0 .. MaxRuns, count : [Party -> Nat]]

\* Every variable has its type.
TypeOK ==
    /\ par \in [n : 1 .. MaxN, sum : OpeningSum, bcast : MaxBroadcast, base : Nat,
               large : Large]
    /\ par.base \in Party
    /\ runs \in [Party -> 0 .. MaxRuns]
    /\ phase \in [Party -> {"up", "add", "down", "spread", "idle"}]
    /\ level \in [Party -> 0 .. par.n] /\ last \in [Party -> 0 .. par.n]
    /\ next \in [Party -> Nat]
    /\ value \in [Party -> Value]
    /\ \A p \in Party : vals[p] \in Seq(Value)
    /\ \A p, q \in Party : chan[p][q] \in Seq(Value)

\* What every party keeps for the MAC check, and with it what it has opened,
\* is for each opening once the sum with every share in it exactly once, for
\* every number of parties, fan-in, fan-out and base player
\* (MAC_Check.h:215-338).
Opened ==
    \A p \in Party :
        /\ \A o \in DOMAIN vals[p] : vals[p][o] = Sum(o)
        /\ phase[p] = "idle" => Len(vals[p]) = runs[p]

\* p waits for a message from q.
Awaits(p, q) ==
    \/ phase[p] = "add" /\ next[p] < last[p] /\ Player(next[p]) = q
    \/ phase[p] = "down" /\ Relative(p) # 0 /\ SenderOf(Relative(p)) = q

\* A party that waits for another never finds a message of a different opening
\* first, although sums go up and down the same sockets and nobody waits for
\* all others between openings (MAC_Check.h:257-327).
InStep ==
    \A p, q \in Party :
        Awaits(p, q) /\ There(p, q) => Received(p, q).run = runs[p]

\* A party that has the value of an opening knows that every party has begun
\* it: an opening is a barrier (MAC_Check.h:257-327).
Barrier == \A p, q \in Party : Len(vals[p]) <= runs[q]

\* Every party opens the sum of all shares of the same opening, and no party
\* is more than one opening ahead (TreeSum::run, add_openings, start).
OpenedInStep == TypeOK /\ Opened /\ InStep /\ Barrier

\* All openings end, even if every send waits for its receiver.
Completion == <>Done

=============================================================================
