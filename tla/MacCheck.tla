----------------------------- MODULE MacCheck -----------------------------
(***************************************************************************)
(* Opening shared values and checking their MACs, with the subroutines the  *)
(* check is made of: commitments, coin tossing and the comparison of all    *)
(* broadcasts at the end of a thread (MAC_Check.hpp, Subroutines.cpp,       *)
(* Commit.cpp, Player.cpp).                                                 *)
(*                                                                          *)
(* Every party but Faulty runs the code on the same program. The faulty one *)
(* sends to every other party what it likes, at the latest moment: its      *)
(* messages are chosen when they are received. A value is known by which    *)
(* one it is and whether it is the right one, a commitment by what it       *)
(* commits to: equal hashes have equal preimages, and a hash does not give  *)
(* its preimage away. The key of the MACs is unknown to the faulty party,   *)
(* so the deltas of wrong values never add up to zero.                      *)
(***************************************************************************)
EXTENDS Integers, Sequences, FiniteSets

CONSTANTS Party, Faulty, \* all parties, and the one that may deviate
          Scripts,       \* the programs tried
          Modes,         \* "field": MAC_Check_, "z2k": MAC_Check_Z2k
          SmallBatch,    \* fewer values are checked one by one (10)
          PopenMax,      \* POPEN_MAX
          MaxDeviations  \* bound: wrong messages of the faulty party

ASSUME FaultyAssumption == Faulty \in Party
ASSUME LimitAssumption == SmallBatch \in Nat /\ PopenMax \in Nat \ {0} /\ MaxDeviations \in Nat
ASSUME ModeAssumption == Modes \subseteq {"field", "z2k"}

\* A program: openings of n values, values added another way, checks, coin
\* tosses; CheckFor opens first (MAC_Check_Base.hpp:71). A thread ends with a
\* check and the comparison of broadcasts (Online-Thread.hpp:275-283).
Invocation == [do : {"open", "add", "check", "for", "random", "finish"}, n : Nat]
ASSUME ScriptAssumption ==
    \A s \in Scripts :
        /\ s \in Seq(Invocation) /\ Len(s) > 1
        /\ \A i \in DOMAIN s : s[i].do = "for" => i > 1 /\ s[i - 1].do = "open"
        /\ \A i \in DOMAIN s : s[i].do = "finish" <=> i = Len(s)
        /\ s[Len(s) - 1].do = "check"

Honest == Party \ {Faulty}

VARIABLES tls,      \* encrypted connections (the default) or plain ones
          mode,     \* the kind of check
          script,   \* the calls of the program
          st,       \* [p] state of the party, see Start
          sent,     \* [p] what it has broadcast, round by round
          log,      \* [p] what entered the hash of Broadcast_Receive
          opened,   \* [p] every value opened so far
          firm,     \* commitments of the faulty party that some party accepted
                    \* before any party had opened its own
          deviated  \* how often the faulty party has sent what it should not have

vars == <<tls, mode, script, st, sent, log, opened, firm, deviated>>

Start == [op |-> 0,       \* the last call begun
          step |-> "call",\* what it does next, or how it ended
          macs |-> <<>>, vals |-> <<>>, shares |-> <<>>, \* by value number
          cnt |-> 0,      \* popen_cnt
          next |-> 1,     \* number of the next value
          seed |-> <<>>,  \* what went into the last Create_Random_Seed
          pj |-> 0,       \* whether the masked high bits opened are wrong
          comms |-> <<>>, \* commitments received
          checked |-> 0]  \* how much of the log was compared

Init ==
    /\ tls \in BOOLEAN
    /\ mode \in Modes
    /\ script \in Scripts
    /\ st = [p \in Honest |-> Start]
    /\ sent = [p \in Honest |-> <<>>]
    /\ log = [p \in Honest |-> <<>>]
    /\ opened = [p \in Honest |-> <<>>]
    /\ firm = {}
    /\ deviated = 0

-----------------------------------------------------------------------------
(* Broadcasts and commitments.                                             *)

\* The round p takes part in, and whether all others have sent in it.
Round(p) == Len(sent[p])
There(p) == \A q \in Honest : Len(sent[q]) >= Round(p)

\* What p has after the round if the faulty party sent it m.
View(p, m) == [q \in Party |-> IF q = Faulty THEN m ELSE sent[q][Round(p)].body]

\* p goes on as s after it has sent out.
Go(p, s, out) ==
    /\ st' = [st EXCEPT ![p] = s]
    /\ sent' = [sent EXCEPT ![p] = @ \o out]

Deviate(n) == deviated' = deviated + n /\ deviated' <= MaxDeviations

Message(kind, body) == <<[kind |-> kind, body |-> body]>>

\* Commit: the number of the party and randomness are hashed in.
Commit(p, data, round) == [by |-> p, data |-> data, round |-> round]

\* Mutant: anybody's opening is as good.
OpenAnybody(comm, open, q) == open = comm

Open(comm, open, q) == open = comm /\ open.by = q

\* What the faulty party has sent others in the broadcast p receives next.
ToOthers(p) ==
    {log[q][Len(log[p]) + 1][Faulty] : q \in {r \in Honest : Len(log[r]) > Len(log[p])}}

\* Broadcast_Receive.
HashIn(p, m) == log' = [log EXCEPT ![p] = Append(@, View(p, m))]

\* The random bytes of one party.
Coin(p, x) == [of |-> p, coin |-> x]

\* Commitments in a coin toss and in a check, for the round the next
\* message is sent in.
SeedComm(p, s, after) ==
    [s |-> [s EXCEPT !.step = "seedcomm"],
     out |-> Message("comm", Commit(p, Coin(p, after), after))]

\* Only MAC_Check_Z2k keeps the share for its high bits.
ShareOf(s, i) == IF mode = "z2k" THEN s.shares[i] ELSE s.macs[i]

\* Mutant: one value too few.
CheckDataShort(s) ==
    [seed |-> s.seed, pj |-> s.pj,
     pairs |-> [i \in 1 .. s.cnt - 1 |-> <<s.macs[i], s.vals[i], ShareOf(s, i)>>]]

\* Everything the delta, tau or z of a party depends on.
CheckData(s) ==
    [seed |-> s.seed, pj |-> s.pj,
     pairs |-> [i \in 1 .. s.cnt |-> <<s.macs[i], s.vals[i], ShareOf(s, i)>>]]

CheckComm(p, s, after) ==
    [s |-> [s EXCEPT !.step = "comm"],
     out |-> Message("comm", Commit(p, CheckData(s), after))]

-----------------------------------------------------------------------------
(* The check.                                                              *)

WaitingForCheck(s) == IF Len(s.macs) > Len(s.vals) THEN Len(s.macs) ELSE Len(s.vals)

\* Check, up to its first broadcast; `after' is the round that would be.
BeginCheck(p, s, after) ==
    IF WaitingForCheck(s) = 0 THEN [s |-> [s EXCEPT !.step = "call"], out |-> <<>>]
    ELSE IF mode = "z2k" \/ s.cnt >= SmallBatch THEN SeedComm(p, s, after)
    ELSE CheckComm(p, [s EXCEPT !.seed = <<>>, !.pj = 0], after)

\* Mutant: the limit is passed.
CheckIfNeededLate(p, s, after) ==
    IF WaitingForCheck(s) > PopenMax THEN BeginCheck(p, s, after)
    ELSE [s |-> [s EXCEPT !.step = "call"], out |-> <<>>]

CheckIfNeeded(p, s, after) ==
    IF WaitingForCheck(s) >= PopenMax THEN BeginCheck(p, s, after)
    ELSE [s |-> [s EXCEPT !.step = "call"], out |-> <<>>]

\* What the faulty party says its own delta is.
Truth(b) == [truth |-> b]

\* The deltas of all parties add up to zero: everybody has the right values
\* for the MACs it has, in the same order and combined in the same way, and
\* the faulty party has told the truth too.
SumIsZero(p, view) ==
    LET data == view[p].data
    IN /\ \A q \in Honest : view[q].data = data
       /\ data.pj = 0
       /\ \A i \in DOMAIN data.pairs :
             /\ data.pairs[i][2] = [id |-> data.pairs[i][1], err |-> 0]
             /\ data.pairs[i][3] = data.pairs[i][1]
       /\ view[Faulty].data = Truth(TRUE)

\* What has been checked is dropped.
Erase(s) ==
    [s EXCEPT !.macs = SubSeq(@, s.cnt + 1, Len(@)),
              !.vals = SubSeq(@, s.cnt + 1, Len(@)),
              !.shares = SubSeq(@, s.cnt + 1, Len(@)),
              !.cnt = 0]

\* MAC_Check_Z2k drops the values before it throws.
Failed(s) == [(IF mode = "z2k" THEN Erase(s) ELSE s) EXCEPT !.step = "mac_fail"]

-----------------------------------------------------------------------------
(* Calls. What a party does between two broadcasts is one step.            *)

Doing(p, step) == st[p].step = step
Here(p) == script[st[p].op]
Coming(p) == script[st[p].op + 1]
Begun(p) == [st[p] EXCEPT !.op = @ + 1]

\* init_open and prepare_open for n values.
PrepareOpen(s, n) ==
    LET ids == [i \in 1 .. n |-> s.next + i - 1]
    IN [s EXCEPT !.macs = @ \o ids, !.next = @ + n, !.step = "shares",
                 !.shares = IF mode = "z2k" THEN @ \o ids ELSE @]

\* POpen, up to the broadcast of the shares.
BeginOpen(p) ==
    /\ Doing(p, "call") /\ st[p].op < Len(script) /\ Coming(p).do = "open"
    /\ Go(p, PrepareOpen(Begun(p), Coming(p).n), Message("share", st[p].next))
    /\ UNCHANGED <<tls, mode, script, log, opened, firm, deviated>>

\* exchange, from the arrival of the shares: the values are kept for the
\* check with their order, and the check may follow at once.
Exchange(p) ==
    /\ Doing(p, "shares") /\ There(p)
    /\ \E err \in [1 .. Here(p).n -> {0, 1}] :
          LET n == Here(p).n
              new == [i \in 1 .. n |-> [id |-> st[p].next - n + i - 1, err |-> err[i]]]
              s == [st[p] EXCEPT !.vals = @ \o new, !.cnt = @ + n]
              r == CheckIfNeeded(p, s, Round(p) + 1)
          IN /\ opened' = [opened EXCEPT ![p] = @ \o new]
             /\ Deviate(Cardinality({i \in 1 .. n : err[i] = 1}))
             /\ Go(p, r.s, r.out)
    /\ UNCHANGED <<tls, mode, script, log, firm>>

\* AddToCheck with a value that came another way.
AddToCheck(p) ==
    /\ Doing(p, "call") /\ st[p].op < Len(script) /\ Coming(p).do = "add"
    /\ \E e \in {0, 1} :
          LET b == Begun(p)
              v == [id |-> b.next, err |-> e]
              s == [b EXCEPT !.macs = Append(@, b.next), !.vals = Append(@, v),
                             !.shares = IF mode = "z2k" THEN Append(@, b.next) ELSE @,
                             !.cnt = @ + 1, !.next = @ + 1]
              r == CheckIfNeeded(p, s, Round(p) + 1)
          IN /\ opened' = [opened EXCEPT ![p] = Append(@, v)]
             /\ Deviate(e)
             /\ Go(p, r.s, r.out)
    /\ UNCHANGED <<tls, mode, script, log, firm>>

\* Check.
Check(p) ==
    /\ Doing(p, "call") /\ st[p].op < Len(script) /\ Coming(p).do = "check"
    /\ LET r == BeginCheck(p, Begun(p), Round(p) + 1) IN Go(p, r.s, r.out)
    /\ UNCHANGED <<tls, mode, script, log, opened, firm, deviated>>

\* CheckFor, once its POpen is done: the values opened are compared with the
\* one expected.
CheckFor(p) ==
    /\ Doing(p, "call") /\ st[p].op < Len(script) /\ Coming(p).do = "for"
    /\ LET last == SubSeq(opened[p], Len(opened[p]) - Here(p).n + 1, Len(opened[p]))
           r == IF \E i \in DOMAIN last : last[i].err # 0
                THEN [s |-> [Begun(p) EXCEPT !.step = "Offline_Check_Error"], out |-> <<>>]
                ELSE BeginCheck(p, Begun(p), Round(p) + 1)
       IN Go(p, r.s, r.out)
    /\ UNCHANGED <<tls, mode, script, log, opened, firm, deviated>>

\* Create_Random and Create_Random_Seed on their own.
CreateRandom(p) ==
    /\ Doing(p, "call") /\ st[p].op < Len(script) /\ Coming(p).do = "random"
    /\ LET r == SeedComm(p, Begun(p), Round(p) + 1) IN Go(p, r.s, r.out)
    /\ UNCHANGED <<tls, mode, script, log, opened, firm, deviated>>

FaultyData(inCheck) ==
    IF inCheck THEN {Truth(TRUE), Truth(FALSE)} ELSE {Coin(Faulty, x) : x \in {0, 1}}

\* What the faulty party can commit to: something of its own, or what it
\* has seen another party commit to.
FaultyComms(p) ==
    {Commit(Faulty, d, Round(p)) : d \in FaultyData(Doing(p, "comm"))}
    \cup {sent[q][Round(p)].body : q \in Honest}

\* No party has opened its commitment of p's round yet.
NothingOpen(p) == \A q \in Honest : Len(sent[q]) <= Round(p)

\* All commitments are there: p opens its own.
ReceiveComms(p) ==
    /\ st[p].step \in {"seedcomm", "comm"} /\ There(p)
    /\ \E m \in FaultyComms(p) :
          /\ HashIn(p, m)
          /\ Deviate(IF \/ m \in ToOthers(p)
                        \/ /\ ToOthers(p) = {} /\ m.by = Faulty
                           /\ Doing(p, "comm") => m.data = Truth(TRUE)
                     THEN 0 ELSE 1)
          /\ firm' = IF NothingOpen(p) THEN firm \cup {m} ELSE firm
          /\ Go(p, [st[p] EXCEPT !.comms = View(p, m),
                                 !.step = IF @ = "comm" THEN "open" ELSE "seedopen"],
                Message("open", sent[p][Round(p)].body))
    /\ UNCHANGED <<tls, mode, script, opened>>

\* An opening of its own, or one seen in this round; any other does not hash
\* to the commitment and is as bad as a wrong one.
FaultyOpens(p) ==
    {Commit(Faulty, d, Round(p) - 1) : d \in FaultyData(Doing(p, "open"))}
    \cup {sent[q][Round(p)].body : q \in Honest}

AllOpen(p, view) ==
    \A q \in Party \ {p} : Open(st[p].comms[q], view[q], q)

\* The seed is known: to a Create_Random that is all, a check goes on.
SeedDone(p, s, view) ==
    LET t == [s EXCEPT !.seed = [q \in Party |-> view[q].data], !.pj = 0]
    IN IF Here(p).do = "random" THEN [s |-> [t EXCEPT !.step = "call"], out |-> <<>>]
       ELSE IF mode = "z2k" THEN [s |-> [t EXCEPT !.step = "pj"], out |-> Message("pj", "right")]
       ELSE CheckComm(p, t, Round(p) + 1)

\* All openings are there: the end of a coin toss, or of a check.
ReceiveOpens(p) ==
    /\ st[p].step \in {"seedopen", "open"} /\ There(p)
    /\ \E m \in FaultyOpens(p) :
          LET view == View(p, m)
              s == st[p]
              r == IF ~AllOpen(p, view)
                   THEN [s |-> [s EXCEPT !.step = "invalid_commitment"], out |-> <<>>]
                   ELSE IF s.step = "seedopen" THEN SeedDone(p, s, view)
                   ELSE IF SumIsZero(p, view)
                   THEN [s |-> [Erase(s) EXCEPT !.step = "call"], out |-> <<>>]
                   ELSE [s |-> Failed(s), out |-> <<>>]
          IN /\ HashIn(p, m)
             /\ Deviate(IF m # s.comms[Faulty] THEN 1 ELSE 0)
             /\ Go(p, r.s, r.out)
    /\ UNCHANGED <<tls, mode, script, opened, firm>>

\* MAC_Check_Z2k: the masked high bits, by an unchecked broadcast.
ReceiveHighBits(p) ==
    /\ Doing(p, "pj") /\ There(p)
    /\ \E e \in {0, 1} :
          LET r == CheckComm(p, [st[p] EXCEPT !.pj = e], Round(p) + 1)
          IN Deviate(e) /\ Go(p, r.s, r.out)
    /\ UNCHANGED <<tls, mode, script, log, opened, firm>>

\* ~Tree_MAC_Check after everything.
End(s) == [s EXCEPT !.step = IF WaitingForCheck(s) > 0 THEN "terminated" ELSE "done"]

\* Check_Broadcast at the end of the thread.
CheckBroadcast(p) ==
    /\ Doing(p, "call") /\ st[p].op < Len(script) /\ Coming(p).do = "finish"
    /\ IF Len(log[p]) = st[p].checked
       THEN Go(p, End(Begun(p)), <<>>)
       ELSE Go(p, [Begun(p) EXCEPT !.step = "hash"],
               Message("hash", SubSeq(log[p], st[p].checked + 1, Len(log[p]))))
    /\ UNCHANGED <<tls, mode, script, log, opened, firm, deviated>>

ReceiveHashes(p) ==
    /\ Doing(p, "hash") /\ There(p)
    /\ \E same \in BOOLEAN :
          /\ Deviate(IF same THEN 0 ELSE 1)
          /\ IF same /\ \A q \in Honest : sent[q][Round(p)] = sent[p][Round(p)]
             THEN Go(p, [End(st[p]) EXCEPT !.checked = Len(log[p])], <<>>)
             ELSE Go(p, [st[p] EXCEPT !.step = "broadcast_invalid"], <<>>)
    /\ UNCHANGED <<tls, mode, script, log, opened, firm>>

Exceptions == {"mac_fail", "invalid_commitment", "broadcast_invalid",
               "Offline_Check_Error", "closed_connection", "terminated"}

Stopped(p) == st[p].step \in Exceptions \cup {"done"}

\* p waits for a party that will not send any more.
Abandoned(p) ==
    /\ ~Stopped(p) /\ ~Doing(p, "call")
    /\ \E q \in Honest : Stopped(q) /\ Len(sent[q]) < Round(p)

\* Mutant: encrypted connections are as forgiving as plain ones.
ClosedConnectionNever(p) == FALSE /\ UNCHANGED vars

\* A party that has thrown closes its connections. Reading from an encrypted
\* one then throws; on a plain one the rounds of Broadcast_Receive take it
\* for nothing received yet, and go on for ever.
ClosedConnection(p) ==
    /\ tls /\ Abandoned(p)
    /\ Go(p, [st[p] EXCEPT !.step = "closed_connection"], <<>>)
    /\ UNCHANGED <<tls, mode, script, log, opened, firm, deviated>>

AllStopped == \A p \in Honest : Stopped(p)
Hanging == ~tls /\ \A p \in Honest : Stopped(p) \/ Abandoned(p)

Step(p) ==
    \/ BeginOpen(p) \/ Exchange(p) \/ AddToCheck(p) \/ Check(p) \/ CheckFor(p)
    \/ CreateRandom(p) \/ ReceiveComms(p) \/ ReceiveOpens(p) \/ ReceiveHighBits(p)
    \/ CheckBroadcast(p) \/ ReceiveHashes(p) \/ ClosedConnection(p)

Next == (\E p \in Honest : Step(p)) \/ ((AllStopped \/ Hanging) /\ UNCHANGED vars)

Spec == Init /\ [][Next]_vars

\* Every party is a thread; the faulty one answers or closes its connection.
FairSpec == Spec /\ \A p \in Honest : WF_vars(Step(p))

-----------------------------------------------------------------------------
(* Properties.                                                             *)

\* Every variable has its type.
TypeOK ==
    /\ tls \in BOOLEAN /\ mode \in Modes /\ script \in Scripts /\ deviated \in 0 .. MaxDeviations
    /\ \A p \in Honest :
          /\ st[p].op \in 0 .. Len(script) /\ st[p].cnt \in Nat
          /\ st[p].checked \in 0 .. Len(log[p])
          /\ st[p].step \in {"call", "shares", "seedcomm", "seedopen", "pj", "comm",
                             "open", "hash"} \cup Exceptions \cup {"done"}
          /\ Len(st[p].macs) >= Len(st[p].vals) /\ st[p].cnt = Len(st[p].vals)
          /\ Len(st[p].shares) = IF mode = "z2k" THEN Len(st[p].macs) ELSE 0

\* A party for which nothing waits to be checked between two calls has
\* opened right values only, whatever the faulty party has sent since the
\* thread began: every opened value takes part in exactly one check, paired
\* with its own MAC (MAC_Check.hpp:55-207).
Detected ==
    \A p \in Honest :
        (Doing(p, "call") \/ Doing(p, "done")) /\ WaitingForCheck(st[p]) = 0 =>
            \A i \in DOMAIN opened[p] : opened[p][i].err = 0

\* While the faulty party does what it should, no party throws: MACs, values
\* and shares stay paired through every mixture of openings, AddToCheck,
\* checks on request and checks forced by POPEN_MAX, and no party ends with
\* values unchecked (MAC_Check.hpp:52-60).
NoFalseAlarm ==
    deviated = 0 => \A p \in Honest : st[p].step \notin Exceptions

\* In every round all parties send the same kind of message: they reach
\* POPEN_MAX, and so the check, in the same call (MAC_Check.hpp:104-109).
InStep ==
    \A p, q \in Honest : \A k \in DOMAIN sent[p] \cap DOMAIN sent[q] :
        sent[p][k].kind = sent[q][k].kind

\* At the end of a call fewer than POPEN_MAX values wait.
Limited ==
    \A p \in Honest : Doing(p, "call") => WaitingForCheck(st[p]) < PopenMax

\* Parties that end in order have got the same in every checked broadcast,
\* so they have used the same coefficients (Player.cpp:475-501).
SameView ==
    \A p, q \in Honest : Doing(p, "done") /\ Doing(q, "done") => log[p] = log[q]

\* If a party has compared its broadcasts with the others, then every
\* commitment of the faulty party it took was made before anybody opened one,
\* and is not a copy: coin tosses and deltas of the faulty party do not depend
\* on the others' (Subroutines.cpp:128-175, Commit.cpp:14-27).
Independent ==
    \A p \in Honest :
        Doing(p, "done") =>
            \A k \in DOMAIN log[p] : log[p][k][Faulty] \in firm /\ log[p][k][Faulty].by = Faulty

\* A wrong opened value, MAC or broadcast stops a party, and honest parties
\* never stop (MAC_Check_::Check, Commit_And_Open_, Check_Broadcast).
RightVerdict == TypeOK /\ Detected /\ NoFalseAlarm

\* Parties check the same values at the same moment, and no more than the
\* limit waits for a check (MAC_Check_::exchange, CheckIfNeeded).
ChecksInStep == InStep /\ Limited

\* All parties see the same commitments and coins, which no party chose with
\* the others' in view (Commit, Open, Create_Random_Seed).
FairCoins == SameView /\ Independent

\* Every party ends, in order or with an exception; over plain connections
\* only if no party throws (sockets.h:118-131, Player.cpp:443-467).
Completion == <>(AllStopped \/ Hanging) /\ (tls => <>AllStopped)

(***************************************************************************)
(* Scripts for TLC.                                                        *)
(***************************************************************************)
OpenCall(n) == [do |-> "open", n |-> n]
Call(f) == [do |-> f, n |-> 0]

\* Two calls in every combination, and more than POPEN_MAX values, then what a
\* thread ends with: the last check and the comparison of broadcasts.
MCScripts ==
    LET Calls == {<<OpenCall(1)>>, <<OpenCall(2)>>, <<Call("add")>>, <<Call("check")>>,
                  <<Call("random")>>, <<OpenCall(1), Call("for")>>}
        Long == {<<OpenCall(1), OpenCall(2), OpenCall(1)>>,
                 <<OpenCall(2), Call("add"), Call("random")>>}
    IN {c \o <<Call("check"), Call("finish")>> : c \in {a \o b : a, b \in Calls} \cup Long}

=============================================================================
