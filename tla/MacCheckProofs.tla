-------------------------- MODULE MacCheckProofs ---------------------------
(***************************************************************************)
(* What honest parties know after opening and checking, for any number of   *)
(* parties, any script, both modes and any behaviour of the faulty party.   *)
(*                                                                          *)
(* The proofs rest on one fact about the code: what a party does next       *)
(* depends on the script, the mode and the number of values that wait, not  *)
(* on what it receives, unless it throws. So there is one course of         *)
(* positions that every party goes through (Course), and two parties that   *)
(* wait in the same round are at the same position of it.                   *)
(***************************************************************************)
EXTENDS MacCheck, SequenceTheorems, FiniteSetTheorems, TLAPS

(* Sequences, whatever their elements.                                     *)

ASeq(s) == \E S : s \in Seq(S)

\* A sequence as a function.
LEMMA SeqFacts ==
    ASSUME NEW s, ASeq(s)
    PROVE  /\ DOMAIN s = 1 .. Len(s) /\ Len(s) \in Nat /\ SubSeq(s, 1, Len(s)) = s
           /\ Len(s) = 0 => s = <<>>
  BY DEF ASeq

\* The short ones.
LEMMA ShortSeqs == ASeq(<<>>) /\ \A v : ASeq(<<v>>) /\ Len(<<v>>) = 1 /\ <<v>>[1] = v
<1>1. <<>> \in Seq({})
  OBVIOUS
<1>2. ASSUME NEW v PROVE <<v>> \in Seq({v})
  OBVIOUS
<1>3. QED BY <1>1, <1>2 DEF ASeq

\* A message is added at the end.
LEMMA AppendFacts ==
    ASSUME NEW s, ASeq(s), NEW v
    PROVE  /\ ASeq(Append(s, v)) /\ Len(Append(s, v)) = Len(s) + 1 /\ Len(s) \in Nat
           /\ \A i \in 1 .. Len(s) : Append(s, v)[i] = s[i]
           /\ Append(s, v)[Len(s) + 1] = v
           /\ s \o <<v>> = Append(s, v) /\ s \o <<>> = s
<1>1. PICK S : s \in Seq(S)
  BY DEF ASeq
<1>2. s \in Seq(S \cup {v})
  BY <1>1, SeqDef
<1>3. Append(s, v) \in Seq(S \cup {v})
  BY <1>2
<1>4. s \o <<v>> = Append(s, v) /\ s \o <<>> = s
  BY <1>2
<1>5. QED BY <1>2, <1>3, <1>4 DEF ASeq

Appends(s, v, u) ==
    /\ ASeq(u) /\ Len(u) = Len(s) + 1 /\ Len(s) \in Nat
    /\ \A i \in 1 .. Len(s) : u[i] = s[i]
    /\ u[Len(s) + 1] = v

\* With the result named.
LEMMA Appended ==
    ASSUME NEW s, ASeq(s), NEW v, NEW u, u = Append(s, v)
    PROVE  Appends(s, v, u)
  BY AppendFacts DEF Appends

\* So are several.
LEMMA ConcatFacts ==
    ASSUME NEW s, NEW t, ASeq(s), ASeq(t)
    PROVE  /\ ASeq(s \o t) /\ Len(s \o t) = Len(s) + Len(t)
           /\ Len(s) \in Nat /\ Len(t) \in Nat
           /\ \A i \in 1 .. Len(s) : (s \o t)[i] = s[i]
           /\ \A i \in 1 .. Len(t) : (s \o t)[Len(s) + i] = t[i]
<1>1. PICK S, T : s \in Seq(S) /\ t \in Seq(T)
  BY DEF ASeq
<1>2. s \in Seq(S \cup T) /\ t \in Seq(S \cup T)
  BY <1>1, SeqDef
<1>3. s \o t \in Seq(S \cup T)
  BY <1>2
<1>4. QED BY <1>2, <1>3 DEF ASeq

Joins(s, t, u) ==
    /\ ASeq(u) /\ Len(u) = Len(s) + Len(t) /\ Len(s) \in Nat /\ Len(t) \in Nat
    /\ \A i \in 1 .. Len(s) : u[i] = s[i]
    /\ \A i \in 1 .. Len(t) : u[Len(s) + i] = t[i]

\* With the result named.
LEMMA Joined ==
    ASSUME NEW s, NEW t, NEW u, ASeq(s), ASeq(t), u = s \o t
    PROVE  Joins(s, t, u)
  BY ConcatFacts DEF Joins

\* What is left without the first m.
LEMMA SuffixFacts ==
    ASSUME NEW s, ASeq(s), NEW m \in Nat, m <= Len(s)
    PROVE  /\ ASeq(SubSeq(s, m + 1, Len(s))) /\ Len(SubSeq(s, m + 1, Len(s))) = Len(s) - m
           /\ \A i \in 1 .. Len(s) - m : SubSeq(s, m + 1, Len(s))[i] = s[m + i]
<1>1. PICK S : s \in Seq(S)
  BY DEF ASeq
<1>2. /\ SubSeq(s, m + 1, Len(s)) \in Seq(S)
      /\ Len(SubSeq(s, m + 1, Len(s))) = Len(s) - m
  BY <1>1
<1>3. ASSUME NEW i \in 1 .. Len(s) - m PROVE SubSeq(s, m + 1, Len(s))[i] = s[m + i]
  <2>1. Len(s) \in Nat
    BY <1>1
  <2>2. SubSeq(s, m + 1, Len(s))[i] = s[m + 1 + i - 1]
    BY <1>1, <2>1, SubSeqProperties
  <2>3. m + 1 + i - 1 = m + i
    BY <2>1
  <2>4. QED BY <2>2, <2>3
<1>4. QED BY <1>1, <1>2, <1>3 DEF ASeq

\* A function on 1 .. n is a sequence.
LEMMA FunctionSeq ==
    ASSUME NEW n \in Nat, NEW f, f = [i \in 1 .. n |-> f[i]]
    PROVE  ASeq(f) /\ Len(f) = n
<1>1. f \in [1 .. n -> {f[i] : i \in 1 .. n}]
  OBVIOUS
<1>2. f \in Seq({f[i] : i \in 1 .. n})
  BY <1>1, SeqDef
<1>3. Len(f) = n
  BY <1>2, DOMAIN f = 1 .. n
<1>4. QED BY <1>2, <1>3 DEF ASeq

\* Sequences with the same elements are the same.
LEMMA SameSeq ==
    ASSUME NEW s, NEW t, ASeq(s), ASeq(t), Len(s) = Len(t), \A i \in 1 .. Len(s) : s[i] = t[i]
    PROVE  s = t
  BY DEF ASeq

-----------------------------------------------------------------------------
(* The course.                                                             *)

Steps == {"call", "shares", "seedcomm", "seedopen", "pj", "comm", "open", "hash", "done"}
Waiting(x) == x.step \notin {"call", "done"}
Position(sc) ==
    {x \in [op : 0 .. Len(sc), step : Steps, cnt : Nat, next : Nat, sent : Nat, log : Nat] :
        x.step # "call" => x.op > 0}

At(o, s, c, n, k, l) ==
    [op |-> o, step |-> s, cnt |-> c, next |-> n, sent |-> k, log |-> l]
Beginning == At(0, "call", 0, 1, 0, 0)

Stays(x, step) == At(x.op, step, x.cnt, x.next, x.sent, x.log)
Sends(x, step) == At(x.op, step, x.cnt, x.next, x.sent + 1, x.log)

Seeded(m, n) == m = "z2k" \/ n >= SmallBatch
ToCheck(m, x) ==
    IF x.cnt = 0 THEN Stays(x, "call")
    ELSE IF Seeded(m, x.cnt) THEN Sends(x, "seedcomm") ELSE Sends(x, "comm")
IfNeeded(m, x) == IF x.cnt >= PopenMax THEN ToCheck(m, x) ELSE Stays(x, "call")

\* The next call, one call or one broadcast.
NextCall(m, sc, x) ==
    LET k == sc[x.op + 1]
        y == At(x.op + 1, "call", x.cnt, x.next, x.sent, x.log)
    IN IF k.do = "open" THEN At(y.op, "shares", x.cnt, x.next + k.n, x.sent + 1, x.log)
       ELSE IF k.do = "add" THEN IfNeeded(m, At(y.op, "call", x.cnt + 1, x.next + 1, x.sent, x.log))
       ELSE IF k.do = "random" THEN Sends(y, "seedcomm")
       ELSE IF k.do = "finish" THEN IF x.log = 0 THEN Stays(y, "done") ELSE Sends(y, "hash")
       ELSE ToCheck(m, y)

Logged(x) == At(x.op, x.step, x.cnt, x.next, x.sent, x.log + 1)
Advance(m, sc, x) ==
    IF x.step = "call" THEN IF x.op < Len(sc) THEN NextCall(m, sc, x) ELSE x
    ELSE IF x.step = "shares" THEN IfNeeded(m, At(x.op, "shares", x.cnt + sc[x.op].n, x.next, x.sent, x.log))
    ELSE IF x.step = "seedcomm" THEN Sends(Logged(x), "seedopen")
    ELSE IF x.step = "seedopen"
    THEN IF sc[x.op].do = "random" THEN Stays(Logged(x), "call")
         ELSE IF m = "z2k" THEN Sends(Logged(x), "pj") ELSE Sends(Logged(x), "comm")
    ELSE IF x.step = "pj" THEN Sends(x, "comm")
    ELSE IF x.step = "comm" THEN Sends(Logged(x), "open")
    ELSE IF x.step = "open" THEN At(x.op, "call", 0, x.next, x.sent, x.log + 1)
    ELSE IF x.step = "hash" THEN Stays(x, "done")
    ELSE x

Closed(m, sc, S) == \A x \in S : Advance(m, sc, x) \in S
\* What comes after x, and the whole course.
From(m, sc, x) ==
    {y \in Position(sc) : \A S \in SUBSET Position(sc) : x \in S /\ Closed(m, sc, S) => y \in S}
Course(m, sc) == From(m, sc, Beginning)

KindFor(step) ==
    IF step = "shares" THEN "share"
    ELSE IF step \in {"seedcomm", "comm"} THEN "comm"
    ELSE IF step \in {"seedopen", "open"} THEN "open"
    ELSE step

\* The fields of a position.
LEMMA Fields ==
    ASSUME NEW o, NEW s, NEW c, NEW n, NEW k, NEW l
    PROVE  /\ At(o, s, c, n, k, l).op = o /\ At(o, s, c, n, k, l).step = s
           /\ At(o, s, c, n, k, l).cnt = c /\ At(o, s, c, n, k, l).next = n
           /\ At(o, s, c, n, k, l).sent = k /\ At(o, s, c, n, k, l).log = l
  BY DEF At

\* What is a position.
LEMMA Positions ==
    ASSUME NEW sc, NEW o \in 0 .. Len(sc), NEW s \in Steps, NEW c \in Nat, NEW n \in Nat,
           NEW k \in Nat, NEW l \in Nat, s # "call" => o > 0
    PROVE  At(o, s, c, n, k, l) \in Position(sc)
  BY DEF At, Position

\* Where a step leads: positions go on, and one at which a party waits is
\* entered with a message.
Onwards(sc, x, z) ==
    /\ z \in Position(sc)
    /\ z.sent >= x.sent /\ z.log >= x.log
    /\ Waiting(z) => z.sent = x.sent + 1
    /\ ~ Waiting(z) => z.sent = x.sent
    /\ IF x.step \in {"comm", "seedcomm", "open", "seedopen"}
       THEN z.log = x.log + 1 ELSE z.log = x.log
    /\ x.step \in {"comm", "seedcomm"} => Waiting(z)
    /\ x.step \in {"done", "hash"} => z.step = "done"

\* What is to be shown of a position to see that it follows x.
LEMMA Entered ==
    ASSUME NEW sc, NEW x \in Position(sc), x.step # "done",
           NEW o \in 0 .. Len(sc), NEW s \in Steps, NEW c \in Nat, NEW n \in Nat,
           NEW k, NEW l, s # "call" => o > 0,
           k = IF s \in {"call", "done"} THEN x.sent ELSE x.sent + 1,
           l = IF x.step \in {"comm", "seedcomm", "open", "seedopen"} THEN x.log + 1 ELSE x.log,
           x.step \in {"comm", "seedcomm"} => s \notin {"call", "done"},
           x.step = "hash" => s = "done"
    PROVE  Onwards(sc, x, At(o, s, c, n, k, l))
<1>1. PICK z : z = At(o, s, c, n, k, l)
  OBVIOUS
<1>2. x.sent \in Nat /\ x.log \in Nat /\ k \in Nat /\ l \in Nat
  BY DEF Position
<1>3. z \in Position(sc)
  BY <1>1, <1>2, Positions
<1>4. z.step = s /\ z.sent = k /\ z.log = l
  BY <1>1, Fields
<1>5. QED BY <1>1, <1>2, <1>3, <1>4 DEF Onwards, Waiting

\* Every step of the course goes on in this way.
LEMMA Forward ==
    ASSUME NEW m, NEW sc \in Scripts, NEW x \in Position(sc)
    PROVE  x.step # "done" /\ (x.step = "call" => x.op < Len(sc)) => Onwards(sc, x, Advance(m, sc, x))
<1>0. PICK z : z = Advance(m, sc, x)
  OBVIOUS
<1>1. /\ x.op \in 0 .. Len(sc) /\ x.op \in Nat /\ Len(sc) \in Nat
      /\ x.step \in Steps /\ x.cnt \in Nat /\ x.next \in Nat
      /\ x.sent \in Nat /\ x.log \in Nat /\ (x.step # "call" => x.op > 0)
      /\ \A i \in 1 .. Len(sc) : sc[i].n \in Nat
  <2>1. sc \in Seq(Invocation)
    BY ScriptAssumption
  <2>2. Len(sc) \in Nat /\ \A i \in 1 .. Len(sc) : sc[i] \in Invocation
    BY <2>1
  <2>3. QED BY <2>2 DEF Position, Invocation
<1>2. /\ "call" \in Steps /\ "shares" \in Steps /\ "seedcomm" \in Steps /\ "seedopen" \in Steps
      /\ "pj" \in Steps /\ "comm" \in Steps /\ "open" \in Steps /\ "hash" \in Steps
      /\ "done" \in Steps
  BY DEF Steps
<1>3. ASSUME NEW y, NEW o \in 0 .. Len(sc), o > 0, NEW c \in Nat, NEW n \in Nat, NEW s,
             y = At(o, s, c, n, x.sent, x.log), x.step \in {"call", "shares"}
      PROVE  Onwards(sc, x, ToCheck(m, y)) /\ Onwards(sc, x, IfNeeded(m, y))
  <2>1. /\ y.op = o /\ y.cnt = c /\ y.next = n /\ y.sent = x.sent /\ y.log = x.log
    BY <1>3, Fields
  <2>2. Onwards(sc, x, Stays(y, "call"))
    BY <1>1, <1>2, <1>3, <2>1, Entered DEF Stays
  <2>3. Onwards(sc, x, Sends(y, "comm"))
    BY <1>1, <1>2, <1>3, <2>1, Entered DEF Sends
  <2>4. Onwards(sc, x, Sends(y, "seedcomm"))
    BY <1>1, <1>2, <1>3, <2>1, Entered DEF Sends
  <2>5. QED BY <2>2, <2>3, <2>4 DEF ToCheck, IfNeeded
<1>4. ASSUME x.step = "call", x.op < Len(sc) PROVE Onwards(sc, x, z)
  <2>1. PICK y, o, n : /\ o = x.op + 1 /\ n = sc[o].n
                       /\ y = At(o, "call", x.cnt, x.next, x.sent, x.log)
    OBVIOUS
  <2>2. o \in 0 .. Len(sc) /\ o > 0 /\ n \in Nat
    BY <1>1, <1>4, <2>1
  <2>3. z = NextCall(m, sc, x)
    BY <1>0, <1>4 DEF Advance
  <2>4. /\ y.op = o /\ y.cnt = x.cnt /\ y.next = x.next /\ y.sent = x.sent /\ y.log = x.log
    BY <2>1, Fields
  <2>5. Onwards(sc, x, At(o, "shares", x.cnt, x.next + n, x.sent + 1, x.log))
    <3>1. x.next + n \in Nat /\ x.sent + 1 = IF "shares" \in {"call", "done"} THEN x.sent ELSE x.sent + 1
      BY <1>1, <2>2
    <3>2. x.log = IF x.step \in {"comm", "seedcomm", "open", "seedopen"} THEN x.log + 1 ELSE x.log
      BY <1>4
    <3>3. QED BY <1>1, <1>2, <1>4, <2>2, <3>1, <3>2, Entered
  <2>6. Onwards(sc, x, IfNeeded(m, At(o, "call", x.cnt + 1, x.next + 1, x.sent, x.log)))
    <3>1. PICK u : u = At(o, "call", x.cnt + 1, x.next + 1, x.sent, x.log)
      OBVIOUS
    <3>2. x.cnt + 1 \in Nat /\ x.next + 1 \in Nat
      BY <1>1
    <3>3. Onwards(sc, x, IfNeeded(m, u))
      BY <1>3, <1>4, <2>2, <3>1, <3>2
    <3>4. QED BY <3>1, <3>3
  <2>7. Onwards(sc, x, Sends(y, "seedcomm")) /\ Onwards(sc, x, Sends(y, "hash"))
        /\ Onwards(sc, x, Stays(y, "done"))
    BY <1>1, <1>2, <1>4, <2>2, <2>4, Entered DEF Sends, Stays
  <2>8. Onwards(sc, x, ToCheck(m, y))
    BY <1>1, <1>3, <1>4, <2>1, <2>2
  <2>9. z = IF sc[o].do = "open" THEN At(o, "shares", x.cnt, x.next + n, x.sent + 1, x.log)
            ELSE IF sc[o].do = "add" THEN IfNeeded(m, At(o, "call", x.cnt + 1, x.next + 1, x.sent, x.log))
            ELSE IF sc[o].do = "random" THEN Sends(y, "seedcomm")
            ELSE IF sc[o].do = "finish" THEN IF x.log = 0 THEN Stays(y, "done") ELSE Sends(y, "hash")
            ELSE ToCheck(m, y)
    BY <2>1, <2>3, <2>4, Zenon DEF NextCall
  <2>10. QED BY <2>5, <2>6, <2>7, <2>8, <2>9
<1>5. ASSUME x.step = "shares" PROVE Onwards(sc, x, z)
  <2>1. z = IfNeeded(m, At(x.op, "shares", x.cnt + sc[x.op].n, x.next, x.sent, x.log))
    BY <1>0, <1>5 DEF Advance
  <2>2. x.cnt + sc[x.op].n \in Nat /\ x.op > 0
    BY <1>1, <1>5
  <2>3. QED BY <1>1, <1>3, <1>5, <2>1, <2>2
<1>6. ASSUME x.step \in {"seedcomm", "seedopen", "pj", "comm", "open", "hash"}
      PROVE  Onwards(sc, x, z)
  <2>1. PICK y : y = Logged(x)
    OBVIOUS
  <2>2. y.op = x.op /\ y.cnt = x.cnt /\ y.next = x.next /\ y.sent = x.sent /\ y.log = x.log + 1
    BY <2>1, Fields DEF Logged
  <2>3. CASE x.step \in {"seedcomm", "comm"}
    <3>1. Onwards(sc, x, Sends(y, "open")) /\ Onwards(sc, x, Sends(y, "seedopen"))
      BY <1>1, <1>2, <2>2, <2>3, Entered DEF Sends
    <3>2. QED BY <1>0, <2>1, <2>3, <3>1 DEF Advance
  <2>4. CASE x.step = "seedopen"
    <3>1. /\ Onwards(sc, x, Sends(y, "pj")) /\ Onwards(sc, x, Sends(y, "comm"))
          /\ Onwards(sc, x, Stays(y, "call"))
      BY <1>1, <1>2, <2>2, <2>4, Entered DEF Sends, Stays
    <3>2. QED BY <1>0, <2>1, <2>4, <3>1 DEF Advance
  <2>5. CASE x.step = "pj"
    <3>1. Onwards(sc, x, Sends(x, "comm"))
      BY <1>1, <1>2, <2>5, Entered DEF Sends
    <3>2. QED BY <1>0, <2>5, <3>1 DEF Advance
  <2>6. CASE x.step = "open"
    <3>1. Onwards(sc, x, At(x.op, "call", 0, x.next, x.sent, x.log + 1))
      BY <1>1, <1>2, <2>6, Entered
    <3>2. QED BY <1>0, <2>6, <3>1 DEF Advance
  <2>7. CASE x.step = "hash"
    <3>1. Onwards(sc, x, Stays(x, "done"))
      BY <1>1, <1>2, <2>7, Entered DEF Stays
    <3>2. QED BY <1>0, <2>7, <3>1 DEF Advance
  <2>8. QED BY <1>6, <2>3, <2>4, <2>5, <2>6, <2>7
<1>7. QED BY <1>0, <1>1, <1>4, <1>5, <1>6 DEF Steps

\* Every step leads to a position.
LEMMA Closes ==
    ASSUME NEW m, NEW sc \in Scripts, NEW x \in Position(sc)
    PROVE  /\ Advance(m, sc, x) \in Position(sc)
           /\ ~ (x.step # "done" /\ (x.step = "call" => x.op < Len(sc))) => Advance(m, sc, x) = x
<1>1. CASE x.step # "done" /\ (x.step = "call" => x.op < Len(sc))
  BY <1>1, Forward DEF Onwards
<1>2. CASE x.step = "done"
  BY <1>2 DEF Advance
<1>3. CASE x.step = "call" /\ ~ x.op < Len(sc)
  BY <1>3 DEF Advance
<1>4. QED BY <1>1, <1>2, <1>3

\* What comes after x contains x, is closed, and is the least such set.
LEMMA Continues ==
    ASSUME NEW m, NEW sc \in Scripts, NEW x \in Position(sc)
    PROVE  /\ x \in From(m, sc, x) /\ From(m, sc, x) \subseteq Position(sc)
           /\ \A y \in From(m, sc, x) : Advance(m, sc, y) \in From(m, sc, x)
  BY Closes DEF From, Closed

\* A closed set that holds x holds all that comes after it.
LEMMA Least ==
    ASSUME NEW m, NEW sc, NEW x, NEW S, S \subseteq Position(sc), x \in S,
           \A y \in S : Advance(m, sc, y) \in S
    PROVE  From(m, sc, x) \subseteq S
<1>1. S \in SUBSET Position(sc) /\ Closed(m, sc, S)
  BY DEF Closed
<1>2. QED BY <1>1 DEF From

\* x itself, or something after the next position.
LEMMA Splits ==
    ASSUME NEW m, NEW sc \in Scripts, NEW x \in Position(sc), NEW y \in From(m, sc, x)
    PROVE  y = x \/ y \in From(m, sc, Advance(m, sc, x))
<1>1. PICK z : z = Advance(m, sc, x)
  OBVIOUS
<1>2. z \in Position(sc)
  BY <1>1, Closes
<1>3. PICK S : S = {x} \cup From(m, sc, z)
  OBVIOUS
<1>4. S \subseteq Position(sc) /\ \A w \in S : Advance(m, sc, w) \in S
  BY <1>1, <1>2, <1>3, Continues
<1>5. From(m, sc, x) \subseteq S
  BY <1>3, <1>4, Least
<1>6. QED BY <1>1, <1>3, <1>5

\* Numbers of messages and of logged broadcasts never decrease, and another
\* position where a party waits comes with another message.
LEMMA Monotone ==
    ASSUME NEW m, NEW sc \in Scripts, NEW x \in Position(sc), NEW y \in From(m, sc, x)
    PROVE  y.sent >= x.sent /\ y.log >= x.log /\ (Waiting(y) => y = x \/ y.sent > x.sent)
<1>1. \A w \in Position(sc) : w.sent \in Nat /\ w.log \in Nat
  BY DEF Position
<1>2. ASSUME NEW z \in Position(sc),
             z.sent >= x.sent, z.log >= x.log, Waiting(z) => z.sent > x.sent
      PROVE  \A w \in From(m, sc, z) :
                w.sent >= x.sent /\ w.log >= x.log /\ (Waiting(w) => w.sent > x.sent)
  <2>1. PICK S : S = {w \in Position(sc) :
                        w.sent >= x.sent /\ w.log >= x.log /\ (Waiting(w) => w.sent > x.sent)}
    OBVIOUS
  <2>2. ASSUME NEW w \in S PROVE Advance(m, sc, w) \in S
    <3>1. PICK u : u = Advance(m, sc, w)
      OBVIOUS
    <3>2. u = w \/ Onwards(sc, w, u)
      BY <2>1, <3>1, Forward, Closes
    <3>3. CASE u = w
      BY <3>1, <3>3
    <3>4. CASE Onwards(sc, w, u)
      <4>1. u \in Position(sc) /\ w \in Position(sc)
        BY <2>1, <3>4 DEF Onwards
      <4>2. u.sent >= w.sent /\ u.log >= w.log /\ (Waiting(u) => u.sent = w.sent + 1)
        BY <3>4 DEF Onwards
      <4>3. w.sent >= x.sent /\ w.log >= x.log
        BY <2>1
      <4>4. /\ w.sent \in Nat /\ w.log \in Nat /\ u.sent \in Nat /\ u.log \in Nat
            /\ x.sent \in Nat /\ x.log \in Nat
        BY <1>1, <4>1
      <4>5. u.sent >= x.sent /\ u.log >= x.log /\ (Waiting(u) => u.sent > x.sent)
        BY <4>2, <4>3, <4>4
      <4>6. QED BY <2>1, <3>1, <4>1, <4>5
    <3>5. QED BY <3>2, <3>3, <3>4
  <2>3. From(m, sc, z) \subseteq S
    BY <1>2, <2>1, <2>2, Least
  <2>4. QED BY <2>1, <2>3
<1>3. CASE y = x
  BY <1>1, <1>3
<1>4. CASE y # x
  <2>1. PICK z : z = Advance(m, sc, x)
    OBVIOUS
  <2>2. y \in From(m, sc, z)
    BY <1>4, <2>1, Splits
  <2>3. z = x \/ Onwards(sc, x, z)
    BY <2>1, Forward, Closes
  <2>4. CASE z = x
    <3>1. \A w \in {x} : Advance(m, sc, w) \in {x}
      BY <2>1, <2>4
    <3>2. From(m, sc, x) \subseteq {x}
      BY <3>1, Least
    <3>3. QED BY <1>4, <3>2
  <2>5. CASE Onwards(sc, x, z)
    <3>1. z \in Position(sc) /\ z.sent >= x.sent /\ z.log >= x.log
          /\ (Waiting(z) => z.sent > x.sent)
      BY <1>1, <2>5 DEF Onwards
    <3>2. QED BY <1>2, <2>2, <3>1
  <2>6. QED BY <2>3, <2>4, <2>5
<1>5. QED BY <1>3, <1>4

\* Where all parties begin.
LEMMA BeginningFacts ==
    ASSUME NEW sc \in Scripts
    PROVE  /\ Beginning \in Position(sc) /\ Beginning.step = "call" /\ Beginning.op = 0
           /\ Beginning.cnt = 0 /\ Beginning.next = 1 /\ Beginning.sent = 0 /\ Beginning.log = 0
<1>1. Len(sc) \in Nat
  BY ScriptAssumption
<1>2. QED BY <1>1, Positions, Fields DEF Beginning, Steps

\* The course is closed.
LEMMA CourseFacts ==
    ASSUME NEW m, NEW sc \in Scripts
    PROVE  /\ Beginning \in Course(m, sc) /\ Course(m, sc) \subseteq Position(sc)
           /\ \A x \in Course(m, sc) : Advance(m, sc, x) \in Course(m, sc)
  BY BeginningFacts, Continues DEF Course

\* Of two positions of the course one comes after the other.
LEMMA Ordered ==
    ASSUME NEW m, NEW sc \in Scripts, NEW x \in Course(m, sc), NEW y \in Course(m, sc)
    PROVE  y \in From(m, sc, x) \/ x \in From(m, sc, y)
<1>1. PICK C : C = Course(m, sc)
  OBVIOUS
<1>2. C \subseteq Position(sc) /\ \A w \in C : Advance(m, sc, w) \in C
  BY <1>1, CourseFacts
<1>3. PICK S : S = {w \in C : \A v \in C : v \in From(m, sc, w) \/ w \in From(m, sc, v)}
  OBVIOUS
<1>4. Beginning \in S
  BY <1>1, <1>3, CourseFacts DEF Course
<1>5. ASSUME NEW w \in S PROVE Advance(m, sc, w) \in S
  <2>1. PICK u : u = Advance(m, sc, w)
    OBVIOUS
  <2>2. w \in C /\ w \in Position(sc) /\ u \in C
    BY <1>2, <1>3, <2>1
  <2>3. ASSUME NEW v \in C PROVE v \in From(m, sc, u) \/ u \in From(m, sc, v)
    <3>1. v \in Position(sc)
      BY <1>2
    <3>2. CASE v \in From(m, sc, w)
      BY <2>1, <2>2, <3>1, <3>2, Splits, Continues
    <3>3. CASE w \in From(m, sc, v)
      BY <2>1, <3>1, <3>3, Continues
    <3>4. QED BY <1>3, <3>2, <3>3
  <2>4. QED BY <1>3, <2>1, <2>2, <2>3
<1>6. C \subseteq S
  BY <1>1, <1>2, <1>3, <1>4, <1>5, Least DEF Course
<1>7. QED BY <1>1, <1>3, <1>6

\* A round has one position, and so has the end.
LEMMA Unique ==
    ASSUME NEW m, NEW sc \in Scripts, NEW x \in Course(m, sc), NEW y \in Course(m, sc),
           \/ Waiting(x) /\ Waiting(y) /\ x.sent = y.sent
           \/ x.step = "done" /\ y.step = "done"
    PROVE  x = y
<1>1. x \in Position(sc) /\ y \in Position(sc)
  BY CourseFacts
<1>2. x.sent \in Nat /\ y.sent \in Nat
  BY <1>1 DEF Position
<1>3. ASSUME NEW v \in Position(sc), v.step = "done", NEW w \in From(m, sc, v) PROVE w = v
  <2>1. Advance(m, sc, v) = v
    BY <1>3, Closes
  <2>2. \A u \in {v} : Advance(m, sc, u) \in {v}
    BY <2>1
  <2>3. From(m, sc, v) \subseteq {v}
    BY <1>3, <2>2, Least
  <2>4. QED BY <1>3, <2>3
<1>4. CASE Waiting(x) /\ Waiting(y) /\ x.sent = y.sent
  BY <1>1, <1>2, <1>4, Ordered, Monotone
<1>5. CASE x.step = "done" /\ y.step = "done"
  BY <1>1, <1>3, <1>5, Ordered
<1>6. QED BY <1>4, <1>5

-----------------------------------------------------------------------------
(* Where steps lead, field by field.                                       *)

\* The beginning of a check.
LEMMA ToCheckIs ==
    ASSUME NEW m, NEW y, NEW z, z = ToCheck(m, y)
    PROVE  /\ z.op = y.op /\ z.cnt = y.cnt /\ z.next = y.next /\ z.log = y.log
           /\ z.step = IF y.cnt = 0 THEN "call"
                       ELSE IF Seeded(m, y.cnt) THEN "seedcomm" ELSE "comm"
           /\ z.sent = IF y.cnt = 0 THEN y.sent ELSE y.sent + 1
  BY Fields DEF ToCheck, Stays, Sends

\* One that is only due at the limit.
LEMMA IfNeededIs ==
    ASSUME NEW m, NEW y, NEW z, z = IfNeeded(m, y), y.cnt \in Nat
    PROVE  /\ z.op = y.op /\ z.cnt = y.cnt /\ z.next = y.next /\ z.log = y.log
           /\ z.step = IF y.cnt < PopenMax THEN "call"
                       ELSE IF Seeded(m, y.cnt) THEN "seedcomm" ELSE "comm"
           /\ z.sent = IF y.cnt < PopenMax THEN y.sent ELSE y.sent + 1
<1>1. PopenMax \in Nat /\ PopenMax > 0
  BY LimitAssumption
<1>2. CASE y.cnt < PopenMax
  <2>1. z = Stays(y, "call")
    BY <1>1, <1>2 DEF IfNeeded
  <2>2. QED BY <1>2, <2>1, Fields DEF Stays
<1>3. CASE ~ y.cnt < PopenMax
  <2>1. z = ToCheck(m, y) /\ y.cnt # 0
    BY <1>1, <1>3 DEF IfNeeded
  <2>2. QED BY <1>3, <2>1, ToCheckIs
<1>4. QED BY <1>2, <1>3

\* A call.
LEMMA CallIs ==
    ASSUME NEW m, NEW sc, NEW x \in Position(sc), NEW z, z = Advance(m, sc, x),
           x.step = "call", x.op < Len(sc)
    PROVE  LET k == sc[x.op + 1]
               c == IF k.do = "add" THEN x.cnt + 1 ELSE x.cnt
           IN /\ z.op = x.op + 1 /\ z.cnt = c /\ z.log = x.log
              /\ z.next = IF k.do = "open" THEN x.next + k.n
                          ELSE IF k.do = "add" THEN x.next + 1 ELSE x.next
              /\ z.step = IF k.do = "open" THEN "shares"
                          ELSE IF k.do = "random" THEN "seedcomm"
                          ELSE IF k.do = "finish" THEN IF x.log = 0 THEN "done" ELSE "hash"
                          ELSE IF k.do = "add" /\ c < PopenMax THEN "call"
                          ELSE IF c = 0 THEN "call"
                          ELSE IF Seeded(m, c) THEN "seedcomm" ELSE "comm"
              /\ z.sent = IF z.step \in {"call", "done"} THEN x.sent ELSE x.sent + 1
<1>1. PICK k, y : k = sc[x.op + 1] /\ y = At(x.op + 1, "call", x.cnt, x.next, x.sent, x.log)
  OBVIOUS
<1>2. y.op = x.op + 1 /\ y.cnt = x.cnt /\ y.next = x.next /\ y.sent = x.sent /\ y.log = x.log
  BY <1>1, Fields
<1>3. z = IF k.do = "open" THEN At(x.op + 1, "shares", x.cnt, x.next + k.n, x.sent + 1, x.log)
          ELSE IF k.do = "add" THEN IfNeeded(m, At(x.op + 1, "call", x.cnt + 1, x.next + 1, x.sent, x.log))
          ELSE IF k.do = "random" THEN Sends(y, "seedcomm")
          ELSE IF k.do = "finish" THEN IF x.log = 0 THEN Stays(y, "done") ELSE Sends(y, "hash")
          ELSE ToCheck(m, y)
  BY <1>1, <1>2, Zenon DEF Advance, NextCall
<1>4. x.cnt \in Nat /\ PopenMax \in Nat /\ PopenMax > 0
  BY LimitAssumption DEF Position
<1>5. CASE k.do = "open"
  <2>1. z = At(x.op + 1, "shares", x.cnt, x.next + k.n, x.sent + 1, x.log)
    BY <1>3, <1>5
  <2>2. QED BY <1>1, <1>5, <2>1, Fields
<1>6. CASE k.do = "add"
  <2>1. PICK u : u = At(x.op + 1, "call", x.cnt + 1, x.next + 1, x.sent, x.log)
    OBVIOUS
  <2>2. z = IfNeeded(m, u)
    BY <1>3, <1>6, <2>1
  <2>3. /\ u.op = x.op + 1 /\ u.cnt = x.cnt + 1 /\ u.next = x.next + 1
        /\ u.sent = x.sent /\ u.log = x.log
    BY <2>1, Fields
  <2>4. u.cnt \in Nat
    BY <1>4, <2>3
  <2>5. /\ z.op = x.op + 1 /\ z.cnt = x.cnt + 1 /\ z.next = x.next + 1 /\ z.log = x.log
        /\ z.step = IF u.cnt < PopenMax THEN "call"
                    ELSE IF Seeded(m, u.cnt) THEN "seedcomm" ELSE "comm"
        /\ z.sent = IF u.cnt < PopenMax THEN x.sent ELSE x.sent + 1
    BY <2>2, <2>3, <2>4, IfNeededIs
  <2>6. QED BY <1>1, <1>4, <1>6, <2>3, <2>5
<1>7. CASE k.do = "random"
  <2>1. z = At(y.op, "seedcomm", y.cnt, y.next, y.sent + 1, y.log)
    BY <1>3, <1>7 DEF Sends
  <2>2. QED BY <1>1, <1>2, <1>7, <2>1, Fields
<1>8. CASE k.do = "finish"
  <2>1. z = IF x.log = 0 THEN At(y.op, "done", y.cnt, y.next, y.sent, y.log)
            ELSE At(y.op, "hash", y.cnt, y.next, y.sent + 1, y.log)
    BY <1>3, <1>8 DEF Sends, Stays
  <2>2. QED BY <1>1, <1>2, <1>8, <2>1, Fields
<1>9. CASE k.do \notin {"open", "add", "random", "finish"}
  <2>1. z = ToCheck(m, y)
    BY <1>3, <1>9
  <2>2. /\ z.op = y.op /\ z.cnt = y.cnt /\ z.next = y.next /\ z.log = y.log
        /\ z.step = IF y.cnt = 0 THEN "call"
                    ELSE IF Seeded(m, y.cnt) THEN "seedcomm" ELSE "comm"
        /\ z.sent = IF y.cnt = 0 THEN y.sent ELSE y.sent + 1
    BY <2>1, ToCheckIs
  <2>3. QED BY <1>1, <1>2, <1>9, <2>2
<1>10. QED BY <1>5, <1>6, <1>7, <1>8, <1>9

\* The arrival of shares.
LEMMA SharesIs ==
    ASSUME NEW m, NEW sc \in Scripts, NEW x \in Position(sc), NEW z, z = Advance(m, sc, x),
           x.step = "shares"
    PROVE  LET c == x.cnt + sc[x.op].n
           IN /\ z.op = x.op /\ z.cnt = c /\ z.next = x.next /\ z.log = x.log
              /\ z.step = IF c < PopenMax THEN "call"
                          ELSE IF Seeded(m, c) THEN "seedcomm" ELSE "comm"
              /\ z.sent = IF c < PopenMax THEN x.sent ELSE x.sent + 1
<1>1. PICK u : u = At(x.op, "shares", x.cnt + sc[x.op].n, x.next, x.sent, x.log)
  OBVIOUS
<1>2. z = IfNeeded(m, u)
  BY <1>1 DEF Advance
<1>3. x.op \in 1 .. Len(sc) /\ x.cnt \in Nat
  <2>1. x.op \in 0 .. Len(sc) /\ x.op > 0 /\ x.cnt \in Nat
    BY DEF Position
  <2>2. QED BY <2>1
<1>4. sc[x.op].n \in Nat
  <2>1. sc \in Seq(Invocation)
    BY ScriptAssumption
  <2>2. sc[x.op] \in Invocation
    BY <1>3, <2>1
  <2>3. QED BY <2>2 DEF Invocation
<1>5. /\ u.op = x.op /\ u.cnt = x.cnt + sc[x.op].n /\ u.next = x.next
      /\ u.sent = x.sent /\ u.log = x.log
  BY <1>1, Fields
<1>6. u.cnt \in Nat
  BY <1>3, <1>4, <1>5
<1>7. QED BY <1>2, <1>5, <1>6, IfNeededIs

\* The other broadcasts.
LEMMA RoundIs ==
    ASSUME NEW m, NEW sc, NEW x \in Position(sc), NEW z, z = Advance(m, sc, x),
           x.step \in {"seedcomm", "seedopen", "pj", "comm", "open", "hash"}
    PROVE  /\ z.op = x.op /\ z.next = x.next
           /\ z.cnt = IF x.step = "open" THEN 0 ELSE x.cnt
           /\ z.log = IF x.step \in {"pj", "hash"} THEN x.log ELSE x.log + 1
           /\ z.step = IF x.step = "seedcomm" THEN "seedopen"
                       ELSE IF x.step = "seedopen"
                       THEN IF sc[x.op].do = "random" THEN "call"
                            ELSE IF m = "z2k" THEN "pj" ELSE "comm"
                       ELSE IF x.step = "pj" THEN "comm"
                       ELSE IF x.step = "comm" THEN "open"
                       ELSE IF x.step = "open" THEN "call" ELSE "done"
           /\ z.sent = IF z.step \in {"call", "done"} THEN x.sent ELSE x.sent + 1
<1>1. PICK y : y = Logged(x)
  OBVIOUS
<1>2. /\ y.op = x.op /\ y.cnt = x.cnt /\ y.next = x.next
      /\ y.sent = x.sent /\ y.log = x.log + 1
  BY <1>1, Fields DEF Logged
<1>3. CASE x.step = "seedcomm"
  BY <1>1, <1>2, <1>3, Fields DEF Advance, Sends
<1>4. CASE x.step = "comm"
  BY <1>1, <1>2, <1>4, Fields DEF Advance, Sends
<1>5. CASE x.step = "seedopen"
  BY <1>1, <1>2, <1>5, Fields DEF Advance, Sends, Stays
<1>6. CASE x.step = "pj"
  BY <1>6, Fields DEF Advance, Sends
<1>7. CASE x.step = "open"
  BY <1>7, Fields DEF Advance
<1>8. CASE x.step = "hash"
  BY <1>8, Fields DEF Advance, Stays
<1>9. QED BY <1>3, <1>4, <1>5, <1>6, <1>7, <1>8

-----------------------------------------------------------------------------
(* What holds at every position of the course.                             *)

Odd(n) == n % 2 = 1

Regular(m, sc, x) ==
    /\ x.op > 0 \/ x.step = "call"
    /\ x.step = "call" => x.cnt < PopenMax /\ (x.op > 0 => sc[x.op].do # "finish")
    /\ x.step = "call" /\ x.op > 0 /\ sc[x.op].do = "check" => x.cnt = 0
    /\ x.step = "shares" => sc[x.op].do = "open" /\ x.next > x.cnt + sc[x.op].n
    /\ x.step \in {"seedcomm", "seedopen"} =>
          /\ sc[x.op].do # "finish"
          /\ IF sc[x.op].do = "random" THEN x.cnt < PopenMax ELSE x.cnt > 0 /\ Seeded(m, x.cnt)
    /\ x.step \in {"pj", "comm", "open"} =>
          sc[x.op].do \notin {"random", "finish"} /\ x.cnt > 0
    /\ x.step = "pj" => m = "z2k"
    /\ x.step \in {"hash", "done"} => sc[x.op].do = "finish" /\ x.cnt = 0
    /\ x.step = "hash" => x.log > 0
    /\ Odd(x.log) <=> x.step \in {"seedopen", "open"}
    /\ x.next > x.cnt

\* Odd and even.
LEMMA Parity ==
    ASSUME NEW n \in Nat
    PROVE  (Odd(n + 1) <=> ~ Odd(n)) /\ ~ Odd(0) /\ (Odd(n) => n > 0)
  BY DEF Odd

\* The calls of a script.
LEMMA ScriptFacts ==
    ASSUME NEW sc \in Scripts
    PROVE  /\ Len(sc) \in Nat /\ Len(sc) > 1 /\ DOMAIN sc = 1 .. Len(sc)
           /\ \A i \in 1 .. Len(sc) :
                 /\ sc[i].n \in Nat
                 /\ sc[i].do \in {"open", "add", "check", "for", "random", "finish"}
                 /\ sc[i].do = "finish" <=> i = Len(sc)
                 /\ sc[i].do = "for" => i > 1 /\ sc[i - 1].do = "open"
           /\ sc[Len(sc) - 1].do = "check"
<1>1. sc \in Seq(Invocation) /\ Len(sc) > 1
  BY ScriptAssumption
<1>2. DOMAIN sc = 1 .. Len(sc) /\ Len(sc) \in Nat
  BY <1>1
<1>3. \A i \in 1 .. Len(sc) : sc[i] \in Invocation
  BY <1>1
<1>4. QED BY <1>1, <1>2, <1>3, ScriptAssumption DEF Invocation

\* A regular position is followed by one.
LEMMA RegularNext ==
    ASSUME NEW m \in Modes, NEW sc \in Scripts, NEW x \in Position(sc), Regular(m, sc, x)
    PROVE  Regular(m, sc, Advance(m, sc, x))
<1>1. PICK z : z = Advance(m, sc, x)
  OBVIOUS
<1>2. /\ x.op \in Nat /\ x.op <= Len(sc) /\ x.cnt \in Nat /\ x.next \in Nat /\ x.log \in Nat
      /\ x.step \in Steps /\ PopenMax \in Nat /\ PopenMax > 0
  <2>1. x.op \in 0 .. Len(sc) /\ Len(sc) \in Nat
    BY ScriptFacts DEF Position
  <2>2. QED BY <2>1, LimitAssumption DEF Position
<1>3. (Odd(x.log + 1) <=> ~ Odd(x.log)) /\ (Odd(x.log) => x.log > 0)
  BY <1>2, Parity
<1>4. /\ Len(sc) \in Nat
      /\ \A i \in 1 .. Len(sc) :
            /\ sc[i].n \in Nat
            /\ sc[i].do \in {"open", "add", "check", "for", "random", "finish"}
            /\ sc[i].do = "finish" <=> i = Len(sc)
      /\ Len(sc) > 1 /\ sc[Len(sc) - 1].do = "check"
  BY ScriptFacts
<1>5. ASSUME x.step = "call", x.op < Len(sc) PROVE Regular(m, sc, z)
  <2>1. PICK k, c : k = sc[x.op + 1] /\ c = IF k.do = "add" THEN x.cnt + 1 ELSE x.cnt
    OBVIOUS
  <2>2. /\ z.op = x.op + 1 /\ z.cnt = c /\ z.log = x.log
        /\ z.next = IF k.do = "open" THEN x.next + k.n
                    ELSE IF k.do = "add" THEN x.next + 1 ELSE x.next
        /\ z.step = IF k.do = "open" THEN "shares"
                    ELSE IF k.do = "random" THEN "seedcomm"
                    ELSE IF k.do = "finish" THEN IF x.log = 0 THEN "done" ELSE "hash"
                    ELSE IF k.do = "add" /\ c < PopenMax THEN "call"
                    ELSE IF c = 0 THEN "call"
                    ELSE IF Seeded(m, c) THEN "seedcomm" ELSE "comm"
    BY <1>1, <1>5, <2>1, CallIs
  <2>3. k.n \in Nat /\ sc[z.op] = k /\ z.op > 0 /\ c \in Nat
        /\ k.do \in {"open", "add", "check", "for", "random", "finish"}
        /\ (k.do = "finish" <=> z.op = Len(sc))
    <3>1. x.op + 1 \in 1 .. Len(sc)
      BY <1>2, <1>4, <1>5
    <3>2. QED BY <1>2, <1>4, <2>1, <2>2, <3>1
  <2>4. k.do = "finish" => x.cnt = 0
    <3>1. HAVE k.do = "finish"
    <3>2. x.op = Len(sc) - 1 /\ x.op > 0
      BY <1>2, <1>4, <2>2, <2>3, <3>1
    <3>3. QED BY <1>4, <1>5, <3>2 DEF Regular
  <2>5. x.cnt < PopenMax /\ x.next > x.cnt /\ ~ Odd(x.log)
    BY <1>5 DEF Regular
  <2>6. CASE k.do = "open"
    BY <1>2, <2>1, <2>2, <2>3, <2>5, <2>6 DEF Regular
  <2>7. CASE k.do = "random"
    BY <1>2, <2>1, <2>2, <2>3, <2>5, <2>7 DEF Regular
  <2>8. CASE k.do = "finish"
    BY <1>2, <2>1, <2>2, <2>3, <2>4, <2>5, <2>8 DEF Regular
  <2>9. CASE k.do = "add"
    BY <1>2, <2>1, <2>2, <2>3, <2>5, <2>9 DEF Regular
  <2>10. CASE k.do \in {"check", "for"}
    BY <1>2, <2>1, <2>2, <2>3, <2>5, <2>10 DEF Regular
  <2>11. QED BY <2>3, <2>6, <2>7, <2>8, <2>9, <2>10
<1>6. ASSUME x.step = "shares" PROVE Regular(m, sc, z)
  <2>1. PICK c : c = x.cnt + sc[x.op].n
    OBVIOUS
  <2>2. /\ z.op = x.op /\ z.cnt = c /\ z.next = x.next /\ z.log = x.log
        /\ z.step = IF c < PopenMax THEN "call"
                    ELSE IF Seeded(m, c) THEN "seedcomm" ELSE "comm"
    BY <1>1, <1>6, <2>1, SharesIs
  <2>3. x.op > 0 /\ sc[x.op].do = "open" /\ x.next > c /\ ~ Odd(x.log)
    BY <1>6, <2>1 DEF Regular
  <2>4. c \in Nat
    <3>1. x.op \in 1 .. Len(sc)
      BY <1>2, <1>4, <2>3
    <3>2. QED BY <1>2, <1>4, <2>1, <3>1
  <2>5. QED BY <1>2, <2>2, <2>3, <2>4 DEF Regular
<1>7. ASSUME x.step \in {"seedcomm", "seedopen", "pj", "comm", "open", "hash"}
      PROVE  Regular(m, sc, z)
  <2>1. /\ z.op = x.op /\ z.next = x.next
        /\ z.cnt = IF x.step = "open" THEN 0 ELSE x.cnt
        /\ z.log = IF x.step \in {"pj", "hash"} THEN x.log ELSE x.log + 1
        /\ z.step = IF x.step = "seedcomm" THEN "seedopen"
                    ELSE IF x.step = "seedopen"
                    THEN IF sc[x.op].do = "random" THEN "call"
                         ELSE IF m = "z2k" THEN "pj" ELSE "comm"
                    ELSE IF x.step = "pj" THEN "comm"
                    ELSE IF x.step = "comm" THEN "open"
                    ELSE IF x.step = "open" THEN "call" ELSE "done"
    BY <1>1, <1>7, RoundIs
  <2>2. CASE x.step = "seedcomm"
    BY <1>2, <1>3, <2>1, <2>2 DEF Regular
  <2>3. CASE x.step = "seedopen"
    BY <1>2, <1>3, <2>1, <2>3 DEF Regular
  <2>4. CASE x.step = "pj"
    BY <1>2, <1>3, <2>1, <2>4 DEF Regular
  <2>5. CASE x.step = "comm"
    BY <1>2, <1>3, <2>1, <2>5 DEF Regular
  <2>6. CASE x.step = "open"
    BY <1>2, <1>3, <2>1, <2>6 DEF Regular
  <2>7. CASE x.step = "hash"
    BY <1>2, <1>3, <2>1, <2>7 DEF Regular
  <2>8. QED BY <1>7, <2>2, <2>3, <2>4, <2>5, <2>6, <2>7
<1>8. CASE z = x
  BY <1>1, <1>8
<1>9. x.step = "done" \/ (x.step = "call" /\ ~ x.op < Len(sc)) => z = x
  BY <1>1, Closes
<1>10. QED BY <1>1, <1>2, <1>5, <1>6, <1>7, <1>8, <1>9 DEF Steps

\* All positions of the course are regular.
LEMMA CourseRegular ==
    ASSUME NEW m \in Modes, NEW sc \in Scripts, NEW x \in Course(m, sc)
    PROVE  Regular(m, sc, x)
<1>1. PICK S : S = {w \in Position(sc) : Regular(m, sc, w)}
  OBVIOUS
<1>2. Regular(m, sc, Beginning)
  <2>1. PopenMax \in Nat /\ PopenMax > 0 /\ ~ Odd(0)
    BY LimitAssumption, Parity
  <2>2. QED BY <2>1, BeginningFacts DEF Regular
<1>3. \A w \in S : Advance(m, sc, w) \in S
  BY <1>1, Closes, RegularNext
<1>4. Course(m, sc) \subseteq S
  BY <1>1, <1>2, <1>3, BeginningFacts, Least DEF Course
<1>5. QED BY <1>1, <1>4

\* A thread that has compared its broadcasts has gone through that round, and
\* so has every other party that sent as much.
LEMMA ComparedAt ==
    ASSUME NEW m, NEW sc \in Scripts, NEW x \in Course(m, sc), x.step = "done", x.log > 0
    PROVE  /\ \E y \in Course(m, sc) : y.step = "hash" /\ y.sent = x.sent /\ y.log = x.log
           /\ \A z \in Course(m, sc) : z.sent >= x.sent => z.step \in {"hash", "done"} /\ z.log = x.log
<1>1. PICK C : C = Course(m, sc)
  OBVIOUS
<1>2. C \subseteq Position(sc) /\ \A w \in C : Advance(m, sc, w) \in C
  BY <1>1, CourseFacts
<1>3. PICK S : S = {w \in C : w.step = "done" /\ w.log > 0 =>
                       \E y \in C : y.step = "hash" /\ y.sent = w.sent /\ y.log = w.log}
  OBVIOUS
<1>4. Beginning \in S
  BY <1>1, <1>3, CourseFacts, BeginningFacts
<1>5. ASSUME NEW w \in S PROVE Advance(m, sc, w) \in S
  <2>1. PICK u : u = Advance(m, sc, w)
    OBVIOUS
  <2>2. w \in C /\ u \in C /\ w \in Position(sc)
    BY <1>2, <1>3, <2>1
  <2>3. CASE u = w
    BY <2>1, <2>3
  <2>4. CASE w.step = "call" /\ w.op < Len(sc)
    <3>1. u.step = "done" => u.log = 0
      BY <2>1, <2>2, <2>4, CallIs
    <3>2. QED BY <1>3, <2>1, <2>2, <3>1
  <2>5. CASE w.step = "shares"
    <3>1. u.step # "done"
      BY <2>1, <2>2, <2>5, SharesIs
    <3>2. QED BY <1>3, <2>1, <2>2, <3>1
  <2>6. CASE w.step \in {"seedcomm", "seedopen", "pj", "comm", "open", "hash"}
    <3>1. u.step = "done" => w.step = "hash" /\ u.sent = w.sent /\ u.log = w.log
      BY <2>1, <2>2, <2>6, RoundIs
    <3>2. QED BY <1>3, <2>1, <2>2, <3>1
  <2>7. w.step \in Steps /\ (w.step = "done" \/ (w.step = "call" /\ ~ w.op < Len(sc)) => u = w)
    BY <2>1, <2>2, Closes DEF Position
  <2>8. QED BY <2>3, <2>4, <2>5, <2>6, <2>7 DEF Steps
<1>6. C \subseteq S
  BY <1>1, <1>2, <1>3, <1>4, <1>5, Least DEF Course
<1>7. PICK y \in C : y.step = "hash" /\ y.sent = x.sent /\ y.log = x.log
  BY <1>1, <1>3, <1>6
<1>8. ASSUME NEW z \in C, z.sent >= x.sent PROVE z.step \in {"hash", "done"} /\ z.log = x.log
  <2>1. y \in Position(sc) /\ z \in Position(sc) /\ Waiting(y)
    BY <1>2, <1>7 DEF Waiting
  <2>2. y.sent \in Nat /\ z.sent \in Nat
    BY <2>1 DEF Position
  <2>3. CASE y \in From(m, sc, z)
    BY <1>7, <1>8, <2>1, <2>2, <2>3, Monotone
  <2>4. CASE z \in From(m, sc, y)
    <3>1. PICK u : u = Advance(m, sc, y)
      OBVIOUS
    <3>2. u.step = "done" /\ u.log = x.log /\ u \in Position(sc)
      BY <1>7, <2>1, <3>1, RoundIs, Closes
    <3>3. Advance(m, sc, u) = u
      BY <3>2, Closes
    <3>4. \A v \in {u} : Advance(m, sc, v) \in {u}
      BY <3>3
    <3>5. From(m, sc, u) \subseteq {u}
      <4>1. {u} \subseteq Position(sc) /\ u \in {u}
        BY <3>2
      <4>2. QED BY <3>4, <4>1, Least
    <3>6. z = y \/ z = u
      BY <2>1, <2>4, <3>1, <3>5, Splits
    <3>7. QED BY <1>7, <3>2, <3>6
  <2>5. QED BY <1>1, <2>3, <2>4, Ordered
<1>9. QED BY <1>1, <1>7, <1>8

-----------------------------------------------------------------------------
(* One party at a position: s is its state, a what it has sent, b its log   *)
(* and o what it has opened.                                                *)

IsState(s) ==
    s = [op |-> s.op, step |-> s.step, macs |-> s.macs, vals |-> s.vals, shares |-> s.shares,
         cnt |-> s.cnt, next |-> s.next, seed |-> s.seed, pj |-> s.pj, comms |-> s.comms,
         checked |-> s.checked]

\* The values that wait are the last ones, in their order.
Sizes(m, sc, s, b) ==
    /\ s.op \in 0 .. Len(sc) /\ s.cnt \in Nat /\ s.checked \in 0 .. Len(b)
    /\ Len(s.vals) = s.cnt /\ Len(s.macs) >= s.cnt
    /\ Len(s.shares) = IF m = "z2k" THEN Len(s.macs) ELSE 0

Values(m, s, o) ==
    /\ s.cnt <= Len(o)
    /\ \A i \in 1 .. Len(s.macs) : s.macs[i] = s.next - Len(s.macs) + i - 1
    /\ m = "z2k" => \A i \in 1 .. Len(s.macs) : s.shares[i] = s.macs[i]
    /\ \A i \in 1 .. s.cnt : s.vals[i].id = s.macs[i] /\ s.vals[i] = o[Len(o) - s.cnt + i]
    /\ \A i \in 1 .. Len(o) - s.cnt : o[i].err = 0

Exact(m, sc, x, s, b) ==
    /\ s.op = x.op /\ s.step = x.step /\ s.cnt = x.cnt /\ s.next = x.next
    /\ Len(b) = x.log
    /\ Len(s.macs) = IF x.step = "shares" THEN x.cnt + sc[x.op].n ELSE x.cnt
    /\ x.step # "done" => s.checked = 0

\* What the delta of a party depends on.
DataOf(m, s) ==
    [seed |-> s.seed, pj |-> s.pj,
     pairs |-> [i \in 1 .. s.cnt |->
                   <<s.macs[i], s.vals[i], IF m = "z2k" THEN s.shares[i] ELSE s.macs[i]>>]]

\* The last message, in round k, is the right one.
Fits(m, p, s, body, k, b) ==
    /\ s.step = "seedcomm" => body = Commit(p, Coin(p, k), k)
    /\ s.step = "comm" => body = Commit(p, DataOf(m, s), k)
    /\ s.step = "seedopen" => body = Commit(p, Coin(p, k - 1), k - 1)
    /\ s.step = "open" => body = Commit(p, DataOf(m, s), k - 1)
    /\ s.step \in {"seedopen", "open"} => s.comms = b[Len(b)]
    /\ s.step = "hash" => body = b

\* Openings in the log are those of the commitments before them.
Paired(b) ==
    \A j \in 1 .. Len(b) :
        ~ Odd(j) => b[j][Faulty] = b[j - 1][Faulty] /\ b[j][Faulty].by = Faulty

Kinds(m, sc, a) ==
    \A k \in 1 .. Len(a) :
        \E y \in Course(m, sc) :
            Waiting(y) /\ y.sent = k /\ a[k] = [kind |-> KindFor(y.step), body |-> a[k].body]

Plain(s, a, b, o) ==
    /\ IsState(s) /\ ASeq(s.macs) /\ ASeq(s.vals) /\ ASeq(s.shares)
    /\ ASeq(a) /\ ASeq(b) /\ ASeq(o)

Local(m, sc, p, x, s, a, b, o) ==
    /\ x \in Course(m, sc)
    /\ Plain(s, a, b, o) /\ Sizes(m, sc, s, b) /\ Kinds(m, sc, a)
    /\ Len(a) = x.sent /\ x.log <= Len(b)
    /\ x.step \in {"hash", "done"} /\ x.log > 0 => a[x.sent].body = b
    /\ \/ s.step \in Exceptions
       \/ /\ Exact(m, sc, x, s, b) /\ Values(m, s, o) /\ Paired(b)
          /\ Fits(m, p, s, a[Len(a)].body, Len(a), b)

Running(s) == s.step \in Steps

\* Who has thrown does not go on.
LEMMA StepKinds ==
    ASSUME NEW e \in Steps
    PROVE  e \notin Exceptions
  BY DEF Steps, Exceptions

\* The message sent with the next step.
Out(z, out, body) ==
    out = IF Waiting(z) THEN <<[kind |-> KindFor(z.step), body |-> body]>> ELSE <<>>

Logs(x) == x.step \in {"comm", "seedcomm", "open", "seedopen"}

\* A party that goes on arrives at the next position.
LEMMA Arrive ==
    ASSUME NEW m \in Modes, NEW sc \in Scripts, NEW p, NEW x, NEW s, NEW a, NEW b, NEW o,
           Local(m, sc, p, x, s, a, b, o), Paired(b), Len(b) = x.log,
           x.step # "done", x.step = "call" => x.op < Len(sc),
           NEW z, z = Advance(m, sc, x),
           NEW t, NEW out, NEW v, NEW c, NEW w, NEW body,
           IsState(t), ASeq(t.macs), ASeq(t.vals), ASeq(t.shares), ASeq(w),
           c = IF Logs(x) THEN Append(b, v) ELSE b,
           Logs(x) /\ Odd(x.log) => v[Faulty] = b[Len(b)][Faulty] /\ v[Faulty].by = Faulty,
           Sizes(m, sc, t, c), Exact(m, sc, z, t, c), Values(m, t, w), Out(z, out, body),
           Waiting(z) => Fits(m, p, t, body, x.sent + 1, c)
    PROVE  Local(m, sc, p, z, t, a \o out, c, w)
<1>1. x \in Course(m, sc) /\ z \in Course(m, sc) /\ x \in Position(sc) /\ z \in Position(sc)
  BY CourseFacts DEF Local
<1>2. /\ z.sent >= x.sent /\ z.log = Len(c)
      /\ (Waiting(z) => z.sent = x.sent + 1) /\ (~ Waiting(z) => z.sent = x.sent)
  <2>1. Onwards(sc, x, z)
    BY <1>1, Forward
  <2>2. QED BY <2>1 DEF Onwards, Exact
<1>3. /\ ASeq(a) /\ ASeq(b) /\ Len(a) = x.sent /\ Kinds(m, sc, a)
      /\ x.sent \in Nat /\ x.log \in Nat
  BY <1>1 DEF Local, Plain, Position
<1>4. ASeq(c) /\ Len(c) >= x.log
  BY <1>3, AppendFacts
<1>5. ASeq(a \o out) /\ Len(a \o out) = z.sent
  <2>1. CASE Waiting(z)
    <3>1. out = <<[kind |-> KindFor(z.step), body |-> body]>>
      BY <2>1 DEF Out
    <3>2. a \o out = Append(a, [kind |-> KindFor(z.step), body |-> body])
      BY <1>3, <3>1, AppendFacts
    <3>3. QED BY <1>2, <1>3, <2>1, <3>2, AppendFacts
  <2>2. CASE ~ Waiting(z)
    <3>1. out = <<>>
      BY <2>2 DEF Out
    <3>2. a \o out = a
      BY <1>3, <3>1, AppendFacts
    <3>3. QED BY <1>2, <1>3, <2>2, <3>2
  <2>3. QED BY <2>1, <2>2
<1>6. /\ \A k \in 1 .. x.sent : (a \o out)[k] = a[k]
      /\ Waiting(z) => /\ (a \o out)[z.sent] = [kind |-> KindFor(z.step), body |-> body]
                       /\ (a \o out)[z.sent].body = body
  <2>1. CASE Waiting(z)
    <3>1. PICK g : g = [kind |-> KindFor(z.step), body |-> body]
      OBVIOUS
    <3>2. out = <<g>>
      BY <2>1, <3>1 DEF Out
    <3>3. a \o out = Append(a, g)
      BY <1>3, <3>2, AppendFacts
    <3>4. (a \o out)[z.sent] = g /\ \A k \in 1 .. x.sent : (a \o out)[k] = a[k]
      BY <1>2, <1>3, <2>1, <3>3, AppendFacts
    <3>5. g.body = body
      BY <3>1
    <3>6. QED BY <3>1, <3>4, <3>5
  <2>2. CASE ~ Waiting(z)
    <3>1. out = <<>>
      BY <2>2 DEF Out
    <3>2. a \o out = a
      BY <1>3, <3>1, AppendFacts
    <3>3. QED BY <2>2, <3>2
  <2>3. QED BY <2>1, <2>2
<1>7. Kinds(m, sc, a \o out)
  <2>1. ASSUME NEW k \in 1 .. z.sent
        PROVE  \E y \in Course(m, sc) :
                  /\ Waiting(y) /\ y.sent = k
                  /\ (a \o out)[k] = [kind |-> KindFor(y.step), body |-> (a \o out)[k].body]
    <3>1. CASE k \in 1 .. x.sent
      BY <1>3, <1>6, <3>1 DEF Kinds
    <3>2. CASE ~ k \in 1 .. x.sent
      <4>1. Waiting(z) /\ k = z.sent
        BY <1>2, <1>3, <3>2
      <4>2. QED BY <1>1, <1>6, <4>1
    <3>3. QED BY <3>1, <3>2
  <2>2. QED BY <1>5, <2>1 DEF Kinds
<1>8. Paired(c)
  <2>1. CASE Logs(x)
    <3>1. c = Append(b, v) /\ Len(c) = x.log + 1
      BY <1>3, <2>1, AppendFacts
    <3>2. \A j \in 1 .. x.log : c[j] = b[j]
      BY <1>3, <3>1, AppendFacts
    <3>3. c[x.log + 1] = v
      BY <1>3, <3>1, AppendFacts
    <3>4. Odd(x.log + 1) <=> ~ Odd(x.log)
      BY <1>3, Parity
    <3>5. ~ Odd(0) /\ Odd(1)
      BY DEF Odd
    <3>6. ASSUME NEW j \in 1 .. Len(c), ~ Odd(j)
          PROVE  c[j][Faulty] = c[j - 1][Faulty] /\ c[j][Faulty].by = Faulty
      <4>1. j # 1
        BY <3>5, <3>6
      <4>2. CASE j = x.log + 1
        <5>1. Odd(x.log) /\ x.log \in 1 .. x.log /\ j - 1 = x.log
          BY <1>3, <3>1, <3>4, <3>5, <3>6, <4>1, <4>2
        <5>2. c[j - 1] = b[x.log] /\ c[j] = v
          BY <3>2, <3>3, <4>2, <5>1
        <5>3. QED BY <2>1, <5>1, <5>2
      <4>3. CASE j # x.log + 1
        <5>1. j \in 1 .. x.log /\ j - 1 \in 1 .. x.log
          BY <1>3, <3>1, <4>1, <4>3
        <5>2. QED BY <3>2, <3>6, <5>1 DEF Paired
      <4>4. QED BY <4>2, <4>3
    <3>7. QED BY <3>6 DEF Paired
  <2>2. CASE ~ Logs(x)
    BY <2>2
  <2>3. QED BY <2>1, <2>2
<1>9. z.step \in {"hash", "done"} /\ z.log > 0 => (a \o out)[z.sent].body = c
  <2>1. CASE z.step = "hash"
    <3>1. Waiting(z) /\ t.step = "hash"
      BY <2>1 DEF Waiting, Exact
    <3>2. Fits(m, p, t, body, x.sent + 1, c)
      BY <3>1
    <3>3. body = c
      BY <3>1, <3>2 DEF Fits
    <3>4. QED BY <1>6, <3>1, <3>3
  <2>2. CASE z.step = "done" /\ z.log > 0
    <3>1. x.step = "hash"
      <4>1. CASE x.step = "call"
        <5>1. z.log = x.log /\ z.step = (IF x.log = 0 THEN "done" ELSE z.step)
          BY <1>1, <2>2, <4>1, CallIs
        <5>2. z.step = "done" => x.log = 0
          BY <1>1, <4>1, CallIs
        <5>3. QED BY <1>3, <2>2, <5>1, <5>2
      <4>2. CASE x.step = "shares"
        BY <1>1, <2>2, <4>2, SharesIs
      <4>3. CASE x.step \in {"seedcomm", "seedopen", "pj", "comm", "open", "hash"}
        BY <1>1, <2>2, <4>3, RoundIs
      <4>4. QED BY <1>1, <4>1, <4>2, <4>3 DEF Position, Steps
    <3>2. c = b /\ z.sent = x.sent
      BY <1>2, <2>2, <3>1 DEF Logs, Waiting
    <3>3. x.log > 0 /\ a[x.sent].body = b
      BY <2>2, <3>1, <3>2, <1>2 DEF Local
    <3>4. x.sent \in 1 .. x.sent
      <4>1. Waiting(x)
        BY <3>1 DEF Waiting
      <4>2. x # Beginning
        BY <3>1, BeginningFacts
      <4>3. x \in From(m, sc, Beginning) /\ Beginning.sent = 0 /\ Beginning \in Position(sc)
        BY <1>1, BeginningFacts DEF Course
      <4>4. x.sent > 0
        BY <4>1, <4>2, <4>3, Monotone
      <4>5. QED BY <1>3, <4>4
    <3>5. QED BY <1>6, <3>2, <3>3, <3>4
  <2>3. QED BY <2>1, <2>2
<1>10. Fits(m, p, t, (a \o out)[Len(a \o out)].body, Len(a \o out), c)
  <2>1. CASE Waiting(z)
    <3>1. (a \o out)[Len(a \o out)].body = body /\ Len(a \o out) = x.sent + 1
      BY <1>2, <1>5, <1>6, <2>1
    <3>2. QED BY <2>1, <3>1
  <2>2. CASE ~ Waiting(z)
    BY <2>2 DEF Fits, Waiting, Exact
  <2>3. QED BY <2>1, <2>2
<1>11. Plain(t, a \o out, c, w)
  BY <1>4, <1>5 DEF Plain
<1>12. z.log <= Len(c)
  BY <1>1, <1>2 DEF Position
<1>13. Len(a \o out) = z.sent
  BY <1>5
<1>14. QED BY <1>1, <1>7, <1>8, <1>9, <1>10, <1>11, <1>12, <1>13, Zenon DEF Local

\* A party that throws stays at its position.
LEMMA Throw ==
    ASSUME NEW m, NEW sc \in Scripts, NEW p, NEW x, NEW s, NEW a, NEW b, NEW o,
           Local(m, sc, p, x, s, a, b, o), NEW t, NEW c, NEW w, t.step \in Exceptions,
           IsState(t), ASeq(t.macs), ASeq(t.vals), ASeq(t.shares), ASeq(c), ASeq(w),
           Len(c) >= Len(b), c = b \/ x.step \notin {"hash", "done"}, Sizes(m, sc, t, c)
    PROVE  Local(m, sc, p, x, t, a, c, w)
<1>1. x.log \in Nat /\ Len(b) \in Nat /\ Len(c) \in Nat
  BY CourseFacts, SeqFacts DEF Local, Plain, Position
<1>2. QED BY <1>1 DEF Local, Plain

-----------------------------------------------------------------------------
(* What the operators of a check return.                                   *)

\* The parts of a state that a check does not change before its end.
Keeps(s, t) ==
    /\ t.op = s.op /\ t.macs = s.macs /\ t.vals = s.vals /\ t.shares = s.shares
    /\ t.cnt = s.cnt /\ t.next = s.next /\ t.checked = s.checked

\* A new step changes nothing else.
LEMMA StepOnly ==
    ASSUME NEW s, IsState(s), NEW v, NEW t, t = [s EXCEPT !.step = v]
    PROVE  /\ IsState(t) /\ Keeps(s, t) /\ t.step = v
           /\ t.seed = s.seed /\ t.pj = s.pj /\ t.comms = s.comms
<1>1. t = [op |-> s.op, step |-> v, macs |-> s.macs, vals |-> s.vals, shares |-> s.shares,
           cnt |-> s.cnt, next |-> s.next, seed |-> s.seed, pj |-> s.pj, comms |-> s.comms,
           checked |-> s.checked]
  BY DEF IsState
<1>2. QED BY <1>1 DEF IsState, Keeps

\* Nor does a new seed.
LEMMA SeedSet ==
    ASSUME NEW s, IsState(s), NEW v, NEW w, NEW t, t = [s EXCEPT !.seed = v, !.pj = w]
    PROVE  /\ IsState(t) /\ Keeps(s, t) /\ t.step = s.step
           /\ t.seed = v /\ t.pj = w /\ t.comms = s.comms
<1>1. t = [op |-> s.op, step |-> s.step, macs |-> s.macs, vals |-> s.vals, shares |-> s.shares,
           cnt |-> s.cnt, next |-> s.next, seed |-> v, pj |-> w, comms |-> s.comms,
           checked |-> s.checked]
  BY DEF IsState
<1>2. QED BY <1>1 DEF IsState, Keeps

\* What a party commits to depends on these parts, the seed and pj.
LEMMA KeepsAll ==
    ASSUME NEW m, NEW s, NEW t, NEW o, Keeps(s, t), t.seed = s.seed, t.pj = s.pj
    PROVE  DataOf(m, t) = DataOf(m, s)
  BY DEF Keeps, DataOf

\* Values that wait keep waiting.
LEMMA KeepsValues ==
    ASSUME NEW m, NEW s, NEW t, NEW o, Keeps(s, t), Values(m, s, o)
    PROVE  Values(m, t, o)
  BY DEF Keeps, Values

\* They are as many as before.
LEMMA KeepsSizes ==
    ASSUME NEW m, NEW sc, NEW s, NEW t, NEW b, Keeps(s, t), Sizes(m, sc, s, b)
    PROVE  Sizes(m, sc, t, b)
  BY DEF Keeps, Sizes

\* One after the other.
LEMMA KeepsTransitive ==
    ASSUME NEW s, NEW t, NEW u, Keeps(s, t), Keeps(t, u)
    PROVE  Keeps(s, u)
  BY DEF Keeps

\* The commitment to a coin.
LEMMA SeedCommIs ==
    ASSUME NEW p, NEW s, NEW k, IsState(s), NEW r, r = SeedComm(p, s, k)
    PROVE  /\ IsState(r.s) /\ Keeps(s, r.s) /\ r.s.step = "seedcomm"
           /\ r.out = <<[kind |-> "comm", body |-> Commit(p, Coin(p, k), k)]>>
<1>1. PICK t : t = [s EXCEPT !.step = "seedcomm"]
  OBVIOUS
<1>2. r.s = t /\ r.out = <<[kind |-> "comm", body |-> Commit(p, Coin(p, k), k)]>>
  BY <1>1 DEF SeedComm, Message
<1>3. QED BY <1>1, <1>2, StepOnly

\* The commitment to a delta.
LEMMA CheckCommIs ==
    ASSUME NEW m, mode = m, NEW p, NEW s, NEW k, IsState(s), NEW r, r = CheckComm(p, s, k)
    PROVE  /\ IsState(r.s) /\ Keeps(s, r.s) /\ r.s.step = "comm"
           /\ r.s.seed = s.seed /\ r.s.pj = s.pj
           /\ r.out = <<[kind |-> "comm", body |-> Commit(p, DataOf(m, r.s), k)]>>
<1>1. PICK t : t = [s EXCEPT !.step = "comm"]
  OBVIOUS
<1>2. CheckData(s) = DataOf(m, s)
  BY DEF CheckData, DataOf, ShareOf
<1>3. IsState(t) /\ Keeps(s, t) /\ t.step = "comm" /\ t.seed = s.seed /\ t.pj = s.pj
  BY <1>1, StepOnly
<1>4. DataOf(m, t) = DataOf(m, s)
  BY <1>3, KeepsAll
<1>5. r.s = t /\ r.out = <<[kind |-> "comm", body |-> Commit(p, DataOf(m, s), k)]>>
  BY <1>1, <1>2 DEF CheckComm, Message
<1>6. QED BY <1>3, <1>4, <1>5

\* How a check begins, in round k, if limit values wait.
Begins(m, p, s, k, r, limit) ==
    /\ IsState(r.s) /\ Keeps(s, r.s)
    /\ r.s.step = IF s.cnt < limit THEN "call"
                  ELSE IF Seeded(m, s.cnt) THEN "seedcomm" ELSE "comm"
    /\ \E body :
          /\ r.out = IF s.cnt < limit THEN <<>> ELSE <<[kind |-> "comm", body |-> body]>>
          /\ r.s.step = "seedcomm" => body = Commit(p, Coin(p, k), k)
          /\ r.s.step = "comm" =>
                /\ body = Commit(p, DataOf(m, r.s), k)
                /\ r.s.seed = <<>> /\ r.s.pj = 0

Waits(s) ==
    /\ IsState(s) /\ Len(s.macs) = s.cnt /\ Len(s.vals) = s.cnt /\ s.cnt \in Nat

\* Check, if anything waits.
LEMMA BeginCheckIs ==
    ASSUME NEW m, mode = m, NEW p, NEW s, NEW k, Waits(s), NEW r, r = BeginCheck(p, s, k)
    PROVE  Begins(m, p, s, k, r, 1)
<1>1. WaitingForCheck(s) = s.cnt /\ IsState(s) /\ s.cnt \in Nat
  BY DEF WaitingForCheck, Waits
<1>2. CASE s.cnt = 0
  <2>1. PICK t : t = [s EXCEPT !.step = "call"]
    OBVIOUS
  <2>2. r.s = t /\ r.out = <<>>
    BY <1>1, <1>2, <2>1 DEF BeginCheck
  <2>3. IsState(t) /\ Keeps(s, t) /\ t.step = "call"
    BY <1>1, <2>1, StepOnly
  <2>4. QED BY <1>2, <2>2, <2>3 DEF Begins
<1>3. CASE ~ s.cnt < 1 /\ Seeded(m, s.cnt)
  <2>1. r = SeedComm(p, s, k)
    <3>1. WaitingForCheck(s) # 0 /\ (mode = "z2k" \/ s.cnt >= SmallBatch)
      BY <1>1, <1>3 DEF Seeded
    <3>2. QED BY <3>1, Zenon DEF BeginCheck
  <2>2. /\ IsState(r.s) /\ Keeps(s, r.s) /\ r.s.step = "seedcomm"
        /\ r.out = <<[kind |-> "comm", body |-> Commit(p, Coin(p, k), k)]>>
    BY <1>1, <2>1, SeedCommIs
  <2>3. QED BY <1>3, <2>2 DEF Begins
<1>4. CASE ~ s.cnt < 1 /\ ~ Seeded(m, s.cnt)
  <2>1. PICK t : t = [s EXCEPT !.seed = <<>>, !.pj = 0]
    OBVIOUS
  <2>2. r = CheckComm(p, t, k)
    <3>1. mode # "z2k" /\ ~ s.cnt >= SmallBatch /\ WaitingForCheck(s) # 0
      BY <1>1, <1>4 DEF Seeded
    <3>2. BeginCheck(p, s, k) = CheckComm(p, [s EXCEPT !.seed = <<>>, !.pj = 0], k)
      BY <3>1, Zenon DEF BeginCheck
    <3>3. QED BY <2>1, <3>2
  <2>3. IsState(t) /\ Keeps(s, t) /\ t.seed = <<>> /\ t.pj = 0
    <3>1. PICK v, w : v = <<>> /\ w = 0
      OBVIOUS
    <3>2. t = [s EXCEPT !.seed = v, !.pj = w]
      BY <2>1, <3>1
    <3>3. IsState(t) /\ Keeps(s, t)
      BY <1>1, <3>2, SeedSet
    <3>4. t.seed = v /\ t.pj = w
      BY <1>1, <3>2 DEF IsState
    <3>5. QED BY <3>1, <3>3, <3>4
  <2>4. /\ IsState(r.s) /\ Keeps(t, r.s) /\ r.s.step = "comm"
        /\ r.s.seed = <<>> /\ r.s.pj = 0
        /\ r.out = <<[kind |-> "comm", body |-> Commit(p, DataOf(m, r.s), k)]>>
    BY <2>2, <2>3, CheckCommIs
  <2>5. Keeps(s, r.s)
    BY <2>3, <2>4, KeepsTransitive
  <2>6. QED BY <1>4, <2>4, <2>5 DEF Begins
<1>5. QED BY <1>1, <1>2, <1>3, <1>4

\* CheckIfNeeded, if PopenMax values wait.
LEMMA CheckIfNeededIs ==
    ASSUME NEW m, mode = m, NEW p, NEW s, NEW k, Waits(s), NEW r, r = CheckIfNeeded(p, s, k)
    PROVE  Begins(m, p, s, k, r, PopenMax)
<1>1. WaitingForCheck(s) = s.cnt /\ IsState(s) /\ s.cnt \in Nat
  BY DEF WaitingForCheck, Waits
<1>2. PopenMax \in Nat /\ PopenMax > 0
  BY LimitAssumption
<1>3. CASE ~ s.cnt < PopenMax
  <2>1. r = BeginCheck(p, s, k)
    BY <1>1, <1>2, <1>3 DEF CheckIfNeeded
  <2>2. Begins(m, p, s, k, r, 1)
    BY <2>1, BeginCheckIs
  <2>3. ~ s.cnt < 1
    BY <1>1, <1>2, <1>3
  <2>4. QED BY <1>3, <2>2, <2>3 DEF Begins
<1>4. CASE s.cnt < PopenMax
  <2>1. PICK t : t = [s EXCEPT !.step = "call"]
    OBVIOUS
  <2>2. r.s = t /\ r.out = <<>>
    BY <1>1, <1>2, <1>4, <2>1 DEF CheckIfNeeded
  <2>3. IsState(t) /\ Keeps(s, t) /\ t.step = "call"
    BY <1>1, <2>1, StepOnly
  <2>4. QED BY <1>4, <2>2, <2>3 DEF Begins
<1>5. QED BY <1>3, <1>4

\* Values leave when they have been checked.
Erased(s, t, v) ==
    /\ IsState(t) /\ t.op = s.op /\ t.step = v /\ t.cnt = 0 /\ t.next = s.next
    /\ t.checked = s.checked /\ ASeq(t.macs) /\ ASeq(t.vals) /\ ASeq(t.shares)
    /\ Len(t.macs) = 0 /\ Len(t.vals) = 0 /\ Len(t.shares) = 0

\* Erase leaves none of them.
LEMMA EraseIs ==
    ASSUME NEW s, IsState(s), ASeq(s.macs), ASeq(s.vals), ASeq(s.shares),
           s.cnt \in Nat, Len(s.macs) = s.cnt, Len(s.vals) = s.cnt,
           Len(s.shares) \in {0, s.cnt}, NEW v, NEW t, t = [Erase(s) EXCEPT !.step = v]
    PROVE  Erased(s, t, v)
<1>1. PICK c, d, e : /\ c = SubSeq(s.macs, s.cnt + 1, Len(s.macs))
                     /\ d = SubSeq(s.vals, s.cnt + 1, Len(s.vals))
                     /\ e = SubSeq(s.shares, s.cnt + 1, Len(s.shares))
  OBVIOUS
<1>2. ASeq(c) /\ Len(c) = 0 /\ ASeq(d) /\ Len(d) = 0
  BY <1>1, SuffixFacts
<1>3. ASeq(e) /\ Len(e) = 0
  <2>1. CASE Len(s.shares) = s.cnt
    BY <1>1, <2>1, SuffixFacts
  <2>2. CASE Len(s.shares) = 0
    <3>1. PICK S : s.shares \in Seq(S)
      BY DEF ASeq
    <3>2. e = <<>>
      BY <1>1, <2>2, <3>1, s.cnt + 1 > 0
    <3>3. QED BY <3>2, ShortSeqs
  <2>3. QED BY <2>1, <2>2
<1>4. PICK u : u = Erase(s)
  OBVIOUS
<1>5. u = [op |-> s.op, step |-> s.step, macs |-> c, vals |-> d, shares |-> e,
           cnt |-> 0, next |-> s.next, seed |-> s.seed, pj |-> s.pj, comms |-> s.comms,
           checked |-> s.checked]
  <2>1. /\ s.macs = s["macs"] /\ s.vals = s["vals"] /\ s.shares = s["shares"]
    OBVIOUS
  <2>2. u = [s EXCEPT !.macs = c, !.vals = d, !.shares = e, !.cnt = 0]
    BY <1>1, <1>4 DEF Erase
  <2>3. QED BY <2>2 DEF IsState
<1>6. /\ IsState(u) /\ u.op = s.op /\ u.cnt = 0 /\ u.next = s.next /\ u.checked = s.checked
      /\ u.macs = c /\ u.vals = d /\ u.shares = e
  BY <1>5 DEF IsState
<1>7. t = [u EXCEPT !.step = v]
  BY <1>4
<1>8. IsState(t) /\ Keeps(u, t)
  BY <1>6, <1>7, StepOnly
<1>9. t.step = v
  BY <1>6, <1>7, StepOnly
<1>10. QED BY <1>2, <1>3, <1>6, <1>8, <1>9 DEF Keeps, Erased

-----------------------------------------------------------------------------
(* One party makes one step.                                               *)

\* The position a party that runs is at.
LEMMA RunningAt ==
    ASSUME NEW m \in Modes, NEW sc \in Scripts, NEW p, NEW x, NEW s, NEW a, NEW b, NEW o,
           Local(m, sc, p, x, s, a, b, o), s.step \in Steps
    PROVE  /\ x \in Position(sc) /\ Regular(m, sc, x)
           /\ Plain(s, a, b, o) /\ Sizes(m, sc, s, b) /\ Len(a) = x.sent /\ x.sent \in Nat
           /\ x.cnt \in Nat /\ x.next \in Nat /\ x.log \in Nat
           /\ x.op \in Nat /\ x.op <= Len(sc) /\ Len(sc) \in Nat
           /\ Exact(m, sc, x, s, b) /\ Values(m, s, o) /\ Paired(b)
           /\ Fits(m, p, s, a[Len(a)].body, Len(a), b)
<1>1. x \in Position(sc) /\ Regular(m, sc, x)
  BY CourseFacts, CourseRegular DEF Local
<1>2. s.step \notin Exceptions
  BY StepKinds
<1>3. /\ x.sent \in Nat /\ x.cnt \in Nat /\ x.next \in Nat /\ x.log \in Nat
      /\ x.op \in Nat /\ x.op <= Len(sc) /\ Len(sc) \in Nat
  <2>1. x.op \in 0 .. Len(sc) /\ Len(sc) \in Nat
    BY <1>1, ScriptFacts DEF Position
  <2>2. QED BY <1>1, <2>1 DEF Position
<1>4. QED BY <1>1, <1>2, <1>3 DEF Local

\* Where a call begins.
LEMMA BegunIs ==
    ASSUME NEW s, IsState(s), NEW t, t = [s EXCEPT !.op = @ + 1]
    PROVE  /\ IsState(t) /\ t.op = s.op + 1 /\ t.step = s.step
           /\ t.macs = s.macs /\ t.vals = s.vals /\ t.shares = s.shares
           /\ t.cnt = s.cnt /\ t.next = s.next /\ t.checked = s.checked
           /\ t.seed = s.seed /\ t.pj = s.pj /\ t.comms = s.comms
<1>1. t = [op |-> s.op + 1, step |-> s.step, macs |-> s.macs, vals |-> s.vals,
           shares |-> s.shares, cnt |-> s.cnt, next |-> s.next, seed |-> s.seed, pj |-> s.pj,
           comms |-> s.comms, checked |-> s.checked]
  BY DEF IsState
<1>2. QED BY <1>1 DEF IsState

\* The round of the next message.
NextRound(a) == Len(a) + 1

\* A check begins, or the party goes on to the next call.
LEMMA Checking ==
    ASSUME NEW m \in Modes, NEW sc \in Scripts, NEW p, NEW x, NEW s, NEW a, NEW b, NEW o,
           Local(m, sc, p, x, s, a, b, o), s.step \in {"call", "shares"},
           x.step = "call" => x.op < Len(sc),
           NEW z, z = Advance(m, sc, x), NEW u, NEW w, NEW r, NEW limit,
           Waits(u), ASeq(u.macs), ASeq(u.vals), ASeq(u.shares), ASeq(w),
           Len(u.shares) = IF m = "z2k" THEN Len(u.macs) ELSE 0,
           u.op = z.op, u.cnt = z.cnt, u.next = z.next, u.checked = 0, Values(m, u, w),
           z.step = IF u.cnt < limit THEN "call" ELSE IF Seeded(m, z.cnt) THEN "seedcomm" ELSE "comm",
           Begins(m, p, u, NextRound(a), r, limit)
    PROVE  Local(m, sc, p, z, r.s, a \o r.out, b, w)
<1>1. /\ x \in Position(sc) /\ Plain(s, a, b, o) /\ Len(a) = x.sent /\ Exact(m, sc, x, s, b)
      /\ Paired(b) /\ x.log \in Nat
  BY RunningAt DEF Steps
<1>2. x.step \in {"call", "shares"} /\ ~ Logs(x) /\ Len(b) = x.log /\ x.step # "done"
  BY <1>1 DEF Exact, Logs
<1>3. z \in Position(sc) /\ z.log = x.log
  <2>1. Onwards(sc, x, z)
    BY <1>1, <1>2, Forward
  <2>2. QED BY <1>2, <2>1 DEF Onwards
<1>4. IsState(r.s) /\ Keeps(u, r.s) /\ r.s.step = z.step
  BY DEF Begins
<1>5. PICK t, out : t = r.s /\ out = r.out
  OBVIOUS
<1>6. PICK body : /\ out = IF u.cnt < limit THEN <<>> ELSE <<[kind |-> "comm", body |-> body]>>
                  /\ t.step = "seedcomm" => body = Commit(p, Coin(p, Len(a) + 1), Len(a) + 1)
                  /\ t.step = "comm" => body = Commit(p, DataOf(m, t), Len(a) + 1)
  BY <1>5 DEF Begins, NextRound
<1>7. Values(m, t, w)
  BY <1>4, <1>5, KeepsValues
<1>8. ASeq(t.macs) /\ ASeq(t.vals) /\ ASeq(t.shares)
  BY <1>4, <1>5 DEF Keeps
<1>9. Sizes(m, sc, t, b)
  <2>1. z.op \in 0 .. Len(sc)
    BY <1>3 DEF Position
  <2>2. 0 \in 0 .. Len(b) /\ u.cnt \in Nat
    BY <1>2, <1>1 DEF Waits
  <2>3. QED BY <1>4, <1>5, <2>1, <2>2 DEF Sizes, Keeps, Waits
<1>10. Exact(m, sc, z, t, b)
  <2>1. z.step # "shares"
    OBVIOUS
  <2>2. QED BY <1>2, <1>3, <1>4, <1>5, <2>1 DEF Exact, Keeps, Waits
<1>11. Out(z, out, body)
  <2>1. CASE ~ u.cnt < limit
    <3>1. Waiting(z) /\ KindFor(z.step) = "comm"
      BY <2>1 DEF Waiting, KindFor
    <3>2. QED BY <1>6, <2>1, <3>1 DEF Out
  <2>2. CASE u.cnt < limit
    BY <1>6, <2>2 DEF Out, Waiting
  <2>3. QED BY <2>1, <2>2
<1>12. Waiting(z) => Fits(m, p, t, body, x.sent + 1, b)
  <2>1. t.step \in {"call", "seedcomm", "comm"}
    BY <1>4, <1>5
  <2>2. QED BY <1>1, <1>6, <2>1 DEF Fits
<1>13. IsState(t)
  BY <1>4, <1>5
<1>14. Local(m, sc, p, z, t, a \o out, b, w)
  <2>1. PICK v : b = IF Logs(x) THEN Append(b, v) ELSE b
    BY <1>2
  <2>2. Logs(x) /\ Odd(x.log) => v[Faulty] = b[Len(b)][Faulty] /\ v[Faulty].by = Faulty
    BY <1>2
  <2>3. x.step = "call" => x.op < Len(sc)
    OBVIOUS
  <2>4. Local(m, sc, p, x, s, a, b, o) /\ Paired(b) /\ Len(b) = x.log
    BY <1>1, <1>2
  <2>5. QED BY <1>2, <1>7, <1>8, <1>9, <1>10, <1>11, <1>12, <1>13, <2>1, <2>2, <2>3, <2>4, Arrive
<1>15. QED BY <1>5, <1>14

\* An opening begins.
LEMMA OpenLocal ==
    ASSUME NEW m \in Modes, mode = m, NEW sc \in Scripts, NEW p, NEW x, NEW s, NEW a, NEW b, NEW o,
           Local(m, sc, p, x, s, a, b, o), s.step = "call", s.op < Len(sc),
           NEW n, sc[s.op + 1].do = "open", n = sc[s.op + 1].n,
           NEW u, u = [s EXCEPT !.op = @ + 1], NEW t, t = PrepareOpen(u, n),
           NEW out, out = Message("share", s.next)
    PROVE  Local(m, sc, p, Advance(m, sc, x), t, a \o out, b, o)
<1>1. PICK z : z = Advance(m, sc, x)
  OBVIOUS
<1>2. /\ x \in Position(sc) /\ Regular(m, sc, x)
      /\ Plain(s, a, b, o) /\ Sizes(m, sc, s, b) /\ Len(a) = x.sent
      /\ x.cnt \in Nat /\ x.next \in Nat /\ x.log \in Nat /\ x.op \in Nat /\ Len(sc) \in Nat
      /\ Exact(m, sc, x, s, b) /\ Values(m, s, o) /\ Paired(b)
  BY RunningAt DEF Steps
<1>3. /\ x.step = "call" /\ s.op = x.op /\ s.cnt = x.cnt /\ s.next = x.next /\ Len(b) = x.log
      /\ Len(s.macs) = x.cnt /\ s.checked = 0
  BY <1>2 DEF Exact
<1>4. x.op + 1 \in 1 .. Len(sc) /\ n \in Nat
  <2>1. x.op + 1 \in 1 .. Len(sc)
    BY <1>2, <1>3
  <2>2. QED BY <1>3, <2>1, ScriptFacts
<1>5. /\ z.op = x.op + 1 /\ z.cnt = x.cnt /\ z.next = x.next + n /\ z.log = x.log
      /\ z.step = "shares"
  BY <1>1, <1>2, <1>3, CallIs
<1>6. PICK ids : ids = [i \in 1 .. n |-> u.next + i - 1]
  OBVIOUS
<1>7. u.next = x.next
  BY <1>2, <1>3, BegunIs DEF Plain
<1>8. ASeq(ids) /\ Len(ids) = n /\ \A i \in 1 .. n : ids[i] = x.next + i - 1
  BY <1>4, <1>6, <1>7, FunctionSeq
<1>9. PICK c, d : c = s.macs \o ids /\ d = IF m = "z2k" THEN s.shares \o ids ELSE s.shares
  OBVIOUS
<1>10. t = [u EXCEPT !.macs = c, !.next = u.next + n, !.step = "shares", !.shares = d]
  <2>1. t = [u EXCEPT !.macs = u.macs \o ids, !.next = u.next + n, !.step = "shares",
                      !.shares = IF m = "z2k" THEN u.shares \o ids ELSE u.shares]
    BY <1>6 DEF PrepareOpen
  <2>2. u.macs = s.macs /\ u.shares = s.shares
    BY <1>2, BegunIs DEF Plain
  <2>3. u.macs \o ids = c /\ (IF m = "z2k" THEN u.shares \o ids ELSE u.shares) = d
    BY <1>9, <2>2
  <2>4. QED BY <2>1, <2>3
<1>11. /\ IsState(t) /\ t.op = x.op + 1 /\ t.step = "shares" /\ t.macs = c /\ t.vals = s.vals
       /\ t.shares = d /\ t.cnt = s.cnt /\ t.next = x.next + n /\ t.checked = 0
  <2>1. /\ IsState(u) /\ u.op = x.op + 1 /\ u.vals = s.vals /\ u.cnt = s.cnt /\ u.next = x.next
        /\ u.checked = 0
    BY <1>2, <1>3, BegunIs DEF Plain
  <2>2. t = [op |-> u.op, step |-> "shares", macs |-> c, vals |-> u.vals, shares |-> d,
             cnt |-> u.cnt, next |-> u.next + n, seed |-> u.seed, pj |-> u.pj,
             comms |-> u.comms, checked |-> u.checked]
    BY <1>10, <2>1 DEF IsState
  <2>3. QED BY <2>1, <2>2 DEF IsState
<1>12. /\ ASeq(c) /\ Len(c) = x.cnt + n /\ \A i \in 1 .. x.cnt : c[i] = s.macs[i]
       /\ \A i \in 1 .. n : c[x.cnt + i] = ids[i]
  <2>1. ASeq(s.macs) /\ Len(s.macs) = x.cnt /\ c = s.macs \o ids
    BY <1>2, <1>3, <1>9 DEF Plain
  <2>2. Joins(s.macs, ids, c)
    BY <1>8, <2>1, Joined
  <2>3. QED BY <1>8, <2>1, <2>2 DEF Joins
<1>13. /\ ASeq(d) /\ Len(d) = IF m = "z2k" THEN x.cnt + n ELSE 0
       /\ m = "z2k" => /\ \A i \in 1 .. x.cnt : d[i] = s.shares[i]
                       /\ \A i \in 1 .. n : d[x.cnt + i] = ids[i]
  <2>1. CASE m = "z2k"
    <3>1. ASeq(s.shares) /\ Len(s.shares) = x.cnt
      BY <1>2, <1>3, <2>1 DEF Plain, Sizes
    <3>2. d = s.shares \o ids
      BY <1>9, <2>1
    <3>3. Joins(s.shares, ids, d)
      BY <1>8, <3>1, <3>2, Joined
    <3>4. QED BY <1>8, <2>1, <3>1, <3>3 DEF Joins
  <2>2. CASE m # "z2k"
    BY <1>2, <1>9, <2>2 DEF Plain, Sizes
  <2>3. QED BY <2>1, <2>2
<1>14. Values(m, t, o)
  <2>1. ASSUME NEW i \in 1 .. Len(c) PROVE c[i] = x.next + n - Len(c) + i - 1
    <3>1. CASE i \in 1 .. x.cnt
      <4>1. c[i] = s.macs[i] /\ s.macs[i] = x.next - x.cnt + i - 1
        BY <1>2, <1>3, <1>12, <3>1 DEF Values
      <4>2. QED BY <1>2, <1>4, <1>12, <3>1, <4>1
    <3>2. CASE ~ i \in 1 .. x.cnt
      <4>1. PICK j \in 1 .. n : i = x.cnt + j
        <5>1. i - x.cnt \in 1 .. n /\ i = x.cnt + (i - x.cnt)
          BY <1>2, <1>4, <1>12, <3>2
        <5>2. QED BY <5>1
      <4>2. c[i] = x.next + j - 1
        BY <1>8, <1>12, <4>1
      <4>3. j \in Nat /\ x.next \in Nat /\ x.cnt \in Nat /\ n \in Nat
        BY <1>2, <1>4
      <4>4. x.next + n - (x.cnt + n) + (x.cnt + j) - 1 = x.next + j - 1
        BY <4>3
      <4>5. QED BY <1>12, <4>1, <4>2, <4>4
    <3>3. QED BY <3>1, <3>2
  <2>2. m = "z2k" => \A i \in 1 .. Len(c) : d[i] = c[i]
    <3>1. HAVE m = "z2k"
    <3>2. TAKE i \in 1 .. Len(c)
    <3>3. CASE i \in 1 .. x.cnt
      BY <1>2, <1>3, <1>12, <1>13, <3>1, <3>3 DEF Values
    <3>4. CASE ~ i \in 1 .. x.cnt
      <4>1. PICK j \in 1 .. n : i = x.cnt + j
        <5>1. i - x.cnt \in 1 .. n /\ i = x.cnt + (i - x.cnt)
          BY <1>2, <1>4, <1>12, <3>4
        <5>2. QED BY <5>1
      <4>2. QED BY <1>12, <1>13, <3>1, <4>1
    <3>5. QED BY <3>3, <3>4
  <2>3. \A i \in 1 .. s.cnt : c[i] = s.macs[i]
    BY <1>3, <1>12
  <2>4. \A i \in 1 .. s.cnt : s.vals[i].id = c[i] /\ s.vals[i] = o[Len(o) - s.cnt + i]
    BY <1>2, <2>3 DEF Values
  <2>5. s.cnt <= Len(o) /\ \A i \in 1 .. Len(o) - s.cnt : o[i].err = 0
    BY <1>2 DEF Values
  <2>6. /\ \A i \in 1 .. Len(t.macs) : t.macs[i] = t.next - Len(t.macs) + i - 1
        /\ m = "z2k" => \A i \in 1 .. Len(t.macs) : t.shares[i] = t.macs[i]
    <3>1. /\ t.macs = c /\ t.next = x.next + n /\ t.shares = d
          /\ x.next \in Nat /\ n \in Nat /\ Len(c) \in Nat
      BY <1>2, <1>4, <1>11, <1>12
    <3>2. \A i \in 1 .. Len(t.macs) : t.macs[i] = t.next - Len(t.macs) + i - 1
      BY <2>1, <3>1
    <3>3. m = "z2k" => \A i \in 1 .. Len(t.macs) : t.shares[i] = t.macs[i]
      BY <2>2, <3>1
    <3>4. QED BY <3>2, <3>3
  <2>7. /\ \A i \in 1 .. t.cnt : t.vals[i].id = t.macs[i] /\ t.vals[i] = o[Len(o) - t.cnt + i]
        /\ t.cnt <= Len(o) /\ \A i \in 1 .. Len(o) - t.cnt : o[i].err = 0
    BY <1>11, <2>4, <2>5
  <2>8. QED BY <2>6, <2>7 DEF Values
<1>15. Sizes(m, sc, t, b)
  <2>1. x.op + 1 \in 0 .. Len(sc) /\ Len(c) >= s.cnt
    BY <1>2, <1>3, <1>4, <1>12
  <2>2. QED BY <1>2, <1>3, <1>11, <1>12, <1>13, <2>1 DEF Sizes
<1>16. Exact(m, sc, z, t, b)
  <2>1. sc[z.op].n = n
    BY <1>3, <1>5
  <2>2. QED BY <1>3, <1>5, <1>11, <1>12, <2>1 DEF Exact
<1>17. PICK body : body = s.next
  OBVIOUS
<1>18. Out(z, out, body) /\ Fits(m, p, t, body, x.sent + 1, b)
  BY <1>5, <1>11, <1>17 DEF Out, Waiting, KindFor, Message, Fits
<1>19. PICK v : b = IF Logs(x) THEN Append(b, v) ELSE b
  BY <1>3 DEF Logs
<1>20. ~ Logs(x) /\ x.step # "done" /\ (x.step = "call" => x.op < Len(sc))
  BY <1>3 DEF Logs
<1>21. ASeq(t.macs) /\ ASeq(t.vals) /\ ASeq(t.shares) /\ ASeq(o)
  BY <1>2, <1>11, <1>12, <1>13 DEF Plain
<1>22. Local(m, sc, p, z, t, a \o out, b, o)
  BY <1>1, <1>2, <1>3, <1>11, <1>14, <1>15, <1>16, <1>18, <1>19, <1>20, <1>21, Arrive
<1>23. QED BY <1>1, <1>22

\* The shares arrive.
LEMMA ExchangeLocal ==
    ASSUME NEW m \in Modes, mode = m, NEW sc \in Scripts, NEW p, NEW x, NEW s, NEW a, NEW b, NEW o,
           Local(m, sc, p, x, s, a, b, o), s.step = "shares",
           NEW n, sc[s.op].n = n,
           NEW new, ASeq(new), Len(new) = n, \A i \in 1 .. n : new[i].id = s.next - n + i - 1,
           NEW u, IsState(u), u.op = s.op, u.macs = s.macs, Joins(s.vals, new, u.vals),
           u.shares = s.shares, u.cnt = s.cnt + n, u.next = s.next, u.checked = s.checked,
           NEW w, Joins(o, new, w), NEW r, r = CheckIfNeeded(p, u, NextRound(a))
    PROVE  Local(m, sc, p, Advance(m, sc, x), r.s, a \o r.out, b, w)
<1>1. PICK z : z = Advance(m, sc, x)
  OBVIOUS
<1>2. /\ x \in Position(sc) /\ Regular(m, sc, x)
      /\ Plain(s, a, b, o) /\ Sizes(m, sc, s, b) /\ Len(a) = x.sent
      /\ Exact(m, sc, x, s, b) /\ Values(m, s, o) /\ Paired(b)
  BY RunningAt DEF Steps
<1>3. /\ x.step = "shares" /\ s.op = x.op /\ s.cnt = x.cnt /\ s.next = x.next
      /\ Len(s.macs) = x.cnt + n /\ s.checked = 0
  BY <1>2 DEF Exact
<1>4. x.cnt \in Nat /\ x.next \in Nat /\ n \in Nat
  <2>1. x.op > 0 /\ x.op <= Len(sc) /\ x.op \in Nat /\ Len(sc) \in Nat
    BY <1>2, <1>3, RunningAt DEF Regular, Steps
  <2>2. QED BY <1>2, <1>3, <2>1, ScriptFacts DEF Position
<1>5. /\ z.op = x.op /\ z.cnt = x.cnt + n /\ z.next = x.next
      /\ z.step = IF x.cnt + n < PopenMax THEN "call"
                  ELSE IF Seeded(m, x.cnt + n) THEN "seedcomm" ELSE "comm"
  BY <1>1, <1>2, <1>3, SharesIs
<1>6. ASeq(new) /\ Len(new) = n
  OBVIOUS
<1>7. \A i \in 1 .. n : new[i].id = x.next - n + i - 1
  BY <1>3
<1>8. PICK d : d = u.vals
  OBVIOUS
<1>9. /\ IsState(u) /\ u.op = x.op /\ u.macs = s.macs /\ u.vals = d /\ u.shares = s.shares
      /\ u.cnt = x.cnt + n /\ u.next = x.next /\ u.checked = 0
  BY <1>3, <1>8
<1>10. Len(s.vals) = x.cnt /\ ASeq(s.vals) /\ ASeq(s.macs) /\ ASeq(s.shares) /\ ASeq(o)
       /\ Len(o) \in Nat /\ x.cnt <= Len(o)
  BY <1>2, <1>3, SeqFacts DEF Plain, Sizes, Values
<1>11. Joins(s.vals, new, d)
  BY <1>8
<1>12. Joins(o, new, w)
  OBVIOUS
<1>13. /\ ASeq(d) /\ Len(d) = x.cnt + n /\ \A i \in 1 .. x.cnt : d[i] = s.vals[i]
       /\ \A i \in 1 .. n : d[x.cnt + i] = new[i]
  BY <1>6, <1>10, <1>11 DEF Joins
<1>14. /\ ASeq(w) /\ Len(w) = Len(o) + n /\ \A i \in 1 .. Len(o) : w[i] = o[i]
       /\ \A i \in 1 .. n : w[Len(o) + i] = new[i]
  BY <1>6, <1>12 DEF Joins
<1>15. /\ \A i \in 1 .. x.cnt + n : s.macs[i] = x.next - (x.cnt + n) + i - 1
       /\ m = "z2k" => \A i \in 1 .. x.cnt + n : s.shares[i] = s.macs[i]
       /\ \A i \in 1 .. x.cnt : s.vals[i].id = s.macs[i] /\ s.vals[i] = o[Len(o) - x.cnt + i]
       /\ \A i \in 1 .. Len(o) - x.cnt : o[i].err = 0
  BY <1>2, <1>3 DEF Values
<1>16. \A i \in 1 .. x.cnt + n : d[i].id = s.macs[i] /\ d[i] = w[Len(o) - x.cnt + i]
  <2>1. TAKE i \in 1 .. x.cnt + n
  <2>2. CASE i \in 1 .. x.cnt
    <3>1. Len(o) - x.cnt + i \in 1 .. Len(o)
      BY <1>4, <1>10, <2>2
    <3>2. d[i] = s.vals[i] /\ w[Len(o) - x.cnt + i] = o[Len(o) - x.cnt + i]
      BY <1>13, <1>14, <2>2, <3>1
    <3>3. QED BY <1>15, <2>2, <3>2
  <2>3. CASE ~ i \in 1 .. x.cnt
    <3>1. PICK j \in 1 .. n : i = x.cnt + j
      <4>1. i - x.cnt \in 1 .. n /\ i = x.cnt + (i - x.cnt)
        BY <1>4, <2>3
      <4>2. QED BY <4>1
    <3>2. d[i] = new[j] /\ new[j].id = x.next - n + j - 1
      BY <1>7, <1>13, <3>1
    <3>3. s.macs[i] = x.next - (x.cnt + n) + (x.cnt + j) - 1
      BY <1>15, <3>1
    <3>4. j \in Nat
      BY <1>4
    <3>5. x.next - (x.cnt + n) + (x.cnt + j) - 1 = x.next - n + j - 1
      BY <1>4, <3>4
    <3>6. Len(o) - x.cnt + i = Len(o) + j
      BY <1>4, <1>10, <3>1, <3>4
    <3>7. w[Len(o) - x.cnt + i] = new[j]
      BY <1>14, <3>6
    <3>8. QED BY <3>2, <3>3, <3>5, <3>7
  <2>4. QED BY <2>2, <2>3
<1>17. Values(m, u, w)
  <2>1. u.cnt <= Len(w) /\ Len(w) - u.cnt = Len(o) - x.cnt
    <3>1. u.cnt = x.cnt + n /\ Len(w) = Len(o) + n
      BY <1>9, <1>14
    <3>2. x.cnt \in Nat /\ n \in Nat /\ Len(o) \in Nat /\ x.cnt <= Len(o)
      BY <1>4, <1>10
    <3>3. x.cnt + n <= Len(o) + n
      BY <3>2
    <3>4. Len(o) + n - (x.cnt + n) = Len(o) - x.cnt
      BY <3>2
    <3>5. u.cnt <= Len(w)
      BY <3>1, <3>3
    <3>6. Len(w) - u.cnt = Len(o) - x.cnt
      BY <3>1, <3>2, <3>4
    <3>7. QED BY <3>5, <3>6
  <2>2. \A i \in 1 .. Len(u.macs) : u.macs[i] = u.next - Len(u.macs) + i - 1
    <3>1. u.macs = s.macs /\ u.next = x.next /\ Len(u.macs) = x.cnt + n
      BY <1>3, <1>9
    <3>2. QED BY <1>4, <1>15, <3>1
  <2>3. m = "z2k" => \A i \in 1 .. Len(u.macs) : u.shares[i] = u.macs[i]
    BY <1>3, <1>9, <1>15
  <2>4. \A i \in 1 .. u.cnt : u.vals[i].id = u.macs[i] /\ u.vals[i] = w[Len(w) - u.cnt + i]
    <3>1. TAKE i \in 1 .. u.cnt
    <3>2. d[i].id = s.macs[i] /\ d[i] = w[Len(o) - x.cnt + i]
      BY <1>9, <1>16
    <3>3. QED BY <1>9, <2>1, <3>2
  <2>5. \A i \in 1 .. Len(w) - u.cnt : w[i].err = 0
    <3>1. TAKE i \in 1 .. Len(w) - u.cnt
    <3>2. i \in 1 .. Len(o) - x.cnt /\ i \in 1 .. Len(o)
      BY <1>4, <1>10, <2>1
    <3>3. w[i] = o[i] /\ o[i].err = 0
      BY <1>14, <1>15, <3>2
    <3>4. QED BY <3>3
  <2>6. QED BY <2>1, <2>2, <2>3, <2>4, <2>5 DEF Values
<1>18. Waits(u)
  <2>1. x.cnt + n \in Nat /\ Len(u.macs) = x.cnt + n /\ Len(u.vals) = x.cnt + n
    BY <1>3, <1>4, <1>9, <1>13
  <2>2. QED BY <1>9, <2>1 DEF Waits
<1>19. Begins(m, p, u, NextRound(a), r, PopenMax)
  BY <1>18, CheckIfNeededIs
<1>20. Len(u.shares) = IF m = "z2k" THEN Len(u.macs) ELSE 0
  BY <1>2, <1>9 DEF Sizes
<1>21. u.op = z.op /\ u.cnt = z.cnt /\ u.next = z.next /\ u.checked = 0
  BY <1>5, <1>9
<1>22. ASeq(u.macs) /\ ASeq(u.vals) /\ ASeq(u.shares) /\ ASeq(w)
  BY <1>9, <1>10, <1>13, <1>14
<1>23. z.step = IF u.cnt < PopenMax THEN "call" ELSE IF Seeded(m, z.cnt) THEN "seedcomm" ELSE "comm"
  BY <1>5, <1>9
<1>24. s.step \in {"call", "shares"} /\ x.step # "call"
  BY <1>3
<1>25. Local(m, sc, p, z, r.s, a \o r.out, b, w)
  BY <1>1, <1>17, <1>18, <1>19, <1>20, <1>21, <1>22, <1>23, <1>24, Checking
<1>26. QED BY <1>1, <1>25

\* A value is added.
LEMMA AddLocal ==
    ASSUME NEW m \in Modes, mode = m, NEW sc \in Scripts, NEW p, NEW x, NEW s, NEW a, NEW b, NEW o,
           Local(m, sc, p, x, s, a, b, o), s.step = "call", s.op < Len(sc),
           sc[s.op + 1].do = "add", NEW v, v.id = s.next,
           NEW u, IsState(u), u.op = s.op + 1, Appends(s.macs, s.next, u.macs),
           Appends(s.vals, v, u.vals),
           IF m = "z2k" THEN Appends(s.shares, s.next, u.shares) ELSE u.shares = s.shares,
           u.cnt = s.cnt + 1, u.next = s.next + 1, u.checked = s.checked,
           NEW w, Appends(o, v, w), NEW r, r = CheckIfNeeded(p, u, NextRound(a))
    PROVE  Local(m, sc, p, Advance(m, sc, x), r.s, a \o r.out, b, w)
<1>1. PICK z : z = Advance(m, sc, x)
  OBVIOUS
<1>2. /\ x \in Position(sc) /\ Regular(m, sc, x)
      /\ Plain(s, a, b, o) /\ Sizes(m, sc, s, b) /\ Len(a) = x.sent
      /\ Exact(m, sc, x, s, b) /\ Values(m, s, o) /\ Paired(b)
      /\ x.cnt \in Nat /\ x.next \in Nat
  BY RunningAt DEF Steps
<1>3. /\ x.step = "call" /\ s.op = x.op /\ s.cnt = x.cnt /\ s.next = x.next
      /\ Len(s.macs) = x.cnt /\ s.checked = 0 /\ sc[x.op + 1].do = "add" /\ x.op < Len(sc)
  BY <1>2 DEF Exact
<1>4. PopenMax \in Nat /\ PopenMax > 0
  BY LimitAssumption
<1>5. /\ z.op = x.op + 1 /\ z.cnt = x.cnt + 1 /\ z.next = x.next + 1
      /\ z.step = IF x.cnt + 1 < PopenMax THEN "call"
                  ELSE IF Seeded(m, x.cnt + 1) THEN "seedcomm" ELSE "comm"
  BY <1>1, <1>2, <1>3, CallIs
<1>6. PICK c, d, h : c = u.macs /\ d = u.vals /\ h = u.shares
  OBVIOUS
<1>7. /\ IsState(u) /\ u.op = x.op + 1 /\ u.macs = c /\ u.vals = d /\ u.shares = h
      /\ u.cnt = x.cnt + 1 /\ u.next = x.next + 1 /\ u.checked = 0
  BY <1>3, <1>6
<1>8. Len(s.vals) = x.cnt /\ ASeq(s.vals) /\ ASeq(s.macs) /\ ASeq(s.shares) /\ ASeq(o)
       /\ Len(o) \in Nat /\ x.cnt <= Len(o)
       /\ Len(s.shares) = IF m = "z2k" THEN x.cnt ELSE 0
  BY <1>2, <1>3, SeqFacts DEF Plain, Sizes, Values
<1>9. ASeq(c) /\ Len(c) = x.cnt + 1 /\ c[x.cnt + 1] = x.next /\ \A i \in 1 .. x.cnt : c[i] = s.macs[i]
  BY <1>3, <1>6 DEF Appends
<1>10. ASeq(d) /\ Len(d) = x.cnt + 1 /\ d[x.cnt + 1] = v /\ \A i \in 1 .. x.cnt : d[i] = s.vals[i]
  BY <1>6, <1>8 DEF Appends
<1>11. /\ ASeq(h) /\ Len(h) = IF m = "z2k" THEN x.cnt + 1 ELSE 0
       /\ m = "z2k" => h[x.cnt + 1] = x.next /\ \A i \in 1 .. x.cnt : h[i] = s.shares[i]
  BY <1>3, <1>6, <1>8 DEF Appends
<1>12. /\ ASeq(w) /\ Len(w) = Len(o) + 1 /\ w[Len(o) + 1] = v
       /\ \A i \in 1 .. Len(o) : w[i] = o[i]
  BY <1>8 DEF Appends
<1>13. /\ \A i \in 1 .. x.cnt : s.macs[i] = x.next - x.cnt + i - 1
       /\ m = "z2k" => \A i \in 1 .. x.cnt : s.shares[i] = s.macs[i]
       /\ \A i \in 1 .. x.cnt : s.vals[i].id = s.macs[i] /\ s.vals[i] = o[Len(o) - x.cnt + i]
       /\ \A i \in 1 .. Len(o) - x.cnt : o[i].err = 0
  BY <1>2, <1>3 DEF Values
<1>14. v.id = x.next
  BY <1>3
<1>15. \A i \in 1 .. x.cnt + 1 : /\ c[i] = x.next + 1 - (x.cnt + 1) + i - 1
                                 /\ m = "z2k" => h[i] = c[i]
                                 /\ d[i].id = c[i] /\ d[i] = w[Len(o) - x.cnt + i]
  <2>1. TAKE i \in 1 .. x.cnt + 1
  <2>2. CASE i \in 1 .. x.cnt
    <3>1. Len(o) - x.cnt + i \in 1 .. Len(o)
      BY <1>2, <1>8, <2>2
    <3>2. d[i] = s.vals[i] /\ w[Len(o) - x.cnt + i] = o[Len(o) - x.cnt + i] /\ c[i] = s.macs[i]
      BY <1>9, <1>10, <1>12, <2>2, <3>1
    <3>3. x.next + 1 - (x.cnt + 1) + i - 1 = x.next - x.cnt + i - 1
      BY <1>2, <2>2
    <3>4. m = "z2k" => h[i] = c[i]
      BY <1>11, <1>13, <2>2, <3>2
    <3>5. c[i] = x.next + 1 - (x.cnt + 1) + i - 1
      BY <1>13, <2>2, <3>2, <3>3
    <3>6. d[i].id = c[i] /\ d[i] = w[Len(o) - x.cnt + i]
      BY <1>13, <2>2, <3>2
    <3>7. QED BY <3>4, <3>5, <3>6
  <2>3. CASE ~ i \in 1 .. x.cnt
    <3>1. i = x.cnt + 1 /\ Len(o) - x.cnt + i = Len(o) + 1
      BY <1>2, <1>8, <2>3
    <3>2. x.next \in Nat /\ x.cnt \in Nat
      BY <1>2
    <3>3. x.next + 1 - (x.cnt + 1) + i - 1 = x.next
      BY <3>1, <3>2
    <3>4. c[i] = x.next /\ d[i] = v /\ w[Len(o) - x.cnt + i] = v
      BY <1>9, <1>10, <1>12, <3>1
    <3>5. m = "z2k" => h[i] = c[i]
      BY <1>11, <3>1, <3>4
    <3>6. QED BY <1>14, <3>3, <3>4, <3>5
  <2>4. QED BY <2>2, <2>3
<1>16. Values(m, u, w)
  <2>1. u.cnt <= Len(w) /\ Len(w) - u.cnt = Len(o) - x.cnt
    <3>1. u.cnt = x.cnt + 1 /\ Len(w) = Len(o) + 1
      BY <1>7, <1>12
    <3>2. x.cnt \in Nat /\ Len(o) \in Nat /\ x.cnt <= Len(o)
      BY <1>2, <1>8
    <3>3. x.cnt + 1 <= Len(o) + 1
      BY <3>2
    <3>4. Len(o) + 1 - (x.cnt + 1) = Len(o) - x.cnt
      BY <3>2
    <3>5. u.cnt <= Len(w)
      BY <3>1, <3>3
    <3>6. Len(w) - u.cnt = Len(o) - x.cnt
      BY <3>1, <3>2, <3>4
    <3>7. QED BY <3>5, <3>6
  <2>2. \A i \in 1 .. Len(u.macs) : u.macs[i] = u.next - Len(u.macs) + i - 1
    <3>1. u.macs = c /\ u.next = x.next + 1 /\ Len(u.macs) = x.cnt + 1
      BY <1>7, <1>9
    <3>2. x.cnt \in Nat /\ x.next \in Nat
      BY <1>2
    <3>3. \A i \in 1 .. x.cnt + 1 : c[i] = x.next + 1 - (x.cnt + 1) + i - 1
      BY <1>15
    <3>4. QED BY <3>1, <3>2, <3>3
  <2>3. m = "z2k" => \A i \in 1 .. Len(u.macs) : u.shares[i] = u.macs[i]
    BY <1>7, <1>9, <1>15
  <2>4. \A i \in 1 .. u.cnt : u.vals[i].id = u.macs[i] /\ u.vals[i] = w[Len(w) - u.cnt + i]
    <3>1. TAKE i \in 1 .. u.cnt
    <3>2. d[i].id = c[i] /\ d[i] = w[Len(o) - x.cnt + i]
      BY <1>7, <1>15
    <3>3. QED BY <1>7, <2>1, <3>2
  <2>5. \A i \in 1 .. Len(w) - u.cnt : w[i].err = 0
    <3>1. TAKE i \in 1 .. Len(w) - u.cnt
    <3>2. i \in 1 .. Len(o) - x.cnt /\ i \in 1 .. Len(o)
      BY <1>2, <1>8, <2>1
    <3>3. w[i] = o[i] /\ o[i].err = 0
      BY <1>12, <1>13, <3>2
    <3>4. QED BY <3>3
  <2>6. QED BY <2>1, <2>2, <2>3, <2>4, <2>5 DEF Values
<1>17. Waits(u)
  BY <1>2, <1>7, <1>9, <1>10 DEF Waits
<1>18. u.op = z.op /\ u.cnt = z.cnt /\ u.next = z.next /\ u.checked = 0
  BY <1>5, <1>7
<1>19. Begins(m, p, u, NextRound(a), r, PopenMax)
  BY <1>17, CheckIfNeededIs
<1>20. Len(u.shares) = IF m = "z2k" THEN Len(u.macs) ELSE 0
  BY <1>7, <1>9, <1>11
<1>21. ASeq(u.macs) /\ ASeq(u.vals) /\ ASeq(u.shares) /\ ASeq(w)
  BY <1>7, <1>9, <1>10, <1>11, <1>12
<1>22. z.step = IF u.cnt < PopenMax THEN "call" ELSE IF Seeded(m, z.cnt) THEN "seedcomm" ELSE "comm"
  BY <1>5, <1>7
<1>23. s.step \in {"call", "shares"} /\ (x.step = "call" => x.op < Len(sc))
  BY <1>3
<1>24. Local(m, sc, p, z, r.s, a \o r.out, b, w)
  BY <1>1, <1>16, <1>17, <1>18, <1>20, <1>19, <1>21, <1>23, <1>22, Checking
<1>25. QED BY <1>1, <1>24

\* A step that leaves the values that wait alone.
LEMMA Resumes ==
    ASSUME NEW m \in Modes, NEW sc \in Scripts, NEW p, NEW x, NEW s, NEW a, NEW b, NEW o,
           Local(m, sc, p, x, s, a, b, o), s.step \in Steps, s.step \notin {"shares", "done"},
           x.step = "call" => x.op < Len(sc),
           NEW z, z = Advance(m, sc, x), z.step # "shares", z.cnt = x.cnt, z.next = x.next,
           NEW t, IsState(t), t.op = z.op, t.step = z.step, t.macs = s.macs, t.vals = s.vals,
           t.shares = s.shares, t.cnt = s.cnt, t.next = s.next,
           NEW v, NEW c, c = IF Logs(x) THEN Append(b, v) ELSE b,
           t.checked = s.checked \/ (z.step = "done" /\ t.checked \in 0 .. Len(c)),
           Logs(x) /\ Odd(x.log) => v[Faulty] = b[Len(b)][Faulty] /\ v[Faulty].by = Faulty,
           NEW out, NEW body, Out(z, out, body),
           Waiting(z) => Fits(m, p, t, body, NextRound(a), c)
    PROVE  Local(m, sc, p, z, t, a \o out, c, o)
<1>1. /\ x \in Position(sc) /\ Regular(m, sc, x)
      /\ Plain(s, a, b, o) /\ Sizes(m, sc, s, b) /\ Len(a) = x.sent
      /\ Exact(m, sc, x, s, b) /\ Values(m, s, o) /\ Paired(b)
  BY RunningAt
<1>2. /\ x.step = s.step /\ s.cnt = x.cnt /\ s.next = x.next /\ Len(b) = x.log
      /\ Len(s.macs) = x.cnt /\ s.checked = 0
  BY <1>1 DEF Exact
<1>3. z \in Position(sc) /\ z.log = IF Logs(x) THEN x.log + 1 ELSE x.log
  <2>1. Onwards(sc, x, z)
    BY <1>1, <1>2, Forward
  <2>2. QED BY <2>1 DEF Onwards, Logs
<1>4. ASeq(c) /\ Len(c) = z.log
  BY <1>1, <1>2, <1>3, AppendFacts DEF Plain
<1>5. Exact(m, sc, z, t, c)
  <2>1. z.step # "done" => t.checked = 0
    BY <1>2
  <2>2. Len(t.macs) = z.cnt /\ t.cnt = z.cnt /\ t.next = z.next
    BY <1>2
  <2>3. QED BY <1>4, <2>1, <2>2 DEF Exact
<1>6. Sizes(m, sc, t, c)
  <2>1. z.op \in 0 .. Len(sc) /\ z.log \in Nat
    BY <1>3 DEF Position
  <2>2. t.checked \in 0 .. Len(c)
    BY <1>2, <1>4, <2>1
  <2>3. QED BY <1>1, <2>1, <2>2 DEF Sizes
<1>7. Values(m, t, o)
  BY <1>1 DEF Values
<1>8. Waiting(z) => Fits(m, p, t, body, x.sent + 1, c)
  BY <1>1 DEF NextRound
<1>9. ASeq(t.macs) /\ ASeq(t.vals) /\ ASeq(t.shares) /\ ASeq(o)
  BY <1>1 DEF Plain
<1>10. x.step # "done" /\ Paired(b) /\ Len(b) = x.log
  BY <1>1, <1>2
<1>11. QED BY <1>5, <1>6, <1>7, <1>8, <1>9, <1>10, Arrive

\* A check is called for.
LEMMA CheckLocal ==
    ASSUME NEW m \in Modes, mode = m, NEW sc \in Scripts, NEW p, NEW x, NEW s, NEW a, NEW b, NEW o,
           Local(m, sc, p, x, s, a, b, o), s.step = "call", s.op < Len(sc),
           sc[s.op + 1].do \in {"check", "for"},
           NEW u, IsState(u), u.op = s.op + 1, u.macs = s.macs, u.vals = s.vals,
           u.shares = s.shares, u.cnt = s.cnt, u.next = s.next, u.checked = s.checked,
           NEW r, r = BeginCheck(p, u, NextRound(a))
    PROVE  Local(m, sc, p, Advance(m, sc, x), r.s, a \o r.out, b, o)
<1>1. PICK z : z = Advance(m, sc, x)
  OBVIOUS
<1>2. /\ x \in Position(sc) /\ Regular(m, sc, x)
      /\ Plain(s, a, b, o) /\ Sizes(m, sc, s, b)
      /\ Exact(m, sc, x, s, b) /\ Values(m, s, o) /\ x.cnt \in Nat
  BY RunningAt DEF Steps
<1>3. /\ x.step = "call" /\ s.op = x.op /\ s.cnt = x.cnt /\ s.next = x.next
      /\ Len(s.macs) = x.cnt /\ s.checked = 0
  BY <1>2 DEF Exact
<1>4. /\ z.op = x.op + 1 /\ z.cnt = x.cnt /\ z.next = x.next
      /\ z.step = IF x.cnt = 0 THEN "call"
                  ELSE IF Seeded(m, x.cnt) THEN "seedcomm" ELSE "comm"
  BY <1>1, <1>2, <1>3, CallIs
<1>5. Waits(u)
  BY <1>2, <1>3 DEF Waits, Sizes
<1>6. Begins(m, p, u, NextRound(a), r, 1)
  BY <1>5, BeginCheckIs
<1>7. z.step = IF u.cnt < 1 THEN "call" ELSE IF Seeded(m, z.cnt) THEN "seedcomm" ELSE "comm"
  BY <1>2, <1>3, <1>4
<1>8. Values(m, u, o)
  BY <1>2 DEF Values
<1>9. /\ ASeq(u.macs) /\ ASeq(u.vals) /\ ASeq(u.shares) /\ ASeq(o)
      /\ Len(u.shares) = IF m = "z2k" THEN Len(u.macs) ELSE 0
  BY <1>2 DEF Plain, Sizes
<1>10. u.op = z.op /\ u.cnt = z.cnt /\ u.next = z.next /\ u.checked = 0
  BY <1>3, <1>4
<1>11. s.step \in {"call", "shares"} /\ (x.step = "call" => x.op < Len(sc))
  BY <1>3
<1>12. Local(m, sc, p, z, r.s, a \o r.out, b, o)
  BY <1>1, <1>5, <1>6, <1>7, <1>8, <1>9, <1>10, <1>11, Checking
<1>13. QED BY <1>1, <1>12

\* A coin is tossed.
LEMMA RandomLocal ==
    ASSUME NEW m \in Modes, NEW sc \in Scripts, NEW p, NEW x, NEW s, NEW a, NEW b, NEW o,
           Local(m, sc, p, x, s, a, b, o), s.step = "call", s.op < Len(sc),
           sc[s.op + 1].do = "random",
           NEW u, IsState(u), u.op = s.op + 1, u.macs = s.macs, u.vals = s.vals,
           u.shares = s.shares, u.cnt = s.cnt, u.next = s.next, u.checked = s.checked,
           NEW r, r = SeedComm(p, u, NextRound(a))
    PROVE  Local(m, sc, p, Advance(m, sc, x), r.s, a \o r.out, b, o)
<1>1. PICK z : z = Advance(m, sc, x)
  OBVIOUS
<1>2. x \in Position(sc) /\ Exact(m, sc, x, s, b)
  BY RunningAt DEF Steps
<1>3. x.step = "call" /\ s.op = x.op /\ x.op < Len(sc)
  BY <1>2 DEF Exact
<1>4. z.op = x.op + 1 /\ z.cnt = x.cnt /\ z.next = x.next /\ z.step = "seedcomm"
  BY <1>1, <1>2, <1>3, CallIs
<1>5. PICK body, k : k = NextRound(a) /\ body = Commit(p, Coin(p, k), k)
  OBVIOUS
<1>6. /\ IsState(r.s) /\ Keeps(u, r.s) /\ r.s.step = "seedcomm"
      /\ r.out = <<[kind |-> "comm", body |-> body]>>
  BY <1>5, SeedCommIs
<1>7. PICK t, out : t = r.s /\ out = r.out
  OBVIOUS
<1>8. /\ IsState(t) /\ t.op = z.op /\ t.step = z.step /\ t.macs = s.macs /\ t.vals = s.vals
      /\ t.shares = s.shares /\ t.cnt = s.cnt /\ t.next = s.next /\ t.checked = s.checked
  BY <1>3, <1>4, <1>6, <1>7 DEF Keeps
<1>9. Out(z, out, body)
  <2>1. Waiting(z) /\ KindFor(z.step) = "comm"
    BY <1>4 DEF Waiting, KindFor
  <2>2. QED BY <1>6, <1>7, <2>1 DEF Out
<1>10. Fits(m, p, t, body, NextRound(a), b)
  BY <1>4, <1>5, <1>8 DEF Fits
<1>11. ~ Logs(x)
  BY <1>3 DEF Logs
<1>12. PICK v : b = IF Logs(x) THEN Append(b, v) ELSE b
  BY <1>11
<1>13. s.step \in Steps /\ s.step \notin {"shares", "done"} /\ z.step # "shares"
  BY <1>4 DEF Steps
<1>14. Local(m, sc, p, z, t, a \o out, b, o)
  BY <1>1, <1>3, <1>4, <1>8, <1>9, <1>10, <1>11, <1>12, <1>13, Resumes
<1>15. QED BY <1>1, <1>7, <1>14

\* Commitments arrive.
LEMMA CommsLocal ==
    ASSUME NEW m \in Modes, NEW sc \in Scripts, NEW p, NEW x, NEW s, NEW a, NEW b, NEW o,
           Local(m, sc, p, x, s, a, b, o), s.step \in {"seedcomm", "comm"},
           NEW v, NEW t, IsState(t), Keeps(s, t), t.seed = s.seed, t.pj = s.pj, t.comms = v,
           t.step = IF s.step = "comm" THEN "open" ELSE "seedopen",
           NEW out, out = Message("open", a[Len(a)].body)
    PROVE  Local(m, sc, p, Advance(m, sc, x), t, a \o out, Append(b, v), o)
<1>1. PICK z, c : z = Advance(m, sc, x) /\ c = Append(b, v)
  OBVIOUS
<1>2. /\ x \in Position(sc) /\ Regular(m, sc, x) /\ Exact(m, sc, x, s, b) /\ Plain(s, a, b, o)
      /\ Fits(m, p, s, a[Len(a)].body, Len(a), b) /\ Len(a) = x.sent /\ x.sent \in Nat
  BY RunningAt DEF Steps
<1>3. x.step = s.step /\ s.op = x.op /\ Logs(x) /\ ~ Odd(x.log)
  BY <1>2 DEF Exact, Logs, Regular
<1>4. z.op = x.op /\ z.cnt = x.cnt /\ z.next = x.next /\ z.step = t.step
  BY <1>1, <1>2, <1>3, RoundIs
<1>5. PICK body : body = a[Len(a)].body
  OBVIOUS
<1>6. /\ t.op = z.op /\ t.macs = s.macs /\ t.vals = s.vals
      /\ t.shares = s.shares /\ t.cnt = s.cnt /\ t.next = s.next /\ t.checked = s.checked
  BY <1>3, <1>4 DEF Keeps
<1>7. Out(z, out, body)
  <2>1. Waiting(z) /\ KindFor(z.step) = "open"
    BY <1>4 DEF Waiting, KindFor
  <2>2. QED BY <1>5, <2>1 DEF Out, Message
<1>8. DataOf(m, t) = DataOf(m, s)
  BY KeepsAll
<1>9. c[Len(c)] = v
  BY <1>1, <1>2, AppendFacts DEF Plain
<1>10. Fits(m, p, t, body, NextRound(a), c)
  <2>1. NextRound(a) - 1 = Len(a)
    BY <1>2 DEF NextRound
  <2>2. t.step = "open" => body = Commit(p, DataOf(m, t), NextRound(a) - 1)
    BY <1>2, <1>5, <1>8, <2>1 DEF Fits
  <2>3. t.step = "seedopen" => body = Commit(p, Coin(p, NextRound(a) - 1), NextRound(a) - 1)
    BY <1>2, <1>5, <2>1 DEF Fits
  <2>4. t.step \in {"open", "seedopen"}
    OBVIOUS
  <2>5. QED BY <1>9, <2>2, <2>3, <2>4 DEF Fits
<1>11. s.step \in Steps /\ s.step \notin {"shares", "done"} /\ z.step # "shares" /\ x.step # "call"
  BY <1>3, <1>4 DEF Steps
<1>12. c = IF Logs(x) THEN Append(b, v) ELSE b
  BY <1>1, <1>3
<1>13. Local(m, sc, p, z, t, a \o out, c, o)
  BY <1>1, <1>3, <1>4, <1>6, <1>7, <1>10, <1>11, <1>12, Resumes
<1>14. QED BY <1>1, <1>13

\* The coins are known.
LEMMA SeedDoneLocal ==
    ASSUME NEW m \in Modes, mode = m, NEW sc \in Scripts, script = sc, NEW p, NEW x,
           NEW s, st[p] = s, NEW a, sent[p] = a, NEW b, NEW o,
           Local(m, sc, p, x, s, a, b, o), s.step = "seedopen", NEW v,
           v[Faulty] = s.comms[Faulty], v[Faulty].by = Faulty, NEW r, r = SeedDone(p, s, v)
    PROVE  Local(m, sc, p, Advance(m, sc, x), r.s, a \o r.out, Append(b, v), o)
<1>1. PICK z, c : z = Advance(m, sc, x) /\ c = Append(b, v)
  OBVIOUS
<1>2. /\ x \in Position(sc) /\ Exact(m, sc, x, s, b) /\ Plain(s, a, b, o)
      /\ Fits(m, p, s, a[Len(a)].body, Len(a), b) /\ Len(a) = x.sent
  BY RunningAt DEF Steps
<1>3. x.step = "seedopen" /\ s.op = x.op /\ Logs(x) /\ s.comms = b[Len(b)]
  BY <1>2 DEF Exact, Logs, Fits
<1>4. /\ z.op = x.op /\ z.cnt = x.cnt /\ z.next = x.next
      /\ z.step = IF sc[x.op].do = "random" THEN "call" ELSE IF m = "z2k" THEN "pj" ELSE "comm"
  BY <1>1, <1>2, <1>3, RoundIs
<1>5. PICK y, t0 : y = [q \in Party |-> v[q].data] /\ t0 = [s EXCEPT !.seed = y, !.pj = 0]
  OBVIOUS
<1>6. IsState(t0) /\ Keeps(s, t0)
  <2>1. IsState(s)
    BY <1>2 DEF Plain
  <2>2. PICK g : g = 0
    OBVIOUS
  <2>3. t0 = [s EXCEPT !.seed = y, !.pj = g]
    BY <1>5, <2>2
  <2>4. QED BY <2>1, <2>3, SeedSet
<1>7. r = IF sc[x.op].do = "random" THEN [s |-> [t0 EXCEPT !.step = "call"], out |-> <<>>]
          ELSE IF m = "z2k" THEN [s |-> [t0 EXCEPT !.step = "pj"], out |-> Message("pj", "right")]
          ELSE CheckComm(p, t0, NextRound(a))
  <2>1. Here(p) = sc[x.op] /\ Round(p) + 1 = NextRound(a)
    BY <1>3 DEF Here, Round, NextRound
  <2>2. r = IF Here(p).do = "random" THEN [s |-> [t0 EXCEPT !.step = "call"], out |-> <<>>]
            ELSE IF mode = "z2k" THEN [s |-> [t0 EXCEPT !.step = "pj"], out |-> Message("pj", "right")]
            ELSE CheckComm(p, t0, Round(p) + 1)
    BY <1>5, Zenon DEF SeedDone
  <2>3. QED BY <2>1, <2>2
<1>8. PICK t, out : t = r.s /\ out = r.out
  OBVIOUS
<1>9. /\ IsState(t) /\ Keeps(t0, t) /\ t.step = z.step
      /\ \E body : Out(z, out, body) /\ (Waiting(z) => Fits(m, p, t, body, NextRound(a), c))
  <2>1. CASE sc[x.op].do = "random"
    <3>1. PICK g : g = [t0 EXCEPT !.step = "call"]
      OBVIOUS
    <3>2. t = g /\ out = <<>>
      BY <1>7, <1>8, <2>1, <3>1
    <3>3. IsState(t) /\ Keeps(t0, t) /\ t.step = "call"
      BY <1>6, <3>1, <3>2, StepOnly
    <3>4. z.step = "call" /\ ~ Waiting(z)
      BY <1>4, <2>1 DEF Waiting
    <3>5. \A body : Out(z, out, body)
      BY <3>2, <3>4 DEF Out
    <3>6. QED BY <3>3, <3>4, <3>5
  <2>2. CASE sc[x.op].do # "random" /\ m = "z2k"
    <3>1. PICK g : g = [t0 EXCEPT !.step = "pj"]
      OBVIOUS
    <3>2. t = g /\ out = <<[kind |-> "pj", body |-> "right"]>>
      BY <1>7, <1>8, <2>2, <3>1 DEF Message
    <3>3. IsState(t) /\ Keeps(t0, t) /\ t.step = "pj"
      BY <1>6, <3>1, <3>2, StepOnly
    <3>4. z.step = "pj" /\ Waiting(z) /\ KindFor(z.step) = "pj"
      BY <1>4, <2>2 DEF Waiting, KindFor
    <3>5. PICK body : body = "right"
      OBVIOUS
    <3>6. Out(z, out, body)
      BY <3>2, <3>4, <3>5 DEF Out
    <3>7. Fits(m, p, t, body, NextRound(a), c)
      BY <3>3 DEF Fits
    <3>8. QED BY <3>3, <3>4, <3>6, <3>7
  <2>3. CASE sc[x.op].do # "random" /\ m # "z2k"
    <3>1. r = CheckComm(p, t0, NextRound(a))
      BY <1>7, <2>3
    <3>2. PICK body : body = Commit(p, DataOf(m, t), NextRound(a))
      OBVIOUS
    <3>3. /\ IsState(t) /\ Keeps(t0, t) /\ t.step = "comm"
          /\ out = <<[kind |-> "comm", body |-> body]>>
      <4>1. PICK n : n = NextRound(a)
        OBVIOUS
      <4>2. r = CheckComm(p, t0, n) /\ IsState(t0)
        BY <1>6, <3>1, <4>1
      <4>3. /\ IsState(r.s) /\ Keeps(t0, r.s) /\ r.s.step = "comm"
            /\ r.out = <<[kind |-> "comm", body |-> Commit(p, DataOf(m, r.s), n)]>>
        BY <4>2, CheckCommIs
      <4>4. QED BY <1>8, <3>2, <4>1, <4>3
    <3>4. z.step = "comm" /\ Waiting(z) /\ KindFor(z.step) = "comm"
      BY <1>4, <2>3 DEF Waiting, KindFor
    <3>5. Out(z, out, body)
      BY <3>3, <3>4 DEF Out
    <3>6. Fits(m, p, t, body, NextRound(a), c)
      BY <3>2, <3>3 DEF Fits
    <3>7. QED BY <3>3, <3>4, <3>5, <3>6
  <2>4. QED BY <2>1, <2>2, <2>3
<1>10. PICK body : Out(z, out, body) /\ (Waiting(z) => Fits(m, p, t, body, NextRound(a), c))
  BY <1>9
<1>11. /\ t.op = z.op /\ t.macs = s.macs /\ t.vals = s.vals
       /\ t.shares = s.shares /\ t.cnt = s.cnt /\ t.next = s.next /\ t.checked = s.checked
  BY <1>3, <1>4, <1>6, <1>9 DEF Keeps
<1>12. s.step \in Steps /\ s.step \notin {"shares", "done"} /\ z.step # "shares" /\ x.step # "call"
  BY <1>3, <1>4 DEF Steps
<1>13. c = IF Logs(x) THEN Append(b, v) ELSE b
  BY <1>1, <1>3
<1>14. v[Faulty] = b[Len(b)][Faulty] /\ v[Faulty].by = Faulty
  BY <1>3
<1>15. Local(m, sc, p, z, t, a \o out, c, o)
  BY <1>1, <1>4, <1>9, <1>10, <1>11, <1>12, <1>13, <1>14, Resumes
<1>16. QED BY <1>1, <1>8, <1>15

\* The deltas add up to zero: what waited was right.
LEMMA ZeroLocal ==
    ASSUME NEW m \in Modes, NEW sc \in Scripts, NEW p, NEW x, NEW s, NEW a, NEW b, NEW o,
           Local(m, sc, p, x, s, a, b, o), s.step = "open", NEW v,
           v[Faulty] = s.comms[Faulty], v[Faulty].by = Faulty,
           \A i \in 1 .. s.cnt : s.vals[i].err = 0,
           NEW t, t = [Erase(s) EXCEPT !.step = "call"], NEW out, out = <<>>
    PROVE  Local(m, sc, p, Advance(m, sc, x), t, a \o out, Append(b, v), o)
<1>1. PICK z, c : z = Advance(m, sc, x) /\ c = Append(b, v)
  OBVIOUS
<1>2. /\ x \in Position(sc) /\ Exact(m, sc, x, s, b) /\ Plain(s, a, b, o) /\ Values(m, s, o)
      /\ Fits(m, p, s, a[Len(a)].body, Len(a), b) /\ Len(a) = x.sent /\ Sizes(m, sc, s, b)
      /\ Paired(b)
  BY RunningAt DEF Steps
<1>3. /\ x.step = "open" /\ s.op = x.op /\ s.cnt = x.cnt /\ s.next = x.next /\ Logs(x)
      /\ s.comms = b[Len(b)] /\ s.checked = 0 /\ Len(b) = x.log /\ Len(s.macs) = s.cnt
  BY <1>2 DEF Exact, Logs, Fits
<1>4. z.op = x.op /\ z.cnt = 0 /\ z.next = x.next /\ z.step = "call" /\ z.log = x.log + 1
  BY <1>1, <1>2, <1>3, RoundIs
<1>5. /\ IsState(t) /\ t.op = s.op /\ t.step = "call" /\ t.cnt = 0 /\ t.next = s.next
      /\ t.checked = s.checked /\ ASeq(t.macs) /\ ASeq(t.vals) /\ ASeq(t.shares)
      /\ Len(t.macs) = 0 /\ Len(t.vals) = 0 /\ Len(t.shares) = 0
  <2>1. /\ IsState(s) /\ ASeq(s.macs) /\ ASeq(s.vals) /\ ASeq(s.shares)
        /\ s.cnt \in Nat /\ Len(s.macs) = s.cnt /\ Len(s.vals) = s.cnt
        /\ Len(s.shares) \in {0, s.cnt}
    BY <1>2, <1>3 DEF Plain, Sizes
  <2>2. PICK e : e = "call"
    OBVIOUS
  <2>3. t = [Erase(s) EXCEPT !.step = e]
    BY <2>2
  <2>4. Erased(s, t, e)
    BY <2>1, <2>3, EraseIs
  <2>5. QED BY <2>2, <2>4 DEF Erased
<1>6. ASeq(c) /\ Len(c) = x.log + 1 /\ x.log \in Nat
  BY <1>1, <1>2, <1>3, AppendFacts DEF Plain, Position
<1>7. Sizes(m, sc, t, c)
  <2>1. 0 \in 0 .. Len(c) /\ t.op \in 0 .. Len(sc)
    BY <1>2, <1>5, <1>6 DEF Sizes
  <2>2. QED BY <1>3, <1>5, <2>1 DEF Sizes
<1>8. Exact(m, sc, z, t, c)
  BY <1>3, <1>4, <1>5, <1>6 DEF Exact
<1>9. Values(m, t, o)
  <2>1. Len(o) \in Nat /\ s.cnt \in Nat /\ s.cnt <= Len(o)
    BY <1>2, SeqFacts DEF Plain, Values, Sizes
  <2>2. ASSUME NEW i \in 1 .. Len(o) PROVE o[i].err = 0
    <3>1. CASE i \in 1 .. Len(o) - s.cnt
      BY <1>2, <3>1 DEF Values
    <3>2. CASE ~ i \in 1 .. Len(o) - s.cnt
      <4>1. PICK j \in 1 .. s.cnt : i = Len(o) - s.cnt + j
        <5>1. i - (Len(o) - s.cnt) \in 1 .. s.cnt
          BY <2>1, <3>2
        <5>2. i = Len(o) - s.cnt + (i - (Len(o) - s.cnt))
          BY <2>1
        <5>3. QED BY <5>1, <5>2
      <4>2. s.vals[j] = o[i]
        BY <1>2, <4>1 DEF Values
      <4>3. QED BY <4>2
    <3>3. QED BY <3>1, <3>2
  <2>3. Len(o) - t.cnt = Len(o)
    BY <1>5, <2>1
  <2>4. \A i \in 1 .. Len(o) - t.cnt : o[i].err = 0
    BY <2>2, <2>3
  <2>5. QED BY <1>5, <2>1, <2>4 DEF Values
<1>10. PICK body : body = 0
  OBVIOUS
<1>11. Out(z, out, body) /\ ~ Waiting(z)
  BY <1>4 DEF Out, Waiting
<1>12. c = (IF Logs(x) THEN Append(b, v) ELSE b) /\ x.step # "done" /\ x.step # "call"
  BY <1>1, <1>3
<1>13. v[Faulty] = b[Len(b)][Faulty] /\ v[Faulty].by = Faulty
  BY <1>3
<1>14. ASeq(o)
  BY <1>2 DEF Plain
<1>15. Local(m, sc, p, z, t, a \o out, c, o)
  BY <1>1, <1>2, <1>3, <1>5, <1>7, <1>8, <1>9, <1>11, <1>12, <1>13, <1>14, Arrive
<1>16. QED BY <1>1, <1>15

\* A party throws without changing what it keeps.
LEMMA ThrowKeeping ==
    ASSUME NEW m \in Modes, NEW sc \in Scripts, NEW p, NEW x, NEW s, NEW a, NEW b, NEW o,
           Local(m, sc, p, x, s, a, b, o), s.step \in Steps,
           NEW t, IsState(t), t.step \in Exceptions, t.op \in 0 .. Len(sc), t.macs = s.macs,
           t.vals = s.vals, t.shares = s.shares, t.cnt = s.cnt, t.checked = s.checked,
           NEW v, NEW c, c = b \/ (c = Append(b, v) /\ s.step \notin {"hash", "done"}),
           NEW out, out = <<>>
    PROVE  Local(m, sc, p, x, t, a \o out, c, o)
<1>1. Plain(s, a, b, o) /\ Sizes(m, sc, s, b) /\ x.step = s.step
  BY RunningAt DEF Exact
<1>2. ASeq(c) /\ Len(c) >= Len(b) /\ Len(b) \in Nat /\ Len(c) \in Nat
  <2>1. ASeq(b) /\ Len(b) \in Nat
    BY <1>1, SeqFacts DEF Plain
  <2>2. CASE c = b
    BY <2>1, <2>2
  <2>3. CASE c = Append(b, v)
    <3>1. Appends(b, v, c)
      BY <2>1, <2>3, Appended
    <3>2. QED BY <2>1, <3>1 DEF Appends
  <2>4. QED BY <2>2, <2>3
<1>3. Sizes(m, sc, t, c)
  <2>1. t.checked \in 0 .. Len(c)
    BY <1>1, <1>2 DEF Sizes
  <2>2. QED BY <1>1, <2>1 DEF Sizes
<1>4. a \o out = a
  BY <1>1, AppendFacts DEF Plain
<1>5. ASeq(t.macs) /\ ASeq(t.vals) /\ ASeq(t.shares) /\ ASeq(o)
  BY <1>1 DEF Plain
<1>6. c = b \/ x.step \notin {"hash", "done"}
  BY <1>1
<1>7. Local(m, sc, p, x, t, a, c, o)
  BY <1>2, <1>3, <1>5, <1>6, Throw
<1>8. QED BY <1>4, <1>7

\* A check fails.
LEMMA FailedLocal ==
    ASSUME NEW m \in Modes, mode = m, NEW sc \in Scripts, NEW p, NEW x, NEW s, NEW a, NEW b, NEW o,
           Local(m, sc, p, x, s, a, b, o), s.step = "open", NEW v,
           NEW t, t = Failed(s), NEW out, out = <<>>
    PROVE  /\ Local(m, sc, p, x, t, a \o out, Append(b, v), o)
           /\ t.step = "mac_fail"
<1>1. PICK c : c = Append(b, v)
  OBVIOUS
<1>2. /\ x \in Position(sc) /\ Exact(m, sc, x, s, b) /\ Plain(s, a, b, o) /\ Sizes(m, sc, s, b)
  BY RunningAt DEF Steps
<1>3. x.step = "open" /\ Len(s.macs) = s.cnt /\ s.checked = 0 /\ s.step \in Steps
  BY <1>2 DEF Exact, Steps
<1>4. "mac_fail" \in Exceptions
  BY DEF Exceptions
<1>5. CASE m # "z2k"
  <2>1. t = [s EXCEPT !.step = "mac_fail"]
    BY <1>5 DEF Failed
  <2>2. IsState(t) /\ Keeps(s, t) /\ t.step = "mac_fail"
    <3>1. IsState(s)
      BY <1>2 DEF Plain
    <3>2. PICK e : e = "mac_fail"
      OBVIOUS
    <3>3. t = [s EXCEPT !.step = e]
      BY <2>1, <3>2
    <3>4. IsState(t) /\ Keeps(s, t)
      BY <3>1, <3>3, StepOnly
    <3>5. t.step = e
      BY <3>1, <3>3, StepOnly
    <3>6. QED BY <3>2, <3>4, <3>5
  <2>3. /\ t.op \in 0 .. Len(sc) /\ t.macs = s.macs /\ t.vals = s.vals /\ t.shares = s.shares
        /\ t.cnt = s.cnt /\ t.checked = s.checked
    BY <1>2, <2>2 DEF Keeps, Sizes
  <2>4. Local(m, sc, p, x, t, a \o out, c, o)
    BY <1>1, <1>3, <1>4, <2>2, <2>3, ThrowKeeping
  <2>5. QED BY <1>1, <2>2, <2>4
<1>6. CASE m = "z2k"
  <2>1. t = [Erase(s) EXCEPT !.step = "mac_fail"]
    BY <1>6 DEF Failed
  <2>2. /\ IsState(t) /\ t.op = s.op /\ t.step = "mac_fail" /\ t.cnt = 0 /\ t.next = s.next
        /\ t.checked = s.checked /\ ASeq(t.macs) /\ ASeq(t.vals) /\ ASeq(t.shares)
        /\ Len(t.macs) = 0 /\ Len(t.vals) = 0 /\ Len(t.shares) = 0
    <3>1. /\ IsState(s) /\ ASeq(s.macs) /\ ASeq(s.vals) /\ ASeq(s.shares)
          /\ s.cnt \in Nat /\ Len(s.macs) = s.cnt /\ Len(s.vals) = s.cnt
          /\ Len(s.shares) \in {0, s.cnt}
      BY <1>2, <1>3 DEF Plain, Sizes
    <3>2. PICK e : e = "mac_fail"
      OBVIOUS
    <3>3. t = [Erase(s) EXCEPT !.step = e]
      BY <2>1, <3>2
    <3>4. Erased(s, t, e)
      BY <3>1, <3>3, EraseIs
    <3>5. QED BY <3>2, <3>4 DEF Erased
  <2>3. ASeq(c) /\ Len(c) = Len(b) + 1 /\ Len(b) \in Nat
    BY <1>1, <1>2, AppendFacts DEF Plain
  <2>4. Len(c) >= Len(b) /\ Len(c) \in Nat
    BY <2>3
  <2>5. Sizes(m, sc, t, c)
    <3>1. 0 \in 0 .. Len(c) /\ t.op \in 0 .. Len(sc)
      BY <1>2, <2>2, <2>4 DEF Sizes
    <3>2. QED BY <1>3, <2>2, <3>1 DEF Sizes
  <2>6. a \o out = a /\ ASeq(o)
    BY <1>2, AppendFacts DEF Plain
  <2>7. c = b \/ x.step \notin {"hash", "done"}
    BY <1>3
  <2>8. Local(m, sc, p, x, t, a, c, o)
    BY <1>4, <2>2, <2>3, <2>4, <2>5, <2>6, <2>7, Throw
  <2>9. QED BY <1>1, <2>2, <2>6, <2>8
<1>7. QED BY <1>5, <1>6

\* The masked high bits are known.
LEMMA HighBitsLocal ==
    ASSUME NEW m \in Modes, mode = m, NEW sc \in Scripts, NEW p, NEW x, NEW s, NEW a, NEW b, NEW o,
           Local(m, sc, p, x, s, a, b, o), s.step = "pj", NEW t0, IsState(t0), Keeps(s, t0),
           NEW r, r = CheckComm(p, t0, NextRound(a))
    PROVE  Local(m, sc, p, Advance(m, sc, x), r.s, a \o r.out, b, o)
<1>1. PICK z : z = Advance(m, sc, x)
  OBVIOUS
<1>2. x \in Position(sc) /\ Exact(m, sc, x, s, b) /\ IsState(s)
  BY RunningAt DEF Steps, Plain
<1>3. x.step = "pj" /\ s.op = x.op /\ ~ Logs(x)
  BY <1>2 DEF Exact, Logs
<1>4. z.op = x.op /\ z.cnt = x.cnt /\ z.next = x.next /\ z.step = "comm"
  BY <1>1, <1>2, <1>3, RoundIs
<1>5. IsState(t0) /\ Keeps(s, t0)
  OBVIOUS
<1>6. PICK t, out, n : t = r.s /\ out = r.out /\ n = NextRound(a)
  OBVIOUS
<1>7. PICK body : body = Commit(p, DataOf(m, t), n)
  OBVIOUS
<1>8. IsState(t) /\ Keeps(t0, t) /\ t.step = "comm" /\ out = <<[kind |-> "comm", body |-> body]>>
  <2>1. r = CheckComm(p, t0, n)
    BY <1>6
  <2>2. /\ IsState(r.s) /\ Keeps(t0, r.s) /\ r.s.step = "comm"
        /\ r.out = <<[kind |-> "comm", body |-> Commit(p, DataOf(m, r.s), n)]>>
    BY <1>5, <2>1, CheckCommIs
  <2>3. QED BY <1>6, <1>7, <2>2
<1>9. Keeps(s, t)
  BY <1>5, <1>8, KeepsTransitive
<1>10. /\ t.op = z.op /\ t.step = z.step /\ t.macs = s.macs /\ t.vals = s.vals
       /\ t.shares = s.shares /\ t.cnt = s.cnt /\ t.next = s.next /\ t.checked = s.checked
  BY <1>3, <1>4, <1>8, <1>9 DEF Keeps
<1>11. Out(z, out, body)
  <2>1. Waiting(z) /\ KindFor(z.step) = "comm"
    BY <1>4 DEF Waiting, KindFor
  <2>2. QED BY <1>8, <2>1 DEF Out
<1>12. Fits(m, p, t, body, NextRound(a), b)
  BY <1>6, <1>7, <1>8 DEF Fits
<1>13. PICK v : b = IF Logs(x) THEN Append(b, v) ELSE b
  BY <1>3
<1>14. s.step \in Steps /\ s.step \notin {"shares", "done"} /\ z.step # "shares" /\ x.step # "call"
  BY <1>3, <1>4 DEF Steps
<1>15. Local(m, sc, p, z, t, a \o out, b, o)
  BY <1>1, <1>3, <1>4, <1>8, <1>10, <1>11, <1>12, <1>13, <1>14, Resumes
<1>16. QED BY <1>1, <1>6, <1>15

\* What the comparison of broadcasts and the end of a thread leave behind.
LEMMA Ends ==
    ASSUME NEW u, IsState(u), Len(u.macs) = 0, Len(u.vals) = 0, NEW t, t = End(u)
    PROVE  IsState(t) /\ Keeps(u, t) /\ t.step = "done"
<1>1. PICK e : e = "done"
  OBVIOUS
<1>2. ~ WaitingForCheck(u) > 0
  BY DEF WaitingForCheck
<1>3. t = [u EXCEPT !.step = e]
  BY <1>1, <1>2 DEF End
<1>4. IsState(t) /\ Keeps(u, t)
  BY <1>3, StepOnly
<1>5. t.step = e
  BY <1>3, StepOnly
<1>6. QED BY <1>1, <1>4, <1>5

\* The comparison of broadcasts begins.
LEMMA FinishLocal ==
    ASSUME NEW m \in Modes, NEW sc \in Scripts, NEW p, NEW x, NEW s, NEW a, NEW b, NEW o,
           Local(m, sc, p, x, s, a, b, o), s.step = "call", s.op < Len(sc),
           sc[s.op + 1].do = "finish",
           NEW u, IsState(u), u.op = s.op + 1, u.macs = s.macs, u.vals = s.vals,
           u.shares = s.shares, u.cnt = s.cnt, u.next = s.next, u.checked = s.checked,
           NEW t, NEW out,
           IF Len(b) = s.checked THEN t = End(u) /\ out = <<>>
           ELSE t = [u EXCEPT !.step = "hash"]
                /\ out = Message("hash", SubSeq(b, s.checked + 1, Len(b)))
    PROVE  Local(m, sc, p, Advance(m, sc, x), t, a \o out, b, o)
<1>1. PICK z : z = Advance(m, sc, x)
  OBVIOUS
<1>2. /\ x \in Position(sc) /\ Exact(m, sc, x, s, b) /\ Plain(s, a, b, o) /\ Sizes(m, sc, s, b)
      /\ Regular(m, sc, x)
  BY RunningAt DEF Steps
<1>3. /\ x.step = "call" /\ s.op = x.op /\ x.op < Len(sc) /\ s.checked = 0 /\ Len(b) = x.log
      /\ s.cnt = x.cnt /\ Len(s.macs) = x.cnt /\ Len(s.vals) = x.cnt
  BY <1>2 DEF Exact, Sizes
<1>4. /\ z.op = x.op + 1 /\ z.cnt = x.cnt /\ z.next = x.next
      /\ z.step = IF x.log = 0 THEN "done" ELSE "hash"
  BY <1>1, <1>2, <1>3, CallIs
<1>5. x.cnt = 0
  <2>1. z \in Position(sc) /\ Regular(m, sc, z)
    BY <1>1, <1>2, Closes, RegularNext
  <2>2. z.step \in {"hash", "done"}
    BY <1>4
  <2>3. QED BY <1>4, <2>1, <2>2 DEF Regular
<1>6. x.log \in Nat /\ SubSeq(b, 1, Len(b)) = b
  BY <1>2, SeqFacts DEF Position, Plain
<1>7. /\ IsState(t) /\ Keeps(u, t) /\ t.step = z.step
      /\ \E body : Out(z, out, body) /\ (Waiting(z) => Fits(m, p, t, body, NextRound(a), b))
  <2>1. CASE x.log = 0
    <3>1. t = End(u) /\ out = <<>>
      BY <1>3, <2>1
    <3>2. IsState(t) /\ Keeps(u, t) /\ t.step = "done"
      BY <1>3, <1>5, <3>1, Ends
    <3>3. z.step = "done" /\ ~ Waiting(z)
      BY <1>4, <2>1 DEF Waiting
    <3>4. \A body : Out(z, out, body)
      BY <3>1, <3>3 DEF Out
    <3>5. QED BY <3>2, <3>3, <3>4
  <2>2. CASE x.log # 0
    <3>1. PICK e : e = "hash"
      OBVIOUS
    <3>2. t = [u EXCEPT !.step = e] /\ out = <<[kind |-> "hash", body |-> b]>>
      <4>1. s.checked + 1 = 1 /\ ~ Len(b) = s.checked
        BY <1>3, <1>6, <2>2
      <4>2. QED BY <1>6, <3>1, <4>1 DEF Message
    <3>3. IsState(t) /\ Keeps(u, t)
      BY <3>2, StepOnly
    <3>4. t.step = "hash"
      BY <3>1, <3>2, StepOnly
    <3>5. z.step = "hash" /\ Waiting(z) /\ KindFor(z.step) = "hash"
      BY <1>4, <2>2 DEF Waiting, KindFor
    <3>6. Out(z, out, b)
      BY <3>2, <3>5 DEF Out
    <3>7. Fits(m, p, t, b, NextRound(a), b)
      BY <3>4 DEF Fits
    <3>8. QED BY <3>3, <3>4, <3>5, <3>6, <3>7
  <2>3. QED BY <2>1, <2>2
<1>8. PICK body : Out(z, out, body) /\ (Waiting(z) => Fits(m, p, t, body, NextRound(a), b))
  BY <1>7
<1>9. /\ t.op = z.op /\ t.macs = s.macs /\ t.vals = s.vals
      /\ t.shares = s.shares /\ t.cnt = s.cnt /\ t.next = s.next /\ t.checked = s.checked
  BY <1>3, <1>4, <1>7 DEF Keeps
<1>10. ~ Logs(x)
  BY <1>3 DEF Logs
<1>11. PICK v : b = IF Logs(x) THEN Append(b, v) ELSE b
  BY <1>10
<1>12. s.step \in Steps /\ s.step \notin {"shares", "done"} /\ z.step # "shares"
  BY <1>4 DEF Steps
<1>13. Local(m, sc, p, z, t, a \o out, b, o)
  BY <1>1, <1>3, <1>4, <1>7, <1>8, <1>9, <1>10, <1>11, <1>12, Resumes
<1>14. QED BY <1>1, <1>13

\* The length compared is noted.
LEMMA Notes ==
    ASSUME NEW u, IsState(u), NEW l, NEW t, t = [u EXCEPT !.checked = l]
    PROVE  /\ IsState(t) /\ t.op = u.op /\ t.step = u.step /\ t.macs = u.macs /\ t.vals = u.vals
           /\ t.shares = u.shares /\ t.cnt = u.cnt /\ t.next = u.next /\ t.checked = l
<1>1. t = [op |-> u.op, step |-> u.step, macs |-> u.macs, vals |-> u.vals, shares |-> u.shares,
           cnt |-> u.cnt, next |-> u.next, seed |-> u.seed, pj |-> u.pj, comms |-> u.comms,
           checked |-> l]
  BY DEF IsState
<1>2. QED BY <1>1 DEF IsState

\* All hashes are the same: the thread ends.
LEMMA HashLocal ==
    ASSUME NEW m \in Modes, NEW sc \in Scripts, NEW p, NEW x, NEW s, NEW a, NEW b, NEW o,
           Local(m, sc, p, x, s, a, b, o), s.step = "hash",
           NEW u, u = End(s), NEW t, NEW l, l = Len(b), t = [u EXCEPT !.checked = l],
           NEW out, out = <<>>
    PROVE  Local(m, sc, p, Advance(m, sc, x), t, a \o out, b, o)
<1>1. PICK z : z = Advance(m, sc, x)
  OBVIOUS
<1>2. /\ x \in Position(sc) /\ Exact(m, sc, x, s, b) /\ Plain(s, a, b, o) /\ Sizes(m, sc, s, b)
      /\ Regular(m, sc, x)
  BY RunningAt DEF Steps
<1>3. /\ x.step = "hash" /\ s.op = x.op /\ s.cnt = x.cnt /\ x.cnt = 0 /\ Len(s.macs) = 0
      /\ Len(s.vals) = 0 /\ IsState(s) /\ ~ Logs(x)
  BY <1>2 DEF Exact, Regular, Sizes, Plain, Logs
<1>4. z.op = x.op /\ z.cnt = x.cnt /\ z.next = x.next /\ z.step = "done"
  BY <1>1, <1>2, <1>3, RoundIs
<1>5. PICK f, g : f = u /\ g = t
  OBVIOUS
<1>6. IsState(u) /\ Keeps(s, u) /\ u.step = "done"
  BY <1>3, Ends
<1>7. /\ IsState(t) /\ t.op = u.op /\ t.step = u.step /\ t.macs = u.macs /\ t.vals = u.vals
      /\ t.shares = u.shares /\ t.cnt = u.cnt /\ t.next = u.next /\ t.checked = l
  BY <1>6, Notes
<1>8. /\ IsState(t) /\ t.op = z.op /\ t.step = z.step /\ t.macs = s.macs /\ t.vals = s.vals
      /\ t.shares = s.shares /\ t.cnt = s.cnt /\ t.next = s.next /\ t.checked = l
  <2>1. IsState(g) /\ f.op = s.op /\ g.op = f.op /\ g.step = f.step /\ f.step = "done"
    BY <1>5, <1>6, <1>7 DEF Keeps
  <2>2. QED BY <1>3, <1>4, <1>6, <1>7 DEF Keeps
<1>9. l \in 0 .. Len(b)
  <2>1. Len(b) \in Nat
    BY <1>2, SeqFacts DEF Plain
  <2>2. QED BY <1>5, <2>1
<1>10. PICK body : body = 0
  OBVIOUS
<1>11. Out(z, out, body) /\ ~ Waiting(z)
  BY <1>4 DEF Out, Waiting
<1>12. PICK v : b = IF Logs(x) THEN Append(b, v) ELSE b
  BY <1>3
<1>13. s.step \in Steps /\ s.step \notin {"shares", "done"} /\ z.step # "shares" /\ x.step # "call"
  BY <1>3, <1>4 DEF Steps
<1>14. t.checked = s.checked \/ (z.step = "done" /\ t.checked \in 0 .. Len(b))
  BY <1>4, <1>8, <1>9
<1>15. Local(m, sc, p, z, t, a \o out, b, o)
  BY <1>1, <1>3, <1>4, <1>8, <1>11, <1>12, <1>13, <1>14, Resumes
<1>16. QED BY <1>1, <1>15

-----------------------------------------------------------------------------
(* All parties.                                                            *)

Typed ==
    /\ tls \in BOOLEAN /\ mode \in Modes /\ script \in Scripts
    /\ deviated \in 0 .. MaxDeviations
    /\ st = [q \in Honest |-> st[q]] /\ sent = [q \in Honest |-> sent[q]]
    /\ log = [q \in Honest |-> log[q]] /\ opened = [q \in Honest |-> opened[q]]

Placed(p, x) == Local(mode, script, p, x, st[p], sent[p], log[p], opened[p])

\* The inductive invariant: every party is somewhere on the course.
OnCourse == Typed /\ \A p \in Honest : \E x : Placed(p, x)

\* The beginning.
LEMMA StartsOnCourse ==
    ASSUME Init
    PROVE  OnCourse
<1>1. PICK m, sc, e : mode = m /\ script = sc /\ e = <<>>
  OBVIOUS
<1>2. m \in Modes /\ sc \in Scripts
  BY <1>1 DEF Init
<1>3. Typed
  BY LimitAssumption DEF Init, Typed
<1>4. ASSUME NEW p \in Honest PROVE Placed(p, Beginning)
  <2>1. PICK s : s = Start
    OBVIOUS
  <2>2. st[p] = s /\ sent[p] = e /\ log[p] = e /\ opened[p] = e
    BY <1>1, <2>1 DEF Init
  <2>3. ASeq(e) /\ Len(e) = 0
    BY <1>1, ShortSeqs
  <2>4. /\ s.op = 0 /\ s.step = "call" /\ s.macs = e /\ s.vals = e /\ s.shares = e
        /\ s.cnt = 0 /\ s.next = 1 /\ s.checked = 0 /\ IsState(s)
    BY <1>1, <2>1 DEF Start, IsState
  <2>5. Plain(s, e, e, e)
    BY <2>3, <2>4 DEF Plain
  <2>6. Sizes(m, sc, s, e)
    <3>1. Len(sc) \in Nat
      BY <1>2, ScriptFacts
    <3>2. QED BY <2>3, <2>4, <3>1 DEF Sizes
  <2>7. Values(m, s, e)
    BY <2>3, <2>4 DEF Values
  <2>8. Exact(m, sc, Beginning, s, e)
    BY <1>2, <2>3, <2>4, BeginningFacts DEF Exact
  <2>9. Kinds(m, sc, e) /\ Paired(e)
    BY <2>3 DEF Kinds, Paired
  <2>10. Fits(m, p, s, e[Len(e)].body, Len(e), e)
    BY <2>4 DEF Fits
  <2>11. Beginning \in Course(m, sc) /\ Beginning.sent = 0 /\ Beginning.log = 0 /\ Beginning.step = "call"
    BY <1>2, CourseFacts, BeginningFacts
  <2>12. Local(m, sc, p, Beginning, s, e, e, e)
    BY <2>3, <2>5, <2>6, <2>7, <2>8, <2>9, <2>10, <2>11 DEF Local
  <2>13. QED BY <1>1, <2>2, <2>12 DEF Placed
<1>5. QED BY <1>3, <1>4 DEF OnCourse

\* One party goes on from y, or throws; the others stay.
Extends(s, t) == Len(t) >= Len(s) /\ \A i \in 1 .. Len(s) : t[i] = s[i]

Leads(m, sc, y, z, t) == z = Advance(m, sc, y) \/ (z = y /\ t.step \in Exceptions)

Goes(p) ==
    /\ \E y, z : Placed(p, y) /\ Placed(p, z)' /\ Leads(mode, script, y, z, st'[p])
    /\ Extends(sent[p], sent'[p])
    /\ log'[p] = log[p] \/ \E v : log'[p] = Append(log[p], v)
    /\ \A q \in Honest \ {p} : /\ st'[q] = st[q] /\ sent'[q] = sent[q] /\ log'[q] = log[q]
                               /\ opened'[q] = opened[q]
    /\ mode' = mode /\ script' = script

\* A step of one party to x, or a throw, keeps all on the course.
LEMMA OneMoves ==
    ASSUME OnCourse, NEW p \in Honest, NEW x, NEW y, NEW t, NEW out, NEW c, NEW w,
           st' = [st EXCEPT ![p] = t], sent' = [sent EXCEPT ![p] = @ \o out],
           log' = [log EXCEPT ![p] = c], opened' = [opened EXCEPT ![p] = w],
           tls' = tls, mode' = mode, script' = script, deviated' \in 0 .. MaxDeviations,
           Local(mode, script, p, x, t, sent[p] \o out, c, w),
           Local(mode, script, p, y, st[p], sent[p], log[p], opened[p]),
           Leads(mode, script, y, x, t), ASeq(out),
           c = log[p] \/ \E v : c = Append(log[p], v)
    PROVE  OnCourse' /\ Goes(p)
<1>1. /\ st = [q \in Honest |-> st[q]] /\ sent = [q \in Honest |-> sent[q]]
      /\ log = [q \in Honest |-> log[q]] /\ opened = [q \in Honest |-> opened[q]]
  BY DEF OnCourse, Typed
<1>2. st' = [q \in Honest |-> st'[q]] /\ st'[p] = t /\ \A q \in Honest \ {p} : st'[q] = st[q]
  BY <1>1
<1>3. /\ sent' = [q \in Honest |-> sent'[q]] /\ sent'[p] = sent[p] \o out
      /\ \A q \in Honest \ {p} : sent'[q] = sent[q]
  BY <1>1
<1>4. log' = [q \in Honest |-> log'[q]] /\ log'[p] = c /\ \A q \in Honest \ {p} : log'[q] = log[q]
  BY <1>1
<1>5. /\ opened' = [q \in Honest |-> opened'[q]] /\ opened'[p] = w
      /\ \A q \in Honest \ {p} : opened'[q] = opened[q]
  BY <1>1
<1>6. Typed'
  BY <1>2, <1>3, <1>4, <1>5 DEF OnCourse, Typed
<1>7. Placed(p, x)'
  BY <1>2, <1>3, <1>4, <1>5 DEF Placed
<1>8. ASSUME NEW q \in Honest \ {p} PROVE \E g : Placed(q, g)'
  <2>1. PICK g : Placed(q, g)
    BY DEF OnCourse
  <2>2. Placed(q, g)'
    BY <1>2, <1>3, <1>4, <1>5, <2>1 DEF Placed
  <2>3. QED BY <2>2
<1>9. OnCourse'
  BY <1>6, <1>7, <1>8 DEF OnCourse
<1>10. Placed(p, y)
  BY DEF Placed
<1>11. Extends(sent[p], sent[p] \o out)
  <2>1. ASeq(sent[p])
    BY DEF Local, Plain
  <2>2. QED BY <2>1, ConcatFacts DEF Extends
<1>12. QED BY <1>2, <1>3, <1>4, <1>5, <1>7, <1>9, <1>10, <1>11 DEF Goes

\* What a party does not change.
LEMMA Unmoved ==
    ASSUME OnCourse, NEW p \in Honest
    PROVE  /\ log = [log EXCEPT ![p] = log[p]] /\ opened = [opened EXCEPT ![p] = opened[p]]
           /\ sent = [sent EXCEPT ![p] = @ \o <<>>]
<1>1. log = [log EXCEPT ![p] = log[p]] /\ opened = [opened EXCEPT ![p] = opened[p]]
  BY DEF OnCourse, Typed
<1>2. sent[p] \o <<>> = sent[p]
  <2>1. PICK x : Placed(p, x)
    BY DEF OnCourse
  <2>2. ASeq(sent[p])
    BY <2>1 DEF Placed, Local, Plain
  <2>3. QED BY <2>2, AppendFacts
<1>3. sent = [sent EXCEPT ![p] = sent[p] \o <<>>]
  BY <1>2 DEF OnCourse, Typed
<1>4. QED BY <1>1, <1>3

\* Nothing but the state of the party and its messages changes.
LEMMA QuietMove ==
    ASSUME OnCourse, NEW p \in Honest, NEW x, NEW y, NEW t, NEW out,
           st' = [st EXCEPT ![p] = t], sent' = [sent EXCEPT ![p] = @ \o out],
           UNCHANGED <<tls, mode, script, log, opened, deviated>>,
           Local(mode, script, p, x, t, sent[p] \o out, log[p], opened[p]),
           Local(mode, script, p, y, st[p], sent[p], log[p], opened[p]),
           Leads(mode, script, y, x, t), ASeq(out)
    PROVE  OnCourse' /\ Goes(p)
<1>1. PICK c, w : c = log[p] /\ w = opened[p]
  OBVIOUS
<1>2. log' = [log EXCEPT ![p] = c] /\ opened' = [opened EXCEPT ![p] = w]
  BY <1>1, Unmoved
<1>3. deviated' \in 0 .. MaxDeviations
  BY DEF OnCourse, Typed
<1>4. QED BY <1>1, <1>2, <1>3, OneMoves

\* Another wrong message of the faulty party.
LEMMA DeviateIs ==
    ASSUME OnCourse, NEW n \in Nat, Deviate(n)
    PROVE  deviated' \in 0 .. MaxDeviations /\ (deviated' = 0 => n = 0 /\ deviated = 0)
<1>1. deviated \in Nat /\ MaxDeviations \in Nat
  BY LimitAssumption DEF OnCourse, Typed
<1>2. deviated' = deviated + n /\ deviated' <= MaxDeviations
  BY DEF Deviate
<1>3. QED BY <1>1, <1>2


\* What is sent is nothing or one message.
LEMMA OutSeq ==
    ASSUME NEW p, NEW s, NEW k
    PROVE  /\ ASeq(<<>>) /\ \A kind, body : ASeq(Message(kind, body))
           /\ ASeq(SeedComm(p, s, k).out) /\ ASeq(CheckComm(p, s, k).out)
           /\ ASeq(BeginCheck(p, s, k).out) /\ ASeq(CheckIfNeeded(p, s, k).out)
<1>1. ASeq(<<>>) /\ \A kind, body : ASeq(Message(kind, body))
  BY ShortSeqs DEF Message
<1>2. \A t : ASeq(SeedComm(p, t, k).out) /\ ASeq(CheckComm(p, t, k).out)
  BY <1>1 DEF SeedComm, CheckComm
<1>3. ASeq(BeginCheck(p, s, k).out)
  <2>1. PICK t, u : /\ t = [s EXCEPT !.step = "call"]
                    /\ u = [s EXCEPT !.seed = <<>>, !.pj = 0]
    OBVIOUS
  <2>2. BeginCheck(p, s, k) \in {[s |-> t, out |-> <<>>], SeedComm(p, s, k), CheckComm(p, u, k)}
    BY <2>1, Zenon DEF BeginCheck
  <2>3. QED BY <1>1, <1>2, <2>2
<1>4. ASeq(CheckIfNeeded(p, s, k).out)
  BY <1>1, <1>3 DEF CheckIfNeeded
<1>5. QED BY <1>1, <1>2, <1>3, <1>4

\* BeginOpen.
LEMMA BeginOpenStep ==
    ASSUME OnCourse, NEW p \in Honest, BeginOpen(p)
    PROVE  OnCourse' /\ Goes(p)
<1>1. PICK m, sc, s, a, b, o : /\ mode = m /\ script = sc /\ st[p] = s /\ sent[p] = a
                               /\ log[p] = b /\ opened[p] = o
  OBVIOUS
<1>2. PICK x : Local(m, sc, p, x, s, a, b, o)
  BY <1>1 DEF OnCourse, Placed
<1>3. m \in Modes /\ sc \in Scripts
  BY <1>1 DEF OnCourse, Typed
<1>4. PICK n, u, t, out : /\ n = sc[s.op + 1].n /\ u = [s EXCEPT !.op = @ + 1]
                          /\ t = PrepareOpen(u, n) /\ out = Message("share", s.next)
  OBVIOUS
<1>5. /\ s.step = "call" /\ s.op < Len(sc) /\ sc[s.op + 1].do = "open"
      /\ st' = [st EXCEPT ![p] = t] /\ sent' = [sent EXCEPT ![p] = @ \o out]
      /\ UNCHANGED <<tls, mode, script, log, opened, firm, deviated>>
  BY <1>1, <1>4 DEF BeginOpen, Go, Doing, Coming, Begun
<1>6. Local(m, sc, p, Advance(m, sc, x), t, a \o out, b, o)
  BY <1>1, <1>2, <1>3, <1>4, <1>5, OpenLocal
<1>7. Local(mode, script, p, x, st[p], sent[p], log[p], opened[p])
  BY <1>1, <1>2
<1>8. Leads(mode, script, x, Advance(m, sc, x), t)
  BY <1>1 DEF Leads
<1>9. ASeq(out)
  BY <1>4, OutSeq
<1>10. QED BY <1>1, <1>5, <1>6, <1>7, <1>8, <1>9, QuietMove

\* What an exchange is: n values new arrive, and the party goes on as r.
Exchanges(p, x, n, new, u, r) ==
    LET s == st[p]
    IN /\ Local(mode, script, p, x, s, sent[p], log[p], opened[p]) /\ s.step = "shares"
       /\ n \in Nat /\ script[s.op].n = n /\ Len(s.macs) = s.cnt + n /\ s.cnt \in Nat
       /\ ASeq(new) /\ Len(new) = n
       /\ \A i \in 1 .. n : new[i] = [id |-> s.next - n + i - 1, err |-> new[i].err]
       /\ IsState(u) /\ u.op = s.op /\ u.macs = s.macs /\ Joins(s.vals, new, u.vals)
       /\ u.shares = s.shares /\ u.cnt = s.cnt + n /\ u.next = s.next /\ u.checked = s.checked
       /\ r = CheckIfNeeded(p, u, NextRound(sent[p]))
       /\ Go(p, r.s, r.out) /\ opened' = [opened EXCEPT ![p] = @ \o new]
       /\ \E k \in Nat : Deviate(k) /\ (k = 0 => \A i \in 1 .. n : new[i].err = 0)
       /\ UNCHANGED <<tls, mode, script, log, firm>>

\* What exchange does when the shares have arrived (MAC_Check.hpp:104-109).
LEMMA ExchangeIs ==
    ASSUME OnCourse, NEW p \in Honest, Exchange(p)
    PROVE  \E x, n, new, u, r : Exchanges(p, x, n, new, u, r)
<1>1. PICK m, sc, s, a, b, o : /\ mode = m /\ script = sc /\ st[p] = s /\ sent[p] = a
                               /\ log[p] = b /\ opened[p] = o
  OBVIOUS
<1>2. PICK x : Local(m, sc, p, x, s, a, b, o)
  BY <1>1 DEF OnCourse, Placed
<1>3. m \in Modes /\ sc \in Scripts
  BY <1>1 DEF OnCourse, Typed
<1>4. PICK n : n = sc[s.op].n
  OBVIOUS
<1>5. s.step = "shares" /\ UNCHANGED <<tls, mode, script, log, firm>>
  BY <1>1 DEF Exchange, Doing
<1>6. PICK err \in [1 .. Here(p).n -> {0, 1}] :
         LET num == Here(p).n
             add == [i \in 1 .. num |-> [id |-> st[p].next - num + i - 1, err |-> err[i]]]
             s1 == [st[p] EXCEPT !.vals = @ \o add, !.cnt = @ + num]
             res == CheckIfNeeded(p, s1, Round(p) + 1)
         IN /\ opened' = [opened EXCEPT ![p] = @ \o add]
            /\ Deviate(Cardinality({i \in 1 .. num : err[i] = 1}))
            /\ Go(p, res.s, res.out)
  BY Zenon DEF Exchange
<1>7. PICK new : new = [i \in 1 .. Here(p).n |-> [id |-> st[p].next - Here(p).n + i - 1, err |-> err[i]]]
  OBVIOUS
<1>8. PICK k : k = Cardinality({i \in 1 .. Here(p).n : err[i] = 1})
  OBVIOUS
<1>9. PICK u : u = [st[p] EXCEPT !.vals = @ \o new, !.cnt = @ + Here(p).n]
  OBVIOUS
<1>10. PICK r : r = CheckIfNeeded(p, u, Round(p) + 1)
  OBVIOUS
<1>11. opened' = [opened EXCEPT ![p] = @ \o new] /\ Deviate(k) /\ Go(p, r.s, r.out)
  BY <1>6, <1>7, <1>8, <1>9, <1>10
<1>12. Here(p).n = n /\ Round(p) + 1 = NextRound(a)
  BY <1>1, <1>4 DEF Here, Round, NextRound
<1>13. n \in Nat /\ Len(s.macs) = s.cnt + n /\ s.cnt \in Nat
  <2>1. x \in Position(sc) /\ Exact(m, sc, x, s, b)
    BY <1>2, <1>3, <1>5, RunningAt DEF Steps
  <2>2. x.op \in 0 .. Len(sc) /\ x.op > 0 /\ s.op = x.op /\ x.cnt \in Nat
    BY <1>5, <2>1 DEF Position, Exact
  <2>3. x.op \in 1 .. Len(sc)
    BY <1>3, <2>2, ScriptFacts
  <2>4. QED BY <1>3, <1>4, <1>5, <2>1, <2>2, <2>3, ScriptFacts DEF Exact
<1>14. /\ ASeq(new) /\ Len(new) = n
       /\ \A i \in 1 .. n : new[i] = [id |-> s.next - n + i - 1, err |-> err[i]]
  <2>1. new = [i \in 1 .. n |-> [id |-> s.next - n + i - 1, err |-> err[i]]]
    BY <1>1, <1>7, <1>12
  <2>2. QED BY <1>13, <2>1, FunctionSeq
<1>15. \A i \in 1 .. n : new[i].err = err[i]
  BY <1>14
<1>16. /\ IsState(u) /\ u.op = s.op /\ u.macs = s.macs /\ Joins(s.vals, new, u.vals)
       /\ u.shares = s.shares /\ u.cnt = s.cnt + n /\ u.next = s.next /\ u.checked = s.checked
  <2>1. IsState(s) /\ ASeq(s.vals)
    BY <1>2 DEF Local, Plain
  <2>2. u = [s EXCEPT !.vals = @ \o new, !.cnt = @ + n]
    BY <1>1, <1>9, <1>12
  <2>3. u = [op |-> s.op, step |-> s.step, macs |-> s.macs, vals |-> s.vals \o new,
             shares |-> s.shares, cnt |-> s.cnt + n, next |-> s.next, seed |-> s.seed,
             pj |-> s.pj, comms |-> s.comms, checked |-> s.checked]
    BY <2>1, <2>2 DEF IsState
  <2>4. /\ IsState(u) /\ u.op = s.op /\ u.macs = s.macs /\ u.vals = s.vals \o new
        /\ u.shares = s.shares /\ u.cnt = s.cnt + n /\ u.next = s.next
        /\ u.checked = s.checked
    BY <2>3 DEF IsState
  <2>5. Joins(s.vals, new, u.vals)
    BY <1>14, <2>1, <2>4, Joined
  <2>6. QED BY <2>4, <2>5
<1>17. k \in Nat /\ (k = 0 => \A i \in 1 .. n : new[i].err = 0)
  <2>1. PICK W : W = {i \in 1 .. n : err[i] = 1}
    OBVIOUS
  <2>2. IsFiniteSet(W)
    <3>1. IsFiniteSet(1 .. n)
      BY <1>13, FS_Interval
    <3>2. W \subseteq 1 .. n
      BY <2>1
    <3>3. QED BY <3>1, <3>2, FS_Subset
  <2>3. k = Cardinality(W)
    BY <1>8, <1>12, <2>1
  <2>4. k \in Nat /\ (k = 0 => W = {})
    BY <2>2, <2>3, FS_CardinalityType, FS_EmptySet
  <2>5. \A i \in 1 .. n : err[i] \in {0, 1}
    BY <1>12
  <2>6. QED BY <1>15, <2>1, <2>4, <2>5
<1>18. \A i \in 1 .. n : new[i] = [id |-> s.next - n + i - 1, err |-> new[i].err]
  BY <1>14, <1>15
<1>19. /\ Local(mode, script, p, x, st[p], sent[p], log[p], opened[p])
       /\ st[p].step = "shares" /\ script[st[p].op].n = n
       /\ r = CheckIfNeeded(p, u, NextRound(sent[p]))
  BY <1>1, <1>2, <1>4, <1>5, <1>10, <1>12
<1>20. \E h \in Nat : Deviate(h) /\ (h = 0 => \A i \in 1 .. n : new[i].err = 0)
  BY <1>11, <1>17
<1>21. Exchanges(p, x, n, new, u, r)
  BY <1>1, <1>5, <1>11, <1>13, <1>14, <1>16, <1>18, <1>19, <1>20 DEF Exchanges
<1>22. QED BY <1>21

\* Exchange.
LEMMA ExchangeStep ==
    ASSUME OnCourse, NEW p \in Honest, Exchange(p)
    PROVE  OnCourse' /\ Goes(p)
<1>1. PICK m, sc, s, a, b, o : /\ mode = m /\ script = sc /\ st[p] = s /\ sent[p] = a
                               /\ log[p] = b /\ opened[p] = o
  OBVIOUS
<1>2. m \in Modes /\ sc \in Scripts
  BY <1>1 DEF OnCourse, Typed
<1>3. PICK x, n, new, u, r : Exchanges(p, x, n, new, u, r)
  BY ExchangeIs
<1>4. /\ Local(m, sc, p, x, s, a, b, o) /\ s.step = "shares" /\ sc[s.op].n = n
      /\ ASeq(new) /\ Len(new) = n /\ \A i \in 1 .. n : new[i].id = s.next - n + i - 1
      /\ UNCHANGED <<tls, mode, script, log, firm>>
  BY <1>1, <1>3 DEF Exchanges
<1>5. /\ IsState(u) /\ u.op = s.op /\ u.macs = s.macs /\ Joins(s.vals, new, u.vals)
      /\ u.shares = s.shares /\ u.cnt = s.cnt + n /\ u.next = s.next /\ u.checked = s.checked
      /\ r = CheckIfNeeded(p, u, NextRound(a))
  BY <1>1, <1>3 DEF Exchanges
<1>6. PICK w : w = o \o new
  OBVIOUS
<1>7. Joins(o, new, w)
  BY <1>4, <1>6, Joined DEF Local, Plain
<1>8. Local(m, sc, p, Advance(m, sc, x), r.s, a \o r.out, b, w)
  BY <1>1, <1>2, <1>4, <1>5, <1>7, ExchangeLocal
<1>9. PICK k \in Nat : Deviate(k)
  BY <1>3 DEF Exchanges
<1>10. deviated' \in 0 .. MaxDeviations
  BY <1>9, DeviateIs
<1>11. Go(p, r.s, r.out) /\ opened' = [opened EXCEPT ![p] = @ \o new]
  BY <1>3 DEF Exchanges
<1>12. /\ st' = [st EXCEPT ![p] = r.s] /\ sent' = [sent EXCEPT ![p] = @ \o r.out]
       /\ log' = [log EXCEPT ![p] = b] /\ opened' = [opened EXCEPT ![p] = w]
  BY <1>1, <1>4, <1>6, <1>11, Unmoved DEF Go
<1>13. Local(mode, script, p, x, st[p], sent[p], log[p], opened[p])
  BY <1>1, <1>4
<1>14. Leads(mode, script, x, Advance(m, sc, x), r.s)
  BY <1>1 DEF Leads
<1>15. ASeq(r.out)
  BY <1>5, OutSeq
<1>16. b = log[p] \/ \E v : b = Append(log[p], v)
  BY <1>1
<1>17. QED BY <1>1, <1>4, <1>8, <1>10, <1>12, <1>13, <1>14, <1>15, <1>16, OneMoves

\* What adding a value is: v comes another way, and the party goes on as r.
Adds(p, x, v, u, r) ==
    LET s == st[p]
    IN /\ Local(mode, script, p, x, s, sent[p], log[p], opened[p])
       /\ s.step = "call" /\ s.op < Len(script) /\ script[s.op + 1].do = "add"
       /\ v = [id |-> s.next, err |-> v.err]
       /\ IsState(u) /\ u.op = s.op + 1 /\ Appends(s.macs, s.next, u.macs)
       /\ Appends(s.vals, v, u.vals)
       /\ IF mode = "z2k" THEN Appends(s.shares, s.next, u.shares) ELSE u.shares = s.shares
       /\ u.cnt = s.cnt + 1 /\ u.next = s.next + 1 /\ u.checked = s.checked
       /\ r = CheckIfNeeded(p, u, NextRound(sent[p]))
       /\ Go(p, r.s, r.out) /\ opened' = [opened EXCEPT ![p] = Append(@, v)]
       /\ v.err \in {0, 1} /\ Deviate(v.err)
       /\ UNCHANGED <<tls, mode, script, log, firm>>

\* What AddToCheck does.
LEMMA AddToCheckIs ==
    ASSUME OnCourse, NEW p \in Honest, AddToCheck(p)
    PROVE  \E x, v, u, r : Adds(p, x, v, u, r)
<1>1. PICK m, sc, s, a, b, o : /\ mode = m /\ script = sc /\ st[p] = s /\ sent[p] = a
                               /\ log[p] = b /\ opened[p] = o
  OBVIOUS
<1>2. PICK x : Local(m, sc, p, x, s, a, b, o)
  BY <1>1 DEF OnCourse, Placed
<1>3. /\ s.step = "call" /\ s.op < Len(sc) /\ sc[s.op + 1].do = "add"
      /\ UNCHANGED <<tls, mode, script, log, firm>>
  BY <1>1 DEF AddToCheck, Doing, Coming
<1>4. PICK f : f = [s EXCEPT !.op = @ + 1]
  OBVIOUS
<1>5. PICK e \in {0, 1} :
         LET b1 == Begun(p)
             v1 == [id |-> b1.next, err |-> e]
             s1 == [b1 EXCEPT !.macs = Append(@, b1.next), !.vals = Append(@, v1),
                              !.shares = IF mode = "z2k" THEN Append(@, b1.next) ELSE @,
                              !.cnt = @ + 1, !.next = @ + 1]
             res == CheckIfNeeded(p, s1, Round(p) + 1)
         IN /\ opened' = [opened EXCEPT ![p] = Append(@, v1)]
            /\ Deviate(e)
            /\ Go(p, res.s, res.out)
  BY Zenon DEF AddToCheck
<1>6. PICK v : v = [id |-> Begun(p).next, err |-> e]
  OBVIOUS
<1>7. PICK u : u = [Begun(p) EXCEPT !.macs = Append(@, Begun(p).next), !.vals = Append(@, v),
                            !.shares = IF mode = "z2k" THEN Append(@, Begun(p).next) ELSE @,
                            !.cnt = @ + 1, !.next = @ + 1]
  OBVIOUS
<1>8. PICK r : r = CheckIfNeeded(p, u, Round(p) + 1)
  OBVIOUS
<1>9. opened' = [opened EXCEPT ![p] = Append(@, v)] /\ Deviate(e) /\ Go(p, r.s, r.out)
  BY <1>5, <1>6, <1>7, <1>8
<1>10. f = Begun(p) /\ Round(p) + 1 = NextRound(a)
  BY <1>1, <1>4 DEF Begun, Round, NextRound
<1>11. /\ f = [op |-> s.op + 1, step |-> s.step, macs |-> s.macs, vals |-> s.vals,
               shares |-> s.shares, cnt |-> s.cnt, next |-> s.next, seed |-> s.seed,
               pj |-> s.pj, comms |-> s.comms, checked |-> s.checked]
  BY <1>2, <1>4 DEF IsState, Local, Plain
<1>12. Plain(s, a, b, o)
  BY <1>2 DEF Local
<1>13. v = [id |-> s.next, err |-> v.err] /\ v.err = e
  <2>1. f.next = s.next
    BY <1>11
  <2>2. v = [id |-> s.next, err |-> e]
    BY <1>6, <1>10, <2>1
  <2>3. QED BY <2>2
<1>14. /\ IsState(u) /\ u.op = s.op + 1 /\ u.macs = Append(s.macs, s.next)
       /\ u.vals = Append(s.vals, v)
       /\ u.shares = IF m = "z2k" THEN Append(s.shares, s.next) ELSE s.shares
       /\ u.cnt = s.cnt + 1 /\ u.next = s.next + 1 /\ u.checked = s.checked
  <2>1. u = [f EXCEPT !.macs = Append(@, f.next), !.vals = Append(@, v),
                      !.shares = IF m = "z2k" THEN Append(@, f.next) ELSE @,
                      !.cnt = @ + 1, !.next = @ + 1]
    BY <1>1, <1>7, <1>10
  <2>2. u = [op |-> s.op + 1, step |-> s.step, macs |-> Append(s.macs, s.next),
             vals |-> Append(s.vals, v),
             shares |-> IF m = "z2k" THEN Append(s.shares, s.next) ELSE s.shares,
             cnt |-> s.cnt + 1, next |-> s.next + 1, seed |-> s.seed, pj |-> s.pj,
             comms |-> s.comms, checked |-> s.checked]
    BY <1>11, <2>1
  <2>3. QED BY <2>2 DEF IsState
<1>15. /\ Appends(s.macs, s.next, u.macs) /\ Appends(s.vals, v, u.vals)
       /\ IF m = "z2k" THEN Appends(s.shares, s.next, u.shares) ELSE u.shares = s.shares
  BY <1>12, <1>14, Appended DEF Plain
<1>16. Adds(p, x, v, u, r)
  <2>1. IsState(u) /\ u.op = s.op + 1 /\ u.cnt = s.cnt + 1 /\ u.next = s.next + 1
        /\ u.checked = s.checked
    BY <1>14
  <2>2. r = CheckIfNeeded(p, u, NextRound(a))
    BY <1>8, <1>10
  <2>3. v.err \in {0, 1} /\ Deviate(v.err)
    BY <1>9, <1>13
  <2>4. QED BY <1>1, <1>2, <1>3, <1>9, <1>13, <1>15, <2>1, <2>2, <2>3 DEF Adds
<1>17. QED BY <1>16

\* AddToCheck.
LEMMA AddToCheckStep ==
    ASSUME OnCourse, NEW p \in Honest, AddToCheck(p)
    PROVE  OnCourse' /\ Goes(p)
<1>1. PICK m, sc, s, a, b, o : /\ mode = m /\ script = sc /\ st[p] = s /\ sent[p] = a
                               /\ log[p] = b /\ opened[p] = o
  OBVIOUS
<1>2. m \in Modes /\ sc \in Scripts
  BY <1>1 DEF OnCourse, Typed
<1>3. PICK x, v, u, r : Adds(p, x, v, u, r)
  BY AddToCheckIs
<1>4. /\ Local(m, sc, p, x, s, a, b, o) /\ s.step = "call" /\ s.op < Len(sc)
      /\ sc[s.op + 1].do = "add" /\ v.id = s.next
      /\ UNCHANGED <<tls, mode, script, log, firm>>
  BY <1>1, <1>3 DEF Adds
<1>5. /\ IsState(u) /\ u.op = s.op + 1 /\ Appends(s.macs, s.next, u.macs)
      /\ Appends(s.vals, v, u.vals)
      /\ IF m = "z2k" THEN Appends(s.shares, s.next, u.shares) ELSE u.shares = s.shares
      /\ u.cnt = s.cnt + 1 /\ u.next = s.next + 1 /\ u.checked = s.checked
      /\ r = CheckIfNeeded(p, u, NextRound(a))
  BY <1>1, <1>3 DEF Adds
<1>6. PICK w : w = Append(o, v)
  OBVIOUS
<1>7. Appends(o, v, w)
  BY <1>4, <1>6, Appended DEF Local, Plain
<1>8. Local(m, sc, p, Advance(m, sc, x), r.s, a \o r.out, b, w)
  BY <1>1, <1>2, <1>4, <1>5, <1>7, AddLocal
<1>9. deviated' \in 0 .. MaxDeviations
  <2>1. v.err \in Nat /\ Deviate(v.err)
    BY <1>3 DEF Adds
  <2>2. QED BY <2>1, DeviateIs
<1>10. Go(p, r.s, r.out) /\ opened' = [opened EXCEPT ![p] = Append(@, v)]
  BY <1>3 DEF Adds
<1>11. /\ st' = [st EXCEPT ![p] = r.s] /\ sent' = [sent EXCEPT ![p] = @ \o r.out]
       /\ log' = [log EXCEPT ![p] = b] /\ opened' = [opened EXCEPT ![p] = w]
  BY <1>1, <1>4, <1>6, <1>10, Unmoved DEF Go
<1>12. Local(mode, script, p, x, st[p], sent[p], log[p], opened[p])
  BY <1>1, <1>4
<1>13. Leads(mode, script, x, Advance(m, sc, x), r.s)
  BY <1>1 DEF Leads
<1>14. ASeq(r.out)
  BY <1>5, OutSeq
<1>15. b = log[p] \/ \E g : b = Append(log[p], g)
  BY <1>1
<1>16. QED BY <1>1, <1>4, <1>8, <1>9, <1>11, <1>12, <1>13, <1>14, <1>15, OneMoves

\* Check.
LEMMA CheckStep ==
    ASSUME OnCourse, NEW p \in Honest, Check(p)
    PROVE  OnCourse' /\ Goes(p)
<1>1. PICK m, sc, s, a, b, o : /\ mode = m /\ script = sc /\ st[p] = s /\ sent[p] = a
                               /\ log[p] = b /\ opened[p] = o
  OBVIOUS
<1>2. PICK x : Local(m, sc, p, x, s, a, b, o)
  BY <1>1 DEF OnCourse, Placed
<1>3. m \in Modes /\ sc \in Scripts /\ IsState(s)
  BY <1>1, <1>2 DEF OnCourse, Typed, Local, Plain
<1>4. PICK u : u = Begun(p)
  OBVIOUS
<1>5. u = [s EXCEPT !.op = @ + 1]
  BY <1>1, <1>4 DEF Begun
<1>6. /\ IsState(u) /\ u.op = s.op + 1 /\ u.macs = s.macs /\ u.vals = s.vals
      /\ u.shares = s.shares /\ u.cnt = s.cnt /\ u.next = s.next /\ u.checked = s.checked
  BY <1>3, <1>5, BegunIs
<1>7. NextRound(a) = Round(p) + 1
  BY <1>1 DEF Round, NextRound
<1>8. PICK r : r = BeginCheck(p, u, Round(p) + 1)
  OBVIOUS
<1>9. /\ s.step = "call" /\ s.op < Len(sc) /\ sc[s.op + 1].do = "check"
      /\ st' = [st EXCEPT ![p] = r.s] /\ sent' = [sent EXCEPT ![p] = @ \o r.out]
      /\ UNCHANGED <<tls, mode, script, log, opened, firm, deviated>>
  BY <1>1, <1>4, <1>8 DEF Check, Go, Doing, Coming
<1>10. Local(m, sc, p, Advance(m, sc, x), r.s, a \o r.out, b, o)
  BY <1>1, <1>2, <1>3, <1>6, <1>7, <1>8, <1>9, CheckLocal
<1>11. Local(mode, script, p, x, st[p], sent[p], log[p], opened[p])
  BY <1>1, <1>2
<1>12. Leads(mode, script, x, Advance(m, sc, x), r.s)
  BY <1>1 DEF Leads
<1>13. ASeq(r.out)
  BY <1>8, OutSeq
<1>14. QED BY <1>1, <1>9, <1>10, <1>11, <1>12, <1>13, QuietMove

\* CheckFor.
LEMMA CheckForStep ==
    ASSUME OnCourse, NEW p \in Honest, CheckFor(p)
    PROVE  OnCourse' /\ Goes(p)
<1>1. PICK m, sc, s, a, b, o : /\ mode = m /\ script = sc /\ st[p] = s /\ sent[p] = a
                               /\ log[p] = b /\ opened[p] = o
  OBVIOUS
<1>2. PICK x : Local(m, sc, p, x, s, a, b, o)
  BY <1>1 DEF OnCourse, Placed
<1>3. m \in Modes /\ sc \in Scripts /\ IsState(s)
  BY <1>1, <1>2 DEF OnCourse, Typed, Local, Plain
<1>4. PICK u : u = Begun(p)
  OBVIOUS
<1>5. u = [s EXCEPT !.op = @ + 1]
  BY <1>1, <1>4 DEF Begun
<1>6. /\ IsState(u) /\ u.op = s.op + 1 /\ u.macs = s.macs /\ u.vals = s.vals
      /\ u.shares = s.shares /\ u.cnt = s.cnt /\ u.next = s.next /\ u.checked = s.checked
  BY <1>3, <1>5, BegunIs
<1>7. NextRound(a) = Round(p) + 1
  BY <1>1 DEF Round, NextRound
<1>8. /\ s.step = "call" /\ s.op < Len(sc) /\ sc[s.op + 1].do = "for"
      /\ UNCHANGED <<tls, mode, script, log, opened, firm, deviated>>
  BY <1>1 DEF CheckFor, Doing, Coming
<1>9. PICK r : /\ Go(p, r.s, r.out)
               /\ \/ r = [s |-> [Begun(p) EXCEPT !.step = "Offline_Check_Error"], out |-> <<>>]
                  \/ r = BeginCheck(p, Begun(p), Round(p) + 1)
  BY Zenon DEF CheckFor
<1>10. st' = [st EXCEPT ![p] = r.s] /\ sent' = [sent EXCEPT ![p] = @ \o r.out]
  BY <1>9 DEF Go
<1>11. Local(mode, script, p, x, st[p], sent[p], log[p], opened[p])
  BY <1>1, <1>2
<1>12. CASE r = BeginCheck(p, Begun(p), Round(p) + 1)
  <2>1. r = BeginCheck(p, u, NextRound(a))
    BY <1>4, <1>7, <1>12
  <2>2. Local(m, sc, p, Advance(m, sc, x), r.s, a \o r.out, b, o)
    BY <1>1, <1>2, <1>3, <1>6, <1>8, <2>1, CheckLocal
  <2>3. Leads(mode, script, x, Advance(m, sc, x), r.s) /\ ASeq(r.out)
    BY <1>1, <2>1, OutSeq DEF Leads
  <2>4. QED BY <1>1, <1>8, <1>10, <1>11, <2>2, <2>3, QuietMove
<1>13. CASE r = [s |-> [Begun(p) EXCEPT !.step = "Offline_Check_Error"], out |-> <<>>]
  <2>1. PICK e, t, out : /\ e = "Offline_Check_Error" /\ out = <<>>
                         /\ t = [u EXCEPT !.step = e]
    OBVIOUS
  <2>2. r.s = t /\ r.out = out
    BY <1>4, <1>13, <2>1
  <2>3. IsState(t) /\ Keeps(u, t)
    BY <1>6, <2>1, StepOnly
  <2>4. t.step \in Exceptions
    <3>1. t.step = e
      BY <1>6, <2>1, StepOnly
    <3>2. QED BY <2>1, <3>1 DEF Exceptions
  <2>5. s.step \in Steps /\ t.op \in 0 .. Len(sc)
    <3>1. Sizes(m, sc, s, b) /\ t.op = s.op + 1 /\ Len(sc) \in Nat
      BY <1>2, <1>3, <1>6, <2>3, ScriptFacts DEF Local, Keeps
    <3>2. s.op \in 0 .. Len(sc)
      BY <3>1 DEF Sizes
    <3>3. QED BY <1>8, <3>1, <3>2 DEF Steps
  <2>6. /\ t.macs = s.macs /\ t.vals = s.vals /\ t.shares = s.shares /\ t.cnt = s.cnt
        /\ t.checked = s.checked
    BY <1>6, <2>3 DEF Keeps
  <2>7. Local(m, sc, p, x, t, a \o out, b, o)
    <3>1. out = <<>> /\ IsState(t)
      BY <2>1, <2>3
    <3>2. QED BY <1>2, <1>3, <2>4, <2>5, <2>6, <3>1, ThrowKeeping
  <2>8. st' = [st EXCEPT ![p] = t] /\ sent' = [sent EXCEPT ![p] = @ \o out]
    BY <1>10, <2>2
  <2>9. Leads(mode, script, x, x, t) /\ ASeq(out)
    BY <1>1, <2>1, <2>4, OutSeq DEF Leads
  <2>10. QED BY <1>1, <1>8, <1>11, <2>7, <2>8, <2>9, QuietMove
<1>14. QED BY <1>9, <1>12, <1>13

\* CreateRandom.
LEMMA CreateRandomStep ==
    ASSUME OnCourse, NEW p \in Honest, CreateRandom(p)
    PROVE  OnCourse' /\ Goes(p)
<1>1. PICK m, sc, s, a, b, o : /\ mode = m /\ script = sc /\ st[p] = s /\ sent[p] = a
                               /\ log[p] = b /\ opened[p] = o
  OBVIOUS
<1>2. PICK x : Local(m, sc, p, x, s, a, b, o)
  BY <1>1 DEF OnCourse, Placed
<1>3. m \in Modes /\ sc \in Scripts /\ IsState(s)
  BY <1>1, <1>2 DEF OnCourse, Typed, Local, Plain
<1>4. PICK u : u = Begun(p)
  OBVIOUS
<1>5. u = [s EXCEPT !.op = @ + 1]
  BY <1>1, <1>4 DEF Begun
<1>6. /\ IsState(u) /\ u.op = s.op + 1 /\ u.macs = s.macs /\ u.vals = s.vals
      /\ u.shares = s.shares /\ u.cnt = s.cnt /\ u.next = s.next /\ u.checked = s.checked
  BY <1>3, <1>5, BegunIs
<1>7. NextRound(a) = Round(p) + 1
  BY <1>1 DEF Round, NextRound
<1>8. PICK r : r = SeedComm(p, u, Round(p) + 1)
  OBVIOUS
<1>9. /\ s.step = "call" /\ s.op < Len(sc) /\ sc[s.op + 1].do = "random"
      /\ st' = [st EXCEPT ![p] = r.s] /\ sent' = [sent EXCEPT ![p] = @ \o r.out]
      /\ UNCHANGED <<tls, mode, script, log, opened, firm, deviated>>
  BY <1>1, <1>4, <1>8 DEF CreateRandom, Go, Doing, Coming
<1>10. Local(m, sc, p, Advance(m, sc, x), r.s, a \o r.out, b, o)
  BY <1>1, <1>2, <1>3, <1>6, <1>7, <1>8, <1>9, RandomLocal
<1>11. Local(mode, script, p, x, st[p], sent[p], log[p], opened[p])
  BY <1>1, <1>2
<1>12. Leads(mode, script, x, Advance(m, sc, x), r.s)
  BY <1>1 DEF Leads
<1>13. ASeq(r.out)
  BY <1>8, OutSeq
<1>14. QED BY <1>1, <1>9, <1>10, <1>11, <1>12, <1>13, QuietMove

\* ReceiveHighBits.
LEMMA ReceiveHighBitsStep ==
    ASSUME OnCourse, NEW p \in Honest, ReceiveHighBits(p)
    PROVE  OnCourse' /\ Goes(p)
<1>1. PICK m, sc, s, a, b, o : /\ mode = m /\ script = sc /\ st[p] = s /\ sent[p] = a
                               /\ log[p] = b /\ opened[p] = o
  OBVIOUS
<1>2. PICK x : Local(m, sc, p, x, s, a, b, o)
  BY <1>1 DEF OnCourse, Placed
<1>3. m \in Modes /\ sc \in Scripts /\ IsState(s)
  BY <1>1, <1>2 DEF OnCourse, Typed, Local, Plain
<1>4. PICK e \in {0, 1} :
         LET res == CheckComm(p, [st[p] EXCEPT !.pj = e], Round(p) + 1)
         IN Deviate(e) /\ Go(p, res.s, res.out)
  BY Zenon DEF ReceiveHighBits
<1>5. PICK u : u = [s EXCEPT !.pj = e]
  OBVIOUS
<1>6. PICK r : r = CheckComm(p, u, Round(p) + 1)
  OBVIOUS
<1>7. /\ s.step = "pj" /\ UNCHANGED <<tls, mode, script, log, opened, firm>>
  BY <1>1 DEF ReceiveHighBits, Doing
<1>8. Deviate(e) /\ st' = [st EXCEPT ![p] = r.s] /\ sent' = [sent EXCEPT ![p] = @ \o r.out]
  BY <1>1, <1>4, <1>5, <1>6 DEF Go
<1>9. NextRound(a) = Round(p) + 1
  BY <1>1 DEF Round, NextRound
<1>10. IsState(u) /\ Keeps(s, u)
  <2>1. u = [op |-> s.op, step |-> s.step, macs |-> s.macs, vals |-> s.vals,
             shares |-> s.shares, cnt |-> s.cnt, next |-> s.next, seed |-> s.seed, pj |-> e,
             comms |-> s.comms, checked |-> s.checked]
    BY <1>3, <1>5 DEF IsState
  <2>2. QED BY <2>1 DEF IsState, Keeps
<1>11. Local(m, sc, p, Advance(m, sc, x), r.s, a \o r.out, b, o)
  BY <1>1, <1>2, <1>3, <1>6, <1>7, <1>9, <1>10, HighBitsLocal
<1>12. log' = [log EXCEPT ![p] = b] /\ opened' = [opened EXCEPT ![p] = o]
  BY <1>1, <1>7, Unmoved
<1>13. deviated' \in 0 .. MaxDeviations
  BY <1>8, DeviateIs
<1>14. PICK t, out : t = r.s /\ out = r.out
  OBVIOUS
<1>15. /\ Local(mode, script, p, Advance(m, sc, x), t, sent[p] \o out, b, o)
       /\ tls' = tls /\ mode' = mode /\ script' = script
  BY <1>1, <1>7, <1>11, <1>14
<1>16. st' = [st EXCEPT ![p] = t] /\ sent' = [sent EXCEPT ![p] = @ \o out]
  BY <1>8, <1>14
<1>17. Local(mode, script, p, x, st[p], sent[p], log[p], opened[p])
  BY <1>1, <1>2
<1>18. Leads(mode, script, x, Advance(m, sc, x), t)
  BY <1>1 DEF Leads
<1>19. ASeq(out)
  BY <1>6, <1>14, OutSeq
<1>20. b = log[p] \/ \E g : b = Append(log[p], g)
  BY <1>1
<1>21. QED BY <1>12, <1>13, <1>15, <1>16, <1>17, <1>18, <1>19, <1>20, OneMoves

\* CheckBroadcast.
LEMMA CheckBroadcastStep ==
    ASSUME OnCourse, NEW p \in Honest, CheckBroadcast(p)
    PROVE  OnCourse' /\ Goes(p)
<1>1. PICK m, sc, s, a, b, o : /\ mode = m /\ script = sc /\ st[p] = s /\ sent[p] = a
                               /\ log[p] = b /\ opened[p] = o
  OBVIOUS
<1>2. PICK x : Local(m, sc, p, x, s, a, b, o)
  BY <1>1 DEF OnCourse, Placed
<1>3. m \in Modes /\ sc \in Scripts /\ IsState(s)
  BY <1>1, <1>2 DEF OnCourse, Typed, Local, Plain
<1>4. PICK u : u = Begun(p)
  OBVIOUS
<1>5. u = [s EXCEPT !.op = @ + 1]
  BY <1>1, <1>4 DEF Begun
<1>6. /\ IsState(u) /\ u.op = s.op + 1 /\ u.macs = s.macs /\ u.vals = s.vals
      /\ u.shares = s.shares /\ u.cnt = s.cnt /\ u.next = s.next /\ u.checked = s.checked
  BY <1>3, <1>5, BegunIs
<1>7. NextRound(a) = Round(p) + 1
  BY <1>1 DEF Round, NextRound
<1>8. /\ s.step = "call" /\ s.op < Len(sc) /\ sc[s.op + 1].do = "finish"
      /\ UNCHANGED <<tls, mode, script, log, opened, firm, deviated>>
  BY <1>1 DEF CheckBroadcast, Doing, Coming
<1>9. PICK t, out : /\ Go(p, t, out)
                    /\ IF Len(b) = s.checked THEN t = End(u) /\ out = <<>>
                       ELSE t = [u EXCEPT !.step = "hash"]
                            /\ out = Message("hash", SubSeq(b, s.checked + 1, Len(b)))
  <2>1. IF Len(log[p]) = st[p].checked
        THEN Go(p, End(Begun(p)), <<>>)
        ELSE Go(p, [Begun(p) EXCEPT !.step = "hash"],
                Message("hash", SubSeq(log[p], st[p].checked + 1, Len(log[p]))))
    BY Zenon DEF CheckBroadcast
  <2>2. IF Len(b) = s.checked
        THEN Go(p, End(u), <<>>)
        ELSE Go(p, [u EXCEPT !.step = "hash"],
                Message("hash", SubSeq(b, s.checked + 1, Len(b))))
    BY <1>1, <1>4, <2>1
  <2>3. QED BY <2>2
<1>10. st' = [st EXCEPT ![p] = t] /\ sent' = [sent EXCEPT ![p] = @ \o out]
  BY <1>9 DEF Go
<1>11. Local(m, sc, p, Advance(m, sc, x), t, a \o out, b, o)
  BY <1>2, <1>3, <1>6, <1>8, <1>9, FinishLocal
<1>12. Local(mode, script, p, x, st[p], sent[p], log[p], opened[p])
  BY <1>1, <1>2
<1>13. Leads(mode, script, x, Advance(m, sc, x), t)
  BY <1>1 DEF Leads
<1>14. ASeq(out)
  BY <1>9, OutSeq
<1>15. QED BY <1>1, <1>8, <1>10, <1>11, <1>12, <1>13, <1>14, QuietMove

\* A party throws and changes nothing else.
LEMMA ThrowMove ==
    ASSUME NEW m \in Modes, NEW sc \in Scripts, NEW p, NEW x, NEW s, NEW a, NEW b, NEW o,
           Local(m, sc, p, x, s, a, b, o), s.step \in Steps, NEW e \in Exceptions,
           NEW t, t = [s EXCEPT !.step = e], NEW out, out = <<>>,
           NEW v, NEW c, c = b \/ (c = Append(b, v) /\ s.step \notin {"hash", "done"})
    PROVE  Local(m, sc, p, x, t, a \o out, c, o) /\ t.step \in Exceptions
<1>1. IsState(s) /\ Sizes(m, sc, s, b)
  BY DEF Local, Plain
<1>2. IsState(t) /\ Keeps(s, t)
  BY <1>1, StepOnly
<1>3. t.step = e
  BY <1>1, StepOnly
<1>4. /\ t.op \in 0 .. Len(sc) /\ t.macs = s.macs /\ t.vals = s.vals /\ t.shares = s.shares
      /\ t.cnt = s.cnt /\ t.checked = s.checked
  BY <1>1, <1>2 DEF Keeps, Sizes
<1>5. t.step \in Exceptions
  BY <1>3
<1>6. Local(m, sc, p, x, t, a \o out, c, o)
  BY <1>2, <1>4, <1>5, ThrowKeeping
<1>7. QED BY <1>5, <1>6

\* ReceiveHashes.
LEMMA ReceiveHashesStep ==
    ASSUME OnCourse, NEW p \in Honest, ReceiveHashes(p)
    PROVE  OnCourse' /\ Goes(p)
<1>1. PICK m, sc, s, a, b, o : /\ mode = m /\ script = sc /\ st[p] = s /\ sent[p] = a
                               /\ log[p] = b /\ opened[p] = o
  OBVIOUS
<1>2. PICK x : Local(m, sc, p, x, s, a, b, o)
  BY <1>1 DEF OnCourse, Placed
<1>3. m \in Modes /\ sc \in Scripts /\ IsState(s)
  BY <1>1, <1>2 DEF OnCourse, Typed, Local, Plain
<1>4. PICK same \in BOOLEAN :
         /\ Deviate(IF same THEN 0 ELSE 1)
         /\ IF same /\ \A q \in Honest : sent[q][Round(p)] = sent[p][Round(p)]
            THEN Go(p, [End(st[p]) EXCEPT !.checked = Len(log[p])], <<>>)
            ELSE Go(p, [st[p] EXCEPT !.step = "broadcast_invalid"], <<>>)
  BY Zenon DEF ReceiveHashes
<1>5. /\ s.step = "hash" /\ UNCHANGED <<tls, mode, script, log, opened, firm>>
  BY <1>1 DEF ReceiveHashes, Doing
<1>6. PICK u, l, e, k : /\ u = End(s) /\ l = Len(b) /\ e = "broadcast_invalid"
                        /\ k = IF same THEN 0 ELSE 1
  OBVIOUS
<1>7. PICK t, out : /\ Go(p, t, out) /\ out = <<>>
                    /\ t = [u EXCEPT !.checked = l] \/ t = [s EXCEPT !.step = e]
  BY <1>1, <1>4, <1>6
<1>8. st' = [st EXCEPT ![p] = t] /\ sent' = [sent EXCEPT ![p] = @ \o out]
  BY <1>7 DEF Go
<1>9. e \in Exceptions /\ s.step \in Steps
  BY <1>5, <1>6 DEF Exceptions, Steps
<1>10. \E z : Local(m, sc, p, z, t, a \o out, b, o) /\ Leads(m, sc, x, z, t)
  <2>1. CASE t = [u EXCEPT !.checked = l]
    BY <1>2, <1>3, <1>5, <1>6, <1>7, <2>1, HashLocal DEF Leads
  <2>2. CASE t = [s EXCEPT !.step = e]
    BY <1>2, <1>3, <1>7, <1>9, <2>2, ThrowMove DEF Leads
  <2>3. QED BY <1>7, <2>1, <2>2
<1>11. log' = [log EXCEPT ![p] = b] /\ opened' = [opened EXCEPT ![p] = o]
  BY <1>1, <1>5, Unmoved
<1>12. deviated' \in 0 .. MaxDeviations
  BY <1>4, DeviateIs
<1>13. Local(mode, script, p, x, st[p], sent[p], log[p], opened[p])
  BY <1>1, <1>2
<1>14. ASeq(out) /\ (b = log[p] \/ \E g : b = Append(log[p], g))
  BY <1>1, <1>7, OutSeq
<1>15. PICK z : Local(m, sc, p, z, t, a \o out, b, o) /\ Leads(m, sc, x, z, t)
  BY <1>10
<1>16. QED BY <1>1, <1>5, <1>8, <1>11, <1>12, <1>13, <1>14, <1>15, OneMoves

\* ClosedConnection.
LEMMA ClosedConnectionStep ==
    ASSUME OnCourse, NEW p \in Honest, ClosedConnection(p)
    PROVE  OnCourse' /\ Goes(p)
<1>1. PICK m, sc, s, a, b, o : /\ mode = m /\ script = sc /\ st[p] = s /\ sent[p] = a
                               /\ log[p] = b /\ opened[p] = o
  OBVIOUS
<1>2. PICK x : Local(m, sc, p, x, s, a, b, o)
  BY <1>1 DEF OnCourse, Placed
<1>3. m \in Modes /\ sc \in Scripts /\ IsState(s)
  BY <1>1, <1>2 DEF OnCourse, Typed, Local, Plain
<1>4. PICK e, t, out : e = "closed_connection" /\ t = [s EXCEPT !.step = e] /\ out = <<>>
  OBVIOUS
<1>5. /\ st' = [st EXCEPT ![p] = t] /\ sent' = [sent EXCEPT ![p] = @ \o out]
      /\ UNCHANGED <<tls, mode, script, log, opened, firm, deviated>>
  BY <1>1, <1>4 DEF ClosedConnection, Go
<1>6. e \in Exceptions /\ s.step \in Steps
  <2>1. s.step \notin Exceptions
    BY <1>1 DEF ClosedConnection, Abandoned, Stopped
  <2>2. s.step = x.step /\ x.step \in Steps
    BY <1>2, <1>3, <2>1, CourseFacts DEF Local, Exact, Position
  <2>3. QED BY <1>4, <2>2 DEF Exceptions
<1>7. Local(m, sc, p, x, t, a \o out, b, o) /\ t.step \in Exceptions
  BY <1>2, <1>3, <1>4, <1>6, ThrowMove
<1>8. Local(mode, script, p, x, st[p], sent[p], log[p], opened[p])
  BY <1>1, <1>2
<1>9. Leads(mode, script, x, x, t) /\ ASeq(out)
  BY <1>4, <1>7, OutSeq DEF Leads
<1>10. QED BY <1>1, <1>5, <1>7, <1>8, <1>9, QuietMove

\* What everybody sent in the round, and the faulty party.
LEMMA ViewIs ==
    ASSUME NEW p \in Honest, NEW e, NEW v, v = View(p, e)
    PROVE  v[Faulty] = e /\ v[p] = sent[p][Round(p)].body /\ p # Faulty
<1>1. p \in Party /\ p # Faulty /\ Faulty \in Party
  BY FaultyAssumption DEF Honest
<1>2. QED BY <1>1 DEF View

\* ReceiveComms.
LEMMA ReceiveCommsStep ==
    ASSUME OnCourse, NEW p \in Honest, ReceiveComms(p)
    PROVE  OnCourse' /\ Goes(p)
<1>1. PICK m, sc, s, a, b, o : /\ mode = m /\ script = sc /\ st[p] = s /\ sent[p] = a
                               /\ log[p] = b /\ opened[p] = o
  OBVIOUS
<1>2. PICK x : Local(m, sc, p, x, s, a, b, o)
  BY <1>1 DEF OnCourse, Placed
<1>3. m \in Modes /\ sc \in Scripts /\ IsState(s)
  BY <1>1, <1>2 DEF OnCourse, Typed, Local, Plain
<1>4. PICK e, n :
         /\ HashIn(p, e) /\ n \in Nat /\ Deviate(n)
         /\ Go(p, [st[p] EXCEPT !.comms = View(p, e), !.step = IF @ = "comm" THEN "open" ELSE "seedopen"],
               Message("open", sent[p][Round(p)].body))
  <2>1. \A g : (IF g THEN 0 ELSE 1) \in Nat
    OBVIOUS
  <2>2. QED BY <2>1, Zenon DEF ReceiveComms
<1>5. PICK v : v = View(p, e)
  OBVIOUS
<1>6. PICK f : f = IF s.step = "comm" THEN "open" ELSE "seedopen"
  OBVIOUS
<1>7. PICK t, out : t = [s EXCEPT !.comms = v, !.step = f] /\ out = Message("open", a[Len(a)].body)
  OBVIOUS
<1>8. /\ s.step \in {"seedcomm", "comm"} /\ UNCHANGED <<tls, mode, script, opened>>
  BY <1>1 DEF ReceiveComms
<1>9. st' = [st EXCEPT ![p] = t] /\ sent' = [sent EXCEPT ![p] = @ \o out]
  <2>1. [st[p] EXCEPT !.comms = View(p, e), !.step = IF @ = "comm" THEN "open" ELSE "seedopen"] = t
    BY <1>1, <1>5, <1>6, <1>7
  <2>2. Message("open", sent[p][Round(p)].body) = out
    BY <1>1, <1>7 DEF Round
  <2>3. Go(p, t, out)
    BY <1>4, <2>1, <2>2
  <2>4. QED BY <2>3 DEF Go
<1>10. /\ IsState(t) /\ Keeps(s, t) /\ t.seed = s.seed /\ t.pj = s.pj /\ t.comms = v
       /\ t.step = IF s.step = "comm" THEN "open" ELSE "seedopen"
  <2>1. t = [op |-> s.op, step |-> f, macs |-> s.macs, vals |-> s.vals, shares |-> s.shares,
             cnt |-> s.cnt, next |-> s.next, seed |-> s.seed, pj |-> s.pj, comms |-> v,
             checked |-> s.checked]
    BY <1>3, <1>7 DEF IsState
  <2>2. IsState(t) /\ Keeps(s, t) /\ t.seed = s.seed /\ t.pj = s.pj /\ t.comms = v /\ t.step = f
    BY <2>1 DEF IsState, Keeps
  <2>3. QED BY <1>6, <2>2
<1>11. PICK c : c = Append(b, v)
  OBVIOUS
<1>12. Local(m, sc, p, Advance(m, sc, x), t, a \o out, c, o)
  <2>1. out = Message("open", a[Len(a)].body)
    BY <1>7
  <2>2. QED BY <1>2, <1>3, <1>8, <1>10, <1>11, <2>1, CommsLocal
<1>13. log' = [log EXCEPT ![p] = c] /\ opened' = [opened EXCEPT ![p] = o]
  <2>1. log' = [log EXCEPT ![p] = Append(@, View(p, e))]
    BY <1>4 DEF HashIn
  <2>2. QED BY <1>1, <1>5, <1>8, <1>11, <2>1, Unmoved
<1>14. deviated' \in 0 .. MaxDeviations
  BY <1>4, DeviateIs
<1>15. /\ Local(mode, script, p, Advance(m, sc, x), t, sent[p] \o out, c, o)
       /\ tls' = tls /\ mode' = mode /\ script' = script
  BY <1>1, <1>8, <1>12
<1>16. Local(mode, script, p, x, st[p], sent[p], log[p], opened[p])
  BY <1>1, <1>2
<1>17. Leads(mode, script, x, Advance(m, sc, x), t)
  BY <1>1 DEF Leads
<1>18. ASeq(out) /\ (c = log[p] \/ \E g : c = Append(log[p], g))
  BY <1>1, <1>7, <1>11, OutSeq
<1>19. QED BY <1>9, <1>13, <1>14, <1>15, <1>16, <1>17, <1>18, OneMoves

\* Deltas that add up to zero are those of right values.
LEMMA ZeroMeansRight ==
    ASSUME NEW m, NEW p, NEW s, NEW v, NEW k, v[p] = Commit(p, DataOf(m, s), k), p \in Honest,
           SumIsZero(p, v)
    PROVE  \A i \in 1 .. s.cnt : s.vals[i].err = 0
<1>1. PICK d : d = DataOf(m, s)
  OBVIOUS
<1>2. v[p].data = d
  BY <1>1 DEF Commit
<1>3. \A i \in DOMAIN d.pairs : d.pairs[i][2] = [id |-> d.pairs[i][1], err |-> 0]
  BY <1>2 DEF SumIsZero
<1>4. d.pairs = [i \in 1 .. s.cnt |->
                   <<s.macs[i], s.vals[i], IF m = "z2k" THEN s.shares[i] ELSE s.macs[i]>>]
  BY <1>1 DEF DataOf
<1>5. ASSUME NEW i \in 1 .. s.cnt PROVE s.vals[i].err = 0
  <2>1. i \in DOMAIN d.pairs /\ d.pairs[i][2] = s.vals[i]
    BY <1>4
  <2>2. s.vals[i] = [id |-> d.pairs[i][1], err |-> 0]
    BY <1>3, <2>1
  <2>3. QED BY <2>2
<1>6. QED BY <1>5

\* ReceiveOpens.
LEMMA ReceiveOpensStep ==
    ASSUME OnCourse, NEW p \in Honest, ReceiveOpens(p)
    PROVE  OnCourse' /\ Goes(p)
<1>1. PICK m, sc, s, a, b, o : /\ mode = m /\ script = sc /\ st[p] = s /\ sent[p] = a
                               /\ log[p] = b /\ opened[p] = o
  OBVIOUS
<1>2. PICK x : Local(m, sc, p, x, s, a, b, o)
  BY <1>1 DEF OnCourse, Placed
<1>3. m \in Modes /\ sc \in Scripts /\ IsState(s)
  BY <1>1, <1>2 DEF OnCourse, Typed, Local, Plain
<1>4. PICK e, n :
         /\ HashIn(p, e) /\ n \in Nat /\ Deviate(n)
         /\ LET view == View(p, e)
                res == IF ~AllOpen(p, view)
                       THEN [s |-> [st[p] EXCEPT !.step = "invalid_commitment"], out |-> <<>>]
                       ELSE IF st[p].step = "seedopen" THEN SeedDone(p, st[p], view)
                       ELSE IF SumIsZero(p, view)
                       THEN [s |-> [Erase(st[p]) EXCEPT !.step = "call"], out |-> <<>>]
                       ELSE [s |-> Failed(st[p]), out |-> <<>>]
            IN Go(p, res.s, res.out)
  <2>1. \A g : (IF g THEN 1 ELSE 0) \in Nat
    OBVIOUS
  <2>2. QED BY <2>1, Zenon DEF ReceiveOpens
<1>5. PICK v, c : v = View(p, e) /\ c = Append(b, v)
  OBVIOUS
<1>6. PICK r : /\ r = IF ~AllOpen(p, v)
                      THEN [s |-> [st[p] EXCEPT !.step = "invalid_commitment"], out |-> <<>>]
                      ELSE IF st[p].step = "seedopen" THEN SeedDone(p, st[p], v)
                      ELSE IF SumIsZero(p, v)
                      THEN [s |-> [Erase(st[p]) EXCEPT !.step = "call"], out |-> <<>>]
                      ELSE [s |-> Failed(st[p]), out |-> <<>>]
  OBVIOUS
<1>7. /\ s.step \in {"seedopen", "open"} /\ UNCHANGED <<tls, mode, script, opened>>
  BY <1>1 DEF ReceiveOpens
<1>8. st' = [st EXCEPT ![p] = r.s] /\ sent' = [sent EXCEPT ![p] = @ \o r.out]
  <2>1. Go(p, r.s, r.out)
    BY <1>4, <1>5, <1>6
  <2>2. QED BY <2>1 DEF Go
<1>9. v[Faulty] = e /\ v[p] = a[Len(a)].body /\ p # Faulty
  BY <1>1, <1>5, ViewIs DEF Round
<1>10. AllOpen(p, v) => v[Faulty] = s.comms[Faulty] /\ v[Faulty].by = Faulty
  <2>1. Faulty \in Party \ {p}
    BY <1>9, FaultyAssumption
  <2>2. QED BY <1>1, <2>1 DEF AllOpen, Open
<1>11. \E z : Local(m, sc, p, z, r.s, a \o r.out, c, o) /\ Leads(m, sc, x, z, r.s) /\ ASeq(r.out)
  <2>1. CASE ~ AllOpen(p, v)
    <3>1. PICK f, t, out : f = "invalid_commitment" /\ t = [s EXCEPT !.step = f] /\ out = <<>>
      OBVIOUS
    <3>2. r.s = t /\ r.out = out
      BY <1>1, <1>6, <2>1, <3>1
    <3>3. f \in Exceptions /\ s.step \in Steps /\ s.step \notin {"hash", "done"}
      BY <1>7, <3>1 DEF Exceptions, Steps
    <3>4. Local(m, sc, p, x, t, a \o out, c, o) /\ t.step \in Exceptions
      BY <1>2, <1>3, <1>5, <3>1, <3>3, ThrowMove
    <3>5. QED BY <3>1, <3>2, <3>4, OutSeq DEF Leads
  <2>2. CASE AllOpen(p, v) /\ s.step = "seedopen"
    <3>1. r = SeedDone(p, s, v)
      BY <1>1, <1>6, <2>2
    <3>2. v[Faulty] = s.comms[Faulty] /\ v[Faulty].by = Faulty
      BY <1>10, <2>2
    <3>3. Local(m, sc, p, Advance(m, sc, x), r.s, a \o r.out, Append(b, v), o)
      BY <1>1, <1>2, <1>3, <2>2, <3>1, <3>2, SeedDoneLocal
    <3>4. ASeq(r.out)
      BY <3>1, OutSeq DEF SeedDone
    <3>5. QED BY <1>5, <3>3, <3>4 DEF Leads
  <2>3. CASE AllOpen(p, v) /\ s.step = "open" /\ SumIsZero(p, v)
    <3>1. PICK t, out : t = [Erase(s) EXCEPT !.step = "call"] /\ out = <<>>
      OBVIOUS
    <3>2. r.s = t /\ r.out = out
      BY <1>1, <1>6, <2>3, <3>1
    <3>3. v[Faulty] = s.comms[Faulty] /\ v[Faulty].by = Faulty
      BY <1>10, <2>3
    <3>4. \A i \in 1 .. s.cnt : s.vals[i].err = 0
      <4>1. Fits(m, p, s, a[Len(a)].body, Len(a), b)
        BY <1>2, <1>3, <2>3, RunningAt DEF Steps
      <4>2. v[p] = Commit(p, DataOf(m, s), Len(a) - 1)
        BY <1>9, <2>3, <4>1 DEF Fits
      <4>3. QED BY <2>3, <4>2, ZeroMeansRight
    <3>5. Local(m, sc, p, Advance(m, sc, x), t, a \o out, Append(b, v), o)
      BY <1>2, <1>3, <2>3, <3>1, <3>3, <3>4, ZeroLocal
    <3>6. QED BY <1>5, <3>1, <3>2, <3>5, OutSeq DEF Leads
  <2>4. CASE AllOpen(p, v) /\ s.step = "open" /\ ~ SumIsZero(p, v)
    <3>1. PICK t, out : t = Failed(s) /\ out = <<>>
      OBVIOUS
    <3>2. r.s = t /\ r.out = out
      BY <1>1, <1>6, <2>4, <3>1
    <3>3. Local(m, sc, p, x, t, a \o out, Append(b, v), o)
      BY <1>1, <1>2, <1>3, <2>4, <3>1, FailedLocal
    <3>4. t.step = "mac_fail"
      BY <1>1, <1>2, <1>3, <2>4, <3>1, FailedLocal
    <3>5. "mac_fail" \in Exceptions
      BY DEF Exceptions
    <3>6. t.step \in Exceptions
      BY <3>5, <3>4
    <3>7. QED BY <1>5, <3>1, <3>2, <3>3, <3>6, OutSeq DEF Leads
  <2>5. QED BY <1>7, <2>1, <2>2, <2>3, <2>4
<1>12. PICK z, t, out : /\ Local(m, sc, p, z, t, a \o out, c, o) /\ Leads(m, sc, x, z, t)
                        /\ ASeq(out) /\ t = r.s /\ out = r.out
  BY <1>11
<1>13. log' = [log EXCEPT ![p] = c] /\ opened' = [opened EXCEPT ![p] = o]
  <2>1. log' = [log EXCEPT ![p] = Append(@, View(p, e))]
    BY <1>4 DEF HashIn
  <2>2. QED BY <1>1, <1>5, <1>7, <2>1, Unmoved
<1>14. deviated' \in 0 .. MaxDeviations
  BY <1>4, DeviateIs
<1>15. /\ Local(mode, script, p, z, t, sent[p] \o out, c, o)
       /\ tls' = tls /\ mode' = mode /\ script' = script
  BY <1>1, <1>7, <1>12
<1>16. st' = [st EXCEPT ![p] = t] /\ sent' = [sent EXCEPT ![p] = @ \o out]
  BY <1>8, <1>12
<1>17. Local(mode, script, p, x, st[p], sent[p], log[p], opened[p])
  BY <1>1, <1>2
<1>18. /\ Leads(mode, script, x, z, t) /\ ASeq(out)
       /\ c = log[p] \/ \E g : c = Append(log[p], g)
  BY <1>1, <1>5, <1>12
<1>19. QED BY <1>13, <1>14, <1>15, <1>16, <1>17, <1>18, OneMoves

\* One party makes one step of the course, or throws.
LEMMA StepGoes ==
    ASSUME OnCourse, NEW p \in Honest, Step(p)
    PROVE  OnCourse' /\ Goes(p)
  BY BeginOpenStep, ExchangeStep, AddToCheckStep, CheckStep, CheckForStep, CreateRandomStep,
     ReceiveCommsStep, ReceiveOpensStep, ReceiveHighBitsStep, CheckBroadcastStep,
     ReceiveHashesStep, ClosedConnectionStep DEF Step

\* Every step keeps every party on the course.
LEMMA StaysOnCourse ==
    ASSUME OnCourse, [Next]_vars
    PROVE  OnCourse'
<1>1. CASE UNCHANGED vars
  BY <1>1 DEF vars, OnCourse, Typed, Placed
<1>2. ASSUME NEW p \in Honest, Step(p) PROVE OnCourse'
  BY <1>2, StepGoes
<1>3. QED BY <1>1, <1>2 DEF Next

\* Every party is always somewhere on the course of its script, whatever the
\* faulty party sends: what a thread does next depends on the calls, the mode
\* and popen_cnt (MAC_Check.hpp:55-207).
THEOREM AlwaysOnCourse == Spec => []OnCourse
<1>1. Init => OnCourse
  BY StartsOnCourse
<1>2. OnCourse /\ [Next]_vars => OnCourse'
  BY StaysOnCourse
<1>3. QED BY <1>1, <1>2, PTL DEF Spec

\* Two parties on the course send the same kind of message in a round.
LEMMA SameKinds ==
    ASSUME OnCourse
    PROVE  InStep
<1>1. PICK m, sc : mode = m /\ script = sc
  OBVIOUS
<1>2. m \in Modes /\ sc \in Scripts
  BY <1>1 DEF OnCourse, Typed
<1>3. ASSUME NEW p \in Honest, NEW k \in DOMAIN sent[p]
      PROVE  \E y \in Course(m, sc) : Waiting(y) /\ y.sent = k /\ sent[p][k].kind = KindFor(y.step)
  <2>1. PICK x : Placed(p, x)
    BY DEF OnCourse
  <2>2. Kinds(m, sc, sent[p]) /\ ASeq(sent[p])
    BY <1>1, <2>1 DEF Placed, Local, Plain
  <2>3. k \in 1 .. Len(sent[p])
    BY <2>2, SeqFacts
  <2>4. PICK y \in Course(m, sc) : /\ Waiting(y) /\ y.sent = k
                                   /\ sent[p][k] = [kind |-> KindFor(y.step), body |-> sent[p][k].body]
    BY <2>2, <2>3 DEF Kinds
  <2>5. sent[p][k].kind = KindFor(y.step)
    <3>1. PICK g : g = sent[p][k].body
      OBVIOUS
    <3>2. sent[p][k] = [kind |-> KindFor(y.step), body |-> g]
      BY <2>4, <3>1
    <3>3. QED BY <3>2
  <2>6. QED BY <2>4, <2>5
<1>4. ASSUME NEW p \in Honest, NEW q \in Honest, NEW k \in DOMAIN sent[p] \cap DOMAIN sent[q]
      PROVE  sent[p][k].kind = sent[q][k].kind
  <2>1. PICK y \in Course(m, sc) : Waiting(y) /\ y.sent = k /\ sent[p][k].kind = KindFor(y.step)
    BY <1>3
  <2>2. PICK z \in Course(m, sc) : Waiting(z) /\ z.sent = k /\ sent[q][k].kind = KindFor(z.step)
    BY <1>3
  <2>3. y = z
    BY <1>2, <2>1, <2>2, Unique
  <2>4. QED BY <2>1, <2>2, <2>3
<1>5. QED BY <1>4 DEF InStep

\* A party between two calls has fewer values than the limit.
LEMMA FewWait ==
    ASSUME OnCourse
    PROVE  Limited
<1>1. ASSUME NEW p \in Honest, Doing(p, "call") PROVE WaitingForCheck(st[p]) < PopenMax
  <2>1. PICK m, sc, s, a, b, o : /\ mode = m /\ script = sc /\ st[p] = s /\ sent[p] = a
                                 /\ log[p] = b /\ opened[p] = o
    OBVIOUS
  <2>2. PICK x : Local(m, sc, p, x, s, a, b, o)
    BY <2>1 DEF OnCourse, Placed
  <2>3. m \in Modes /\ sc \in Scripts /\ s.step = "call"
    BY <1>1, <2>1 DEF OnCourse, Typed, Doing
  <2>4. Regular(m, sc, x) /\ Exact(m, sc, x, s, b) /\ Sizes(m, sc, s, b)
    BY <2>2, <2>3, RunningAt DEF Steps
  <2>5. s.cnt < PopenMax /\ Len(s.macs) = s.cnt /\ Len(s.vals) = s.cnt
    BY <2>3, <2>4 DEF Regular, Exact, Sizes
  <2>6. WaitingForCheck(s) = s.cnt
    BY <2>5 DEF WaitingForCheck
  <2>7. QED BY <2>1, <2>5, <2>6
<1>2. QED BY <1>1 DEF Limited

\* Parties check the same values at the same moment, and fewer than the limit
\* wait between two calls, for any parties, scripts and deviations
\* (MAC_Check_::exchange, CheckIfNeeded, MAC_Check.hpp:52-109).
THEOREM CheckedInStep == Spec => []ChecksInStep
<1>1. OnCourse => ChecksInStep
  BY SameKinds, FewWait DEF ChecksInStep
<1>2. QED BY <1>1, AlwaysOnCourse, PTL

\* What was opened and does not wait was right.
LEMMA RightIfNothingWaits ==
    ASSUME OnCourse
    PROVE  Detected
<1>1. ASSUME NEW p \in Honest, st[p].step \in {"call", "done"}, WaitingForCheck(st[p]) = 0,
             NEW i \in DOMAIN opened[p]
      PROVE  opened[p][i].err = 0
  <2>1. PICK m, sc, s, a, b, o : /\ mode = m /\ script = sc /\ st[p] = s /\ sent[p] = a
                                 /\ log[p] = b /\ opened[p] = o
    OBVIOUS
  <2>2. PICK x : Local(m, sc, p, x, s, a, b, o)
    BY <2>1 DEF OnCourse, Placed
  <2>3. m \in Modes /\ sc \in Scripts /\ s.step \in Steps
    BY <1>1, <2>1 DEF OnCourse, Typed, Steps
  <2>4. Sizes(m, sc, s, b) /\ Values(m, s, o) /\ Plain(s, a, b, o)
    BY <2>2, <2>3, RunningAt
  <2>5. s.cnt = 0
    <3>1. WaitingForCheck(s) = 0 /\ Len(s.macs) >= Len(s.vals) /\ Len(s.vals) = s.cnt /\ s.cnt \in Nat
      BY <1>1, <2>1, <2>4 DEF Sizes
    <3>2. Len(s.macs) \in Nat
      BY <2>4, SeqFacts DEF Plain
    <3>3. QED BY <3>1, <3>2 DEF WaitingForCheck
  <2>6. i \in 1 .. Len(o) /\ Len(o) \in Nat
    BY <1>1, <2>1, <2>4, SeqFacts DEF Plain
  <2>7. i \in 1 .. Len(o) - s.cnt
    BY <2>5, <2>6
  <2>8. QED BY <2>1, <2>4, <2>7 DEF Values
<1>2. QED BY <1>1 DEF Detected, Doing

\* Every variable has its type.
LEMMA TypesHold ==
    ASSUME OnCourse
    PROVE  TypeOK
<1>1. ASSUME NEW p \in Honest
      PROVE  /\ st[p].op \in 0 .. Len(script) /\ st[p].cnt \in Nat
             /\ st[p].checked \in 0 .. Len(log[p])
             /\ st[p].step \in Steps \cup Exceptions
             /\ Len(st[p].macs) >= Len(st[p].vals) /\ st[p].cnt = Len(st[p].vals)
             /\ Len(st[p].shares) = IF mode = "z2k" THEN Len(st[p].macs) ELSE 0
  <2>1. PICK x : Placed(p, x)
    BY DEF OnCourse
  <2>2. Sizes(mode, script, st[p], log[p])
    BY <2>1 DEF Placed, Local
  <2>3. st[p].step \in Steps \cup Exceptions
    <3>1. x.step \in Steps
      BY <2>1, CourseFacts DEF Placed, Local, Position, OnCourse, Typed
    <3>2. QED BY <2>1, <3>1 DEF Placed, Local, Exact
  <2>4. QED BY <2>2, <2>3 DEF Sizes
<1>2. Steps \cup Exceptions = {"call", "shares", "seedcomm", "seedopen", "pj", "comm",
                               "open", "hash"} \cup Exceptions \cup {"done"}
  BY DEF Steps
<1>3. QED BY <1>1, <1>2 DEF TypeOK, OnCourse, Typed

\* MAC_Check.hpp: every variable keeps its type, MACs, values and shares
\* their sizes, in all calls and when a party throws.
THEOREM TypesKept == Spec => []TypeOK
<1>1. QED BY AlwaysOnCourse, TypesHold, PTL

\* MAC_Check.hpp:55-207: a party with nothing left to check has opened right
\* values only, whatever the faulty party sends.
THEOREM WrongValuesDetected == Spec => []Detected
<1>1. QED BY AlwaysOnCourse, RightIfNothingWaits, PTL

-----------------------------------------------------------------------------
(* What parties that end have seen.                                        *)

\* A party that has ended has compared all its broadcasts with the others'.
Compared(p) ==
    Doing(p, "done") /\ Len(log[p]) > 0 =>
        /\ Len(sent[p]) > 0
        /\ \A q \in Honest : /\ Len(sent[q]) >= Len(sent[p])
                             /\ sent[q][Len(sent[p])] = sent[p][Len(sent[p])]

\* Of every round of commitments, some party has got one from the faulty
\* party before any party had opened its own.
FirstFirm ==
    \A q \in Honest : \A j \in 1 .. Len(log[q]) :
        Odd(j) => \E f \in Honest : j <= Len(log[f]) /\ log[f][j][Faulty] \in firm

Seen == OnCourse /\ (\A p \in Honest : Compared(p)) /\ FirstFirm

\* Only the comparison itself follows other broadcasts.
LEMMA DoneAfterHash ==
    ASSUME NEW m, NEW sc \in Scripts, NEW x \in Position(sc), NEW z, z = Advance(m, sc, x),
           z.step = "done", z.log > 0
    PROVE  x.step \in {"hash", "done"}
<1>1. CASE x.step = "call" /\ x.op < Len(sc)
  <2>1. z.step = "done" => x.log = 0
    BY <1>1, CallIs
  <2>2. z.log = x.log /\ x.log \in Nat
    BY <1>1, CallIs DEF Position
  <2>3. QED BY <2>1, <2>2
<1>2. CASE x.step = "call" /\ ~ x.op < Len(sc)
  BY <1>2, Closes
<1>3. CASE x.step = "shares"
  BY <1>3, SharesIs
<1>4. CASE x.step \in {"seedcomm", "seedopen", "pj", "comm", "open", "hash"}
  BY <1>4, RoundIs
<1>5. x.step \in Steps
  BY DEF Position
<1>6. QED BY <1>1, <1>2, <1>3, <1>4, <1>5 DEF Steps

\* A party that waits has sent something.
LEMMA WaitingSent ==
    ASSUME NEW m, NEW sc \in Scripts, NEW x \in Course(m, sc), Waiting(x)
    PROVE  x.sent > 0
<1>1. x # Beginning
  BY BeginningFacts DEF Waiting
<1>2. x \in From(m, sc, Beginning) /\ Beginning.sent = 0 /\ Beginning \in Position(sc)
  BY BeginningFacts DEF Course
<1>3. QED BY <1>1, <1>2, Monotone

\* A party that steps has not stopped, and what its step does to the log and
\* to the firm commitments.
LEMMA StepChanges ==
    ASSUME NEW p, Step(p)
    PROVE  /\ ~ Stopped(p) /\ firm \subseteq firm'
           /\ ReceiveComms(p) \/ ReceiveOpens(p) \/ log' = log
<1>1. ~ Stopped(p)
  BY DEF Step, Stopped, Exceptions, Doing, Abandoned, BeginOpen, Exchange, AddToCheck, Check,
         CheckFor, CreateRandom, ReceiveComms, ReceiveOpens, ReceiveHighBits, CheckBroadcast,
         ReceiveHashes, ClosedConnection
<1>2. CASE ReceiveComms(p)
  BY <1>1, <1>2 DEF ReceiveComms
<1>3. CASE ReceiveOpens(p)
  BY <1>1, <1>3 DEF ReceiveOpens
<1>4. CASE ~ ReceiveComms(p) /\ ~ ReceiveOpens(p)
  <2>1. log' = log /\ firm' = firm
    BY <1>4 DEF Step, BeginOpen, Exchange, AddToCheck, Check, CheckFor, CreateRandom,
                ReceiveHighBits, CheckBroadcast, ReceiveHashes, ClosedConnection
  <2>2. QED BY <1>1, <2>1
<1>5. QED BY <1>2, <1>3, <1>4

\* The position of a party that runs.
LEMMA PlacedFacts ==
    ASSUME OnCourse, NEW p \in Honest, NEW x, Placed(p, x)
    PROVE  /\ x \in Course(mode, script) /\ x \in Position(script)
           /\ Len(sent[p]) = x.sent /\ x.sent \in Nat /\ x.log \in Nat /\ x.log <= Len(log[p])
           /\ ASeq(log[p]) /\ ASeq(sent[p]) /\ Len(log[p]) \in Nat
           /\ x.step \in {"hash", "done"} /\ x.log > 0 => sent[p][x.sent].body = log[p]
           /\ st[p].step \notin Exceptions =>
                 /\ st[p].step = x.step /\ Len(log[p]) = x.log /\ Paired(log[p])
                 /\ Regular(mode, script, x) /\ x.step \in Steps
<1>1. mode \in Modes /\ script \in Scripts
  BY DEF OnCourse, Typed
<1>2. PICK m, sc, s, a, b, o : /\ mode = m /\ script = sc /\ st[p] = s /\ sent[p] = a
                               /\ log[p] = b /\ opened[p] = o
  OBVIOUS
<1>3. Local(m, sc, p, x, s, a, b, o)
  BY <1>2 DEF Placed
<1>4. x \in Course(m, sc) /\ x \in Position(sc) /\ Regular(m, sc, x)
  BY <1>1, <1>2, <1>3, CourseFacts, CourseRegular DEF Local
<1>5. x.sent \in Nat /\ x.log \in Nat /\ x.step \in Steps
  BY <1>4 DEF Position
<1>6. /\ Len(a) = x.sent /\ x.log <= Len(b) /\ ASeq(b) /\ ASeq(a) /\ Len(b) \in Nat
      /\ x.step \in {"hash", "done"} /\ x.log > 0 => a[x.sent].body = b
  BY <1>3, SeqFacts DEF Local, Plain
<1>7. s.step \notin Exceptions => s.step = x.step /\ Len(b) = x.log /\ Paired(b)
  BY <1>3 DEF Local, Exact
<1>8. QED BY <1>2, <1>4, <1>5, <1>6, <1>7

\* A step keeps what has been compared.
LEMMA ComparedNext ==
    ASSUME OnCourse, OnCourse', \A q \in Honest : Compared(q), NEW p \in Honest, Step(p), Goes(p),
           NEW q \in Honest
    PROVE  Compared(q)'
<1>1. CASE q # p
  <2>1. /\ st'[q] = st[q] /\ log'[q] = log[q] /\ sent'[q] = sent[q]
        /\ \A r \in Honest \ {p} : sent'[r] = sent[r]
        /\ Extends(sent[p], sent'[p])
    BY <1>1 DEF Goes
  <2>2. SUFFICES ASSUME Doing(q, "done")', Len(log'[q]) > 0
                 PROVE  /\ Len(sent'[q]) > 0
                        /\ \A r \in Honest : /\ Len(sent'[r]) >= Len(sent'[q])
                                             /\ sent'[r][Len(sent'[q])] = sent'[q][Len(sent'[q])]
    BY DEF Compared
  <2>3. PICK k : k = Len(sent[q])
    OBVIOUS
  <2>4. k > 0 /\ \A r \in Honest : Len(sent[r]) >= k /\ sent[r][k] = sent[q][k]
    BY <2>1, <2>2, <2>3 DEF Compared, Doing
  <2>5. Len(sent[p]) \in Nat /\ Len(sent'[p]) \in Nat /\ k \in Nat
    <3>1. PICK x : Placed(p, x)
      BY DEF OnCourse
    <3>2. PICK y : Placed(p, y)'
      BY DEF OnCourse
    <3>3. PICK w : Placed(q, w)
      BY DEF OnCourse
    <3>4. Len(sent'[p]) \in Nat
      <4>1. ASeq(sent'[p])
        BY <3>2 DEF Placed, Local, Plain
      <4>2. QED BY <4>1, SeqFacts
    <3>5. Len(sent[p]) \in Nat
      BY <3>1, PlacedFacts
    <3>6. Len(sent[q]) \in Nat
      BY <3>3, PlacedFacts
    <3>7. QED BY <2>3, <3>4, <3>5, <3>6
  <2>6. k \in 1 .. Len(sent[p]) /\ Len(sent'[p]) >= k /\ sent'[p][k] = sent[p][k]
    <3>1. Len(sent[p]) >= k /\ k > 0 /\ Len(sent'[p]) >= Len(sent[p])
      BY <2>1, <2>4 DEF Extends
    <3>2. k \in 1 .. Len(sent[p]) /\ Len(sent'[p]) >= k
      BY <2>5, <3>1
    <3>3. QED BY <2>1, <3>2 DEF Extends
  <2>7. \A r \in Honest : Len(sent'[r]) >= k /\ sent'[r][k] = sent'[q][k]
    BY <2>1, <2>4, <2>6
  <2>8. QED BY <2>1, <2>3, <2>4, <2>7
<1>2. CASE q = p
  <2>1. SUFFICES ASSUME Doing(p, "done")', Len(log'[p]) > 0
                 PROVE  /\ Len(sent'[p]) > 0
                        /\ \A r \in Honest : /\ Len(sent'[r]) >= Len(sent'[p])
                                             /\ sent'[r][Len(sent'[p])] = sent'[p][Len(sent'[p])]
    BY <1>2 DEF Compared
  <2>2. PICK x, z : Placed(p, x) /\ Placed(p, z)' /\ Leads(mode, script, x, z, st'[p])
    BY DEF Goes
  <2>3. script' = script /\ mode' = mode /\ mode \in Modes /\ script \in Scripts
    BY DEF Goes, OnCourse, Typed
  <2>4. st'[p].step = "done" /\ "done" \notin Exceptions
    BY <2>1 DEF Doing, Exceptions
  <2>5. z = Advance(mode, script, x) /\ z.step = "done" /\ z.log > 0
    <3>1. z.step = "done" /\ Len(log'[p]) = z.log
      BY <2>2, <2>4 DEF Placed, Local, Exact
    <3>2. QED BY <2>1, <2>2, <2>4, <3>1 DEF Leads
  <2>6. x \in Position(script) /\ x \in Course(mode, script)
    BY <2>2, PlacedFacts
  <2>7. x.step \in {"hash", "done"}
    <3>1. PICK m, sc : m = mode /\ sc = script
      OBVIOUS
    <3>2. sc \in Scripts /\ x \in Position(sc) /\ z = Advance(m, sc, x)
      BY <2>3, <2>5, <2>6, <3>1
    <3>3. QED BY <2>5, <3>2, DoneAfterHash
  <2>8. st[p].step = "hash"
    <3>1. ~ Stopped(p)
      BY StepChanges
    <3>2. st[p].step = x.step
      BY <2>2, <3>1, PlacedFacts DEF Stopped
    <3>3. QED BY <2>7, <3>1, <3>2 DEF Stopped
  <2>9. ReceiveHashes(p) \/ ClosedConnection(p)
    BY <2>8 DEF Step, Doing, BeginOpen, Exchange, AddToCheck, Check, CheckFor, CreateRandom,
                ReceiveComms, ReceiveOpens, ReceiveHighBits, CheckBroadcast
  <2>10. IsState(st[p]) /\ st = [r \in Honest |-> st[r]] /\ Len(sent[p]) = x.sent
         /\ ASeq(sent[p]) /\ sent = [r \in Honest |-> sent[r]]
    BY <2>2 DEF OnCourse, Typed, Placed, Local, Plain
  <2>11. \A e : ~ (e # "done" /\ Go(p, [st[p] EXCEPT !.step = e], <<>>))
    <3>1. TAKE e
    <3>2. PICK s, t : s = st[p] /\ t = [s EXCEPT !.step = e]
      OBVIOUS
    <3>3. t.step = e
      BY <2>10, <3>2, StepOnly
    <3>4. Go(p, [st[p] EXCEPT !.step = e], <<>>) => st'[p] = t
      BY <2>10, <3>2 DEF Go
    <3>5. QED BY <2>4, <3>3, <3>4
  <2>12. ReceiveHashes(p)
    BY <2>9, <2>11 DEF ClosedConnection
  <2>13. There(p) /\ \A r \in Honest : sent[r][Round(p)] = sent[p][Round(p)]
    BY <2>11, <2>12 DEF ReceiveHashes
  <2>14. sent' = sent
    <3>1. sent' = [sent EXCEPT ![p] = @ \o <<>>]
      BY <2>12 DEF ReceiveHashes, Go
    <3>2. QED BY <3>1, Unmoved
  <2>15. Len(sent[p]) > 0
    <3>1. Waiting(x)
      <4>1. ~ Stopped(p)
        BY StepChanges
      <4>2. x.step = "hash"
        BY <2>2, <2>8, <4>1, PlacedFacts DEF Stopped
      <4>3. QED BY <4>2 DEF Waiting
    <3>2. QED BY <2>3, <2>6, <2>10, <3>1, WaitingSent
  <2>16. \A r \in Honest : Len(sent[r]) >= Len(sent[p]) /\ sent[r][Len(sent[p])] = sent[p][Len(sent[p])]
    BY <2>13 DEF There, Round
  <2>17. QED BY <2>14, <2>15, <2>16
<1>3. QED BY <1>1, <1>2

\* What is in a log stays.
LEMMA LogKept ==
    ASSUME OnCourse, NEW p \in Honest, Goes(p), NEW f \in Honest
    PROVE  /\ Len(log[f]) \in Nat
           /\ \A j \in 1 .. Len(log[f]) : j \in 1 .. Len(log'[f]) /\ log'[f][j] = log[f][j]
<1>1. PICK x : Placed(f, x)
  BY DEF OnCourse
<1>2. ASeq(log[f]) /\ Len(log[f]) \in Nat
  BY <1>1, PlacedFacts
<1>3. log'[f] = log[f] \/ \E v : log'[f] = Append(log[f], v)
  BY DEF Goes
<1>4. QED BY <1>2, <1>3, AppendFacts

\* Commitments are received after somebody else has opened only if the log of
\* that party is longer.
LEMMA AheadLogged ==
    ASSUME OnCourse, NEW p \in Honest, st[p].step \in {"seedcomm", "comm"}, NEW f \in Honest,
           Len(sent[f]) > Len(sent[p])
    PROVE  Len(log[p]) + 1 <= Len(log[f]) /\ Len(log[p]) \in Nat
<1>1. PICK x : Placed(p, x)
  BY DEF OnCourse
<1>2. PICK y : Placed(f, y)
  BY DEF OnCourse
<1>3. PICK m, sc : m = mode /\ sc = script
  OBVIOUS
<1>4. m \in Modes /\ sc \in Scripts
  BY <1>3 DEF OnCourse, Typed
<1>5. st[p].step \notin Exceptions
  BY DEF Exceptions
<1>6. /\ x \in Course(m, sc) /\ x \in Position(sc) /\ x.step \in {"seedcomm", "comm"}
      /\ Len(log[p]) = x.log /\ Len(sent[p]) = x.sent /\ x.log \in Nat /\ x.sent \in Nat
  BY <1>1, <1>3, <1>5, PlacedFacts
<1>7. /\ y \in Course(m, sc) /\ y \in Position(sc) /\ Len(sent[f]) = y.sent /\ y.sent \in Nat
      /\ y.log \in Nat /\ y.log <= Len(log[f]) /\ Len(log[f]) \in Nat
  BY <1>2, <1>3, PlacedFacts
<1>8. y.sent > x.sent
  BY <1>6, <1>7
<1>9. y \in From(m, sc, x)
  <2>1. CASE x \in From(m, sc, y)
    BY <1>4, <1>6, <1>7, <1>8, <2>1, Monotone
  <2>2. QED BY <1>4, <1>6, <1>7, <2>1, Ordered
<1>10. PICK z : z = Advance(m, sc, x)
  OBVIOUS
<1>11. y \in From(m, sc, z)
  BY <1>4, <1>6, <1>8, <1>9, <1>10, Splits
<1>12. z \in Position(sc) /\ z.log = x.log + 1
  BY <1>4, <1>6, <1>10, RoundIs, Closes
<1>13. y.log >= z.log
  BY <1>4, <1>11, <1>12, Monotone
<1>14. QED BY <1>6, <1>7, <1>12, <1>13

\* A step keeps the first receipts of commitments before all openings.
LEMMA FirmNext ==
    ASSUME OnCourse, OnCourse', FirstFirm, NEW p \in Honest, Step(p), Goes(p)
    PROVE  FirstFirm'
<1>1. firm \subseteq firm'
  BY StepChanges
<1>2. ASSUME NEW q \in Honest, NEW j \in 1 .. Len(log[q]), Odd(j)
      PROVE  \E f \in Honest : j <= Len(log'[f]) /\ log'[f][j][Faulty] \in firm'
  <2>1. PICK f \in Honest : j <= Len(log[f]) /\ log[f][j][Faulty] \in firm
    BY <1>2 DEF FirstFirm
  <2>2. j \in 1 .. Len(log[f])
    <3>1. Len(log[f]) \in Nat /\ Len(log[q]) \in Nat
      BY LogKept
    <3>2. QED BY <2>1, <3>1
  <2>3. j \in 1 .. Len(log'[f]) /\ log'[f][j] = log[f][j]
    BY <2>2, LogKept
  <2>4. j <= Len(log'[f])
    <3>1. PICK x : Placed(f, x)'
      BY DEF OnCourse
    <3>2. ASeq(log'[f])
      BY <3>1 DEF Placed, Local, Plain
    <3>3. Len(log'[f]) \in Nat
      BY <3>2, SeqFacts
    <3>4. QED BY <2>3, <3>3
  <2>5. log'[f][j][Faulty] \in firm'
    BY <1>1, <2>1, <2>3
  <2>6. QED BY <2>4, <2>5
<1>3. PICK j, b : b = log[p] /\ j = Len(b) + 1
  OBVIOUS
<1>4. PICK x : Placed(p, x)
  BY DEF OnCourse
<1>5. ASeq(b) /\ Len(b) \in Nat
  BY <1>3, <1>4, PlacedFacts
<1>6. ASSUME NEW v, log'[p] = Append(b, v), Odd(j)
      PROVE  \E f \in Honest : j <= Len(log'[f]) /\ log'[f][j][Faulty] \in firm'
  <2>1. /\ Len(log'[p]) = j /\ log'[p][j] = v /\ log' # log
    <3>1. Len(Append(b, v)) = Len(b) + 1 /\ Append(b, v)[Len(b) + 1] = v
      BY <1>5, AppendFacts
    <3>2. Len(log'[p]) = Len(b) + 1
      BY <1>6, <3>1
    <3>3. log'[p][j] = v
      BY <1>3, <1>6, <3>1
    <3>4. Len(log'[p]) # Len(b)
      BY <1>5, <3>2
    <3>5. log' # log
      BY <1>3, <3>4
    <3>6. QED BY <1>3, <3>2, <3>3, <3>5
  <2>2. CASE ReceiveOpens(p)
    <3>1. st[p].step \in {"seedopen", "open"}
      BY <2>2 DEF ReceiveOpens
    <3>2. st[p].step \notin Exceptions
      BY <3>1 DEF Exceptions
    <3>3. x.step = st[p].step /\ Len(b) = x.log /\ Regular(mode, script, x)
      BY <1>3, <1>4, <3>2, PlacedFacts
    <3>4. Odd(Len(b))
      BY <3>1, <3>3 DEF Regular
    <3>5. QED BY <1>3, <1>5, <1>6, <3>4, Parity
  <2>3. CASE ReceiveComms(p)
    <3>1. PICK e : /\ log' = [log EXCEPT ![p] = Append(@, View(p, e))]
                   /\ firm' = IF NothingOpen(p) THEN firm \cup {e} ELSE firm
      BY <2>3, Zenon DEF ReceiveComms, HashIn
    <3>2. CASE NothingOpen(p)
      <4>1. v = View(p, e)
        <5>1. log'[p] = Append(b, View(p, e))
          BY <1>3, <3>1 DEF OnCourse, Typed
        <5>2. Append(b, View(p, e))[Len(b) + 1] = View(p, e)
          BY <1>5, AppendFacts
        <5>3. QED BY <1>3, <2>1, <5>1, <5>2
      <4>2. v[Faulty] = e
        BY <4>1, ViewIs
      <4>3. log'[p][j][Faulty] \in firm'
        BY <2>1, <3>1, <3>2, <4>2
      <4>4. j <= Len(log'[p])
        BY <1>3, <1>5, <2>1
      <4>5. QED BY <4>3, <4>4
    <3>3. CASE ~ NothingOpen(p)
      <4>1. PICK f \in Honest : ~ Len(sent[f]) <= Len(sent[p])
        BY <3>3 DEF NothingOpen, Round
      <4>2. Len(sent[f]) > Len(sent[p])
        <5>1. PICK y : Placed(f, y)
          BY DEF OnCourse
        <5>2. Len(sent[f]) \in Nat
          BY <5>1, PlacedFacts
        <5>3. Len(sent[p]) \in Nat
          BY <1>4, PlacedFacts
        <5>4. QED BY <4>1, <5>2, <5>3
      <4>3. st[p].step \in {"seedcomm", "comm"}
        BY <2>3 DEF ReceiveComms
      <4>4. Len(log[p]) + 1 <= Len(log[f])
        BY <4>2, <4>3, AheadLogged
      <4>5. j \in 1 .. Len(log[f])
        <5>1. Len(log[f]) \in Nat
          BY LogKept
        <5>2. QED BY <1>3, <1>5, <4>4, <5>1
      <4>6. QED BY <1>2, <1>6, <4>5
    <3>4. QED BY <3>2, <3>3
  <2>4. QED BY <2>1, <2>2, <2>3, StepChanges
<1>7. ASSUME NEW q \in Honest, NEW i \in 1 .. Len(log'[q]), Odd(i)
      PROVE  \E f \in Honest : i <= Len(log'[f]) /\ log'[f][i][Faulty] \in firm'
  <2>1. CASE i \in 1 .. Len(log[q])
    BY <1>2, <1>7, <2>1
  <2>2. CASE i \notin 1 .. Len(log[q])
    <3>1. q = p /\ \E v : log'[p] = Append(b, v)
      BY <1>3, <2>2 DEF Goes
    <3>2. Len(log'[p]) = j
      BY <1>3, <1>5, <3>1, AppendFacts
    <3>3. i = j
      BY <1>3, <1>5, <2>2, <3>1, <3>2
    <3>4. QED BY <1>6, <1>7, <3>1, <3>3
  <2>3. QED BY <2>1, <2>2
<1>8. QED BY <1>7 DEF FirstFirm

\* At the beginning nothing has been seen.
LEMMA NothingSeen ==
    ASSUME Init
    PROVE  Seen
<1>1. \A q \in Honest : Len(log[q]) = 0
  BY ShortSeqs, SeqFacts DEF Init
<1>2. \A q \in Honest : Compared(q)
  BY <1>1 DEF Compared
<1>3. FirstFirm
  BY <1>1 DEF FirstFirm
<1>4. QED BY <1>2, <1>3, StartsOnCourse DEF Seen

\* Every step keeps what parties have seen.
LEMMA SeenNext ==
    ASSUME Seen, [Next]_vars
    PROVE  Seen'
<1>1. CASE UNCHANGED vars
  <2>1. OnCourse'
    BY <1>1, StaysOnCourse DEF Seen
  <2>2. st' = st /\ sent' = sent /\ log' = log /\ firm' = firm
    BY <1>1 DEF vars
  <2>3. \A q \in Honest : Compared(q)'
    BY <2>2 DEF Seen, Compared, Doing
  <2>4. FirstFirm'
    BY <2>2 DEF Seen, FirstFirm
  <2>5. QED BY <2>1, <2>3, <2>4 DEF Seen
<1>2. ASSUME NEW p \in Honest, Step(p) PROVE Seen'
  <2>1. OnCourse /\ OnCourse' /\ Goes(p) /\ FirstFirm /\ \A q \in Honest : Compared(q)
    BY <1>2, StepGoes DEF Seen
  <2>2. FirstFirm'
    BY <1>2, <2>1, FirmNext
  <2>3. \A q \in Honest : Compared(q)'
    BY <1>2, <2>1, ComparedNext
  <2>4. QED BY <2>1, <2>2, <2>3 DEF Seen
<1>3. QED BY <1>1, <1>2 DEF Next

\* A party that has compared its broadcasts has the log of all others.
LEMMA OneLog ==
    ASSUME Seen, NEW p \in Honest, Doing(p, "done"), Len(log[p]) > 0, NEW q \in Honest
    PROVE  log[q] = log[p]
<1>1. PICK m, sc : m = mode /\ sc = script
  OBVIOUS
<1>2. m \in Modes /\ sc \in Scripts /\ OnCourse
  BY <1>1 DEF Seen, OnCourse, Typed
<1>3. PICK x : Placed(p, x)
  BY <1>2 DEF OnCourse
<1>4. PICK y : Placed(q, y)
  BY <1>2 DEF OnCourse
<1>5. st[p].step = "done" /\ "done" \notin Exceptions
  BY DEF Doing, Exceptions
<1>6. /\ x \in Course(m, sc) /\ x \in Position(sc) /\ x.step = "done" /\ x.log > 0
      /\ Len(sent[p]) = x.sent /\ x.sent \in Nat /\ sent[p][x.sent].body = log[p]
  BY <1>1, <1>2, <1>3, <1>5, PlacedFacts
<1>7. /\ y \in Course(m, sc) /\ y \in Position(sc) /\ Len(sent[q]) = y.sent /\ y.sent \in Nat
      /\ (y.step \in {"hash", "done"} /\ y.log > 0 => sent[q][y.sent].body = log[q])
  BY <1>1, <1>2, <1>4, PlacedFacts
<1>8. Len(sent[q]) >= Len(sent[p]) /\ sent[q][Len(sent[p])] = sent[p][Len(sent[p])]
  BY DEF Seen, Compared
<1>9. y.sent >= x.sent /\ sent[q][x.sent] = sent[p][x.sent]
  BY <1>6, <1>7, <1>8
<1>10. y.step \in {"hash", "done"} /\ y.log = x.log
  BY <1>2, <1>6, <1>7, <1>9, ComparedAt
<1>11. y.sent = x.sent
  <2>1. CASE y \in From(m, sc, x)
    <3>1. Advance(m, sc, x) = x
      BY <1>2, <1>6, Closes
    <3>2. \A v \in {x} : Advance(m, sc, v) \in {x}
      BY <3>1
    <3>3. From(m, sc, x) \subseteq {x}
      <4>1. {x} \subseteq Position(sc) /\ x \in {x}
        BY <1>6
      <4>2. QED BY <3>2, <4>1, Least
    <3>4. QED BY <2>1, <3>3
  <2>2. CASE x \in From(m, sc, y)
    <3>1. x.sent >= y.sent
      BY <1>2, <1>7, <2>2, Monotone
    <3>2. QED BY <1>6, <1>7, <1>9, <3>1
  <2>3. QED BY <1>2, <1>6, <1>7, <2>1, <2>2, Ordered
<1>12. sent[q][x.sent].body = log[q]
  BY <1>6, <1>7, <1>10, <1>11
<1>13. QED BY <1>6, <1>9, <1>12

\* Parties that have ended have the same log.
LEMMA SameLogs ==
    ASSUME Seen
    PROVE  SameView
<1>1. SUFFICES ASSUME NEW p \in Honest, NEW q \in Honest, Doing(p, "done"), Doing(q, "done")
               PROVE  log[p] = log[q]
  BY DEF SameView
<1>2. PICK x : Placed(p, x)
  BY DEF Seen, OnCourse
<1>3. PICK y : Placed(q, y)
  BY DEF Seen, OnCourse
<1>4. OnCourse
  BY DEF Seen
<1>5. ASeq(log[p]) /\ ASeq(log[q])
  BY <1>2, <1>3, <1>4, PlacedFacts
<1>6. CASE Len(log[p]) > 0
  BY <1>1, <1>6, OneLog
<1>7. CASE Len(log[q]) > 0
  BY <1>1, <1>7, OneLog
<1>8. CASE ~ Len(log[p]) > 0 /\ ~ Len(log[q]) > 0
  BY <1>5, <1>8, SeqFacts
<1>9. QED BY <1>6, <1>7, <1>8

\* Commitments of the faulty party that the others have compared are its own,
\* and were there before anybody opened one.
LEMMA OwnCommitments ==
    ASSUME Seen
    PROVE  Independent
<1>1. SUFFICES ASSUME NEW p \in Honest, Doing(p, "done"), NEW k \in DOMAIN log[p]
               PROVE  log[p][k][Faulty] \in firm /\ log[p][k][Faulty].by = Faulty
  BY DEF Independent
<1>2. PICK b : b = log[p]
  OBVIOUS
<1>3. PICK x : Placed(p, x)
  BY DEF Seen, OnCourse
<1>4. OnCourse /\ st[p].step = "done" /\ "done" \notin Exceptions
  BY <1>1 DEF Seen, Doing, Exceptions
<1>5. /\ ASeq(b) /\ Paired(b) /\ Len(b) = x.log /\ x.step = "done" /\ Regular(mode, script, x)
      /\ Len(b) \in Nat
  BY <1>2, <1>3, <1>4, PlacedFacts
<1>6. k \in 1 .. Len(b)
  BY <1>1, <1>2, <1>5, SeqFacts
<1>7. \A q \in Honest : log[q] = b
  BY <1>1, <1>2, <1>5, <1>6, OneLog
<1>8. \A j \in 1 .. Len(b) : Odd(j) => b[j][Faulty] \in firm
  BY <1>2, <1>7 DEF Seen, FirstFirm
<1>9. CASE Odd(k)
  <2>1. ~ Odd(Len(b))
    BY <1>5 DEF Regular
  <2>2. k + 1 \in 1 .. Len(b) /\ k \in Nat
    BY <1>5, <1>6, <1>9, <2>1
  <2>3. ~ Odd(k + 1)
    BY <1>9, <2>2, Parity
  <2>4. b[k + 1][Faulty] = b[k + 1 - 1][Faulty] /\ b[k + 1][Faulty].by = Faulty
    BY <1>5, <2>2, <2>3 DEF Paired
  <2>5. k + 1 - 1 = k
    BY <2>2
  <2>6. QED BY <1>2, <1>6, <1>8, <1>9, <2>4, <2>5
<1>10. CASE ~ Odd(k)
  <2>1. b[k][Faulty] = b[k - 1][Faulty] /\ b[k][Faulty].by = Faulty
    BY <1>5, <1>6, <1>10 DEF Paired
  <2>2. k - 1 \in 1 .. Len(b) /\ Odd(k - 1)
    BY <1>5, <1>6, <1>10 DEF Odd
  <2>3. QED BY <1>2, <1>8, <2>1, <2>2
<1>11. QED BY <1>9, <1>10

\* Parties that end in order have seen the same commitments and openings, and
\* the faulty party chose its own before it saw any other, for any parties,
\* scripts and deviations (Subroutines.cpp:128-175, Commit.cpp:14-27,
\* Player.cpp:475-501).
THEOREM CoinsAreFair == Spec => []FairCoins
<1>1. Init => Seen
  BY NothingSeen
<1>2. Seen /\ [Next]_vars => Seen'
  BY SeenNext
<1>3. Seen => FairCoins
  BY SameLogs, OwnCommitments DEF FairCoins
<1>4. QED BY <1>1, <1>2, <1>3, PTL DEF Spec

-----------------------------------------------------------------------------
(* While the faulty party does what it should.                             *)

AllRight(o) == \A i \in 1 .. Len(o) : o[i] = [id |-> o[i].id, err |-> 0]

\* The coins of a check of n values, from entry j of the log, and what a party
\* then commits to.
SeedAt(m, n, j, b) == IF Seeded(m, n) /\ j > 0 THEN [q \in Party |-> b[j][q].data] ELSE <<>>
Triple(n) == <<n, [id |-> n, err |-> 0], n>>
DataAt(m, y, j, b) ==
    [seed |-> SeedAt(m, y.cnt, j, b), pj |-> 0,
     pairs |-> [i \in 1 .. y.cnt |-> Triple(y.next - y.cnt + i - 1)]]

\* The message of p at position y, if a is all it has sent and b its log.
Says(m, p, y, a, b) ==
    LET k == y.sent
    IN /\ y.step = "seedcomm" => a[k].body = Commit(p, Coin(p, k), k)
       /\ y.step = "seedopen" => a[k].body = Commit(p, Coin(p, k - 1), k - 1)
       /\ y.step = "comm" => a[k].body = Commit(p, DataAt(m, y, y.log, b), k)
       /\ y.step = "open" => a[k].body = Commit(p, DataAt(m, y, y.log - 1, b), k - 1)
       /\ y.step \in {"seedopen", "open"} /\ k > 1 => a[k].body = a[k - 1].body

Told(p) ==
    \A y \in Course(mode, script) :
        Waiting(y) /\ y.sent <= Len(sent[p]) => Says(mode, p, y, sent[p], log[p])

\* Something from every party.
OfAll(f) == f = [q \in Party |-> f[q]]

\* What p has got in the broadcast at position y, and from the faulty party.
Got(p, y) ==
    /\ \A q \in Honest : /\ y.sent <= Len(sent[q])
                         /\ log[p][y.log + 1][q] = sent[q][y.sent].body
    /\ y.step = "comm" => log[p][y.log + 1][Faulty].data = Truth(TRUE)
Heard(p) ==
    /\ \A y \in Course(mode, script) : Logs(y) /\ y.log < Len(log[p]) => Got(p, y)
    /\ \A j \in 1 .. Len(log[p]) :
          /\ OfAll(log[p][j])
          /\ log[p][j][Faulty].by = Faulty

\* What p needs for its next step.
Ready(p) ==
    LET l == Len(log[p])
    IN /\ st[p].step = "pj" => st[p].seed = SeedAt(mode, st[p].cnt, l, log[p])
       /\ st[p].step \in {"seedopen", "open"} =>
             /\ Len(sent[p]) > 1
             /\ \A q \in Honest : /\ Len(sent[q]) >= Len(sent[p]) - 1
                                  /\ log[p][l][q] = sent[q][Len(sent[p]) - 1].body
       /\ st[p].step = "open" => log[p][l][Faulty].data = Truth(TRUE)

\* The values a CheckFor looks at have been opened.
Enough(p) ==
    st[p].op > 0 /\ script[st[p].op].do = "open" /\ st[p].step # "shares" =>
        script[st[p].op].n <= Len(opened[p])

Agree(p, q) == \A j \in 1 .. Len(log[p]) : j <= Len(log[q]) => log[p][j] = log[q][j]

Sound(p) == st[p].step \notin Exceptions /\ AllRight(opened[p])
Truthful ==
    \A p \in Honest :
        /\ Sound(p) /\ Told(p) /\ Heard(p) /\ Ready(p) /\ Enough(p)
        /\ \A q \in Honest : Agree(p, q)

\* The inductive invariant.
Faithful == OnCourse /\ (deviated = 0 => Truthful)

\* Who has sent as much as a party that waits is not behind it.
LEMMA Further ==
    ASSUME NEW m, NEW sc \in Scripts, NEW x \in Course(m, sc), NEW w \in Course(m, sc),
           Waiting(x), w.sent >= x.sent
    PROVE  w \in From(m, sc, x) /\ w.log >= x.log
<1>1. /\ x \in Position(sc) /\ w \in Position(sc)
      /\ x.sent \in Nat /\ w.sent \in Nat
  BY CourseFacts DEF Position
<1>2. CASE w \in From(m, sc, x)
  BY <1>1, <1>2, Monotone
<1>3. CASE x \in From(m, sc, w)
  <2>1. x = w
    BY <1>1, <1>3, Monotone
  <2>2. QED BY <1>1, <1>2, <2>1, Continues
<1>4. QED BY <1>2, <1>3, Ordered

\* The broadcasts that are logged have different places in the log.
LEMMA UniqueLog ==
    ASSUME NEW m, NEW sc \in Scripts, NEW x \in Course(m, sc), NEW y \in Course(m, sc),
           Logs(x), Logs(y), x.log = y.log
    PROVE  x = y
<1>1. ASSUME NEW v \in Course(m, sc), NEW w \in Course(m, sc), Logs(v), w \in From(m, sc, v),
             v.log = w.log
      PROVE  v = w
  <2>1. v \in Position(sc) /\ w \in Position(sc) /\ v.log \in Nat /\ w.log \in Nat
    BY CourseFacts DEF Position
  <2>2. PICK z : z = Advance(m, sc, v)
    OBVIOUS
  <2>3. z \in Position(sc) /\ z.log = v.log + 1
    BY <1>1, <2>1, <2>2, RoundIs, Closes DEF Logs
  <2>4. w \in From(m, sc, z) => w.log >= z.log
    BY <2>3, Monotone
  <2>5. w = v \/ w \in From(m, sc, z)
    BY <1>1, <2>1, <2>2, Splits
  <2>6. QED BY <1>1, <2>1, <2>3, <2>4, <2>5
<1>2. QED BY <1>1, Ordered

\* A party that runs.
LEMMA RunsAt ==
    ASSUME NEW m \in Modes, NEW sc \in Scripts, NEW p, NEW x, NEW s, NEW a, NEW b, NEW o,
           Local(m, sc, p, x, s, a, b, o), s.step \notin Exceptions
    PROVE  /\ s.step \in Steps /\ s.step = x.step /\ s.cnt = x.cnt /\ s.next = x.next
           /\ x \in Course(m, sc) /\ x \in Position(sc) /\ Regular(m, sc, x)
           /\ Len(a) = x.sent /\ Len(b) = x.log /\ x.sent \in Nat /\ x.log \in Nat
           /\ x.cnt \in Nat /\ x.next \in Nat
           /\ ASeq(a) /\ ASeq(b) /\ ASeq(o) /\ Len(o) \in Nat
           /\ Exact(m, sc, x, s, b) /\ Values(m, s, o) /\ Sizes(m, sc, s, b)
           /\ Fits(m, p, s, a[Len(a)].body, Len(a), b) /\ IsState(s)
           /\ x.step \in {"hash", "done"} /\ x.log > 0 => a[x.sent].body = b
<1>1. Exact(m, sc, x, s, b) /\ x \in Course(m, sc)
  BY DEF Local
<1>2. s.step = x.step /\ s.cnt = x.cnt /\ s.next = x.next /\ Len(b) = x.log
  BY <1>1 DEF Exact
<1>3. s.step \in Steps
  BY <1>1, <1>2, CourseFacts DEF Position
<1>4. /\ x \in Position(sc) /\ Regular(m, sc, x)
      /\ Plain(s, a, b, o) /\ Sizes(m, sc, s, b) /\ Len(a) = x.sent /\ x.sent \in Nat
      /\ x.cnt \in Nat /\ x.next \in Nat /\ x.log \in Nat /\ Values(m, s, o)
      /\ Fits(m, p, s, a[Len(a)].body, Len(a), b)
  BY <1>3, RunningAt
<1>5. ASeq(a) /\ ASeq(b) /\ ASeq(o) /\ Len(o) \in Nat /\ IsState(s)
  BY <1>4, SeqFacts DEF Plain
<1>6. x.step \in {"hash", "done"} /\ x.log > 0 => a[x.sent].body = b
  BY DEF Local
<1>7. QED BY <1>1, <1>2, <1>3, <1>4, <1>5, <1>6

\* Coins that are in the log stay.
LEMMA SeedKept ==
    ASSUME NEW m, NEW n, NEW b, NEW c, Extends(b, c), NEW j \in Int, j <= Len(b), Len(b) \in Nat
    PROVE  SeedAt(m, n, j, c) = SeedAt(m, n, j, b)
<1>1. j > 0 => c[j] = b[j]
  BY DEF Extends
<1>2. QED BY <1>1 DEF SeedAt

\* Right values with their MACs are what a delta should depend on.
LEMMA RightData ==
    ASSUME NEW m, NEW sc, NEW x, NEW s, NEW b, NEW o, NEW j,
           Exact(m, sc, x, s, b), Values(m, s, o), AllRight(o), Len(o) \in Nat,
           x.cnt \in Nat, x.next \in Nat, x.step # "shares",
           s.pj = 0, s.seed = SeedAt(m, s.cnt, j, b)
    PROVE  DataOf(m, s) = DataAt(m, x, j, b)
<1>1. s.cnt = x.cnt /\ s.next = x.next /\ Len(s.macs) = x.cnt
  BY DEF Exact
<1>2. ASSUME NEW i \in 1 .. s.cnt
      PROVE  <<s.macs[i], s.vals[i], IF m = "z2k" THEN s.shares[i] ELSE s.macs[i]>>
             = Triple(x.next - x.cnt + i - 1)
  <2>1. PICK n : n = x.next - x.cnt + i - 1
    OBVIOUS
  <2>2. s.macs[i] = n
    BY <1>1, <2>1 DEF Values
  <2>3. (IF m = "z2k" THEN s.shares[i] ELSE s.macs[i]) = n
    BY <1>1, <2>2 DEF Values
  <2>4. Len(o) - s.cnt + i \in 1 .. Len(o)
    BY <1>1 DEF Values
  <2>5. s.vals[i].id = n /\ s.vals[i] = o[Len(o) - s.cnt + i]
    BY <2>2 DEF Values
  <2>6. s.vals[i] = [id |-> n, err |-> 0]
    BY <2>4, <2>5 DEF AllRight
  <2>7. QED BY <2>1, <2>2, <2>3, <2>6 DEF Triple
<1>3. [i \in 1 .. s.cnt |-> <<s.macs[i], s.vals[i], IF m = "z2k" THEN s.shares[i] ELSE s.macs[i]>>]
      = [i \in 1 .. x.cnt |-> Triple(x.next - x.cnt + i - 1)]
  BY <1>1, <1>2
<1>4. QED BY <1>1, <1>3 DEF DataOf, DataAt

\* A step of p that is right if the faulty party has done what it should: it
\* takes e from it, and opens what it has committed to.
Takes(p, e) ==
    /\ log'[p] = Append(log[p], View(p, e)) /\ e.by = Faulty
    /\ st[p].step = "comm" => e.data = Truth(TRUE)
    /\ \A q \in Honest : Len(log[q]) > Len(log[p]) => log[q][Len(log[p]) + 1][Faulty] = e
Repeats(p) ==
    /\ st[p].step = IF st'[p].step = "open" THEN "comm" ELSE "seedcomm"
    /\ Len(sent'[p]) = Len(sent[p]) + 1
    /\ sent'[p][Len(sent'[p])].body = sent[p][Len(sent[p])].body
Honestly(p) ==
    /\ st'[p].step \notin Exceptions /\ AllRight(opened'[p])
    /\ Len(opened'[p]) >= Len(opened[p])
    /\ st[p].step = "shares" => script[st[p].op].n <= Len(opened'[p])
    /\ st'[p].step \in {"pj", "comm"} =>
          st'[p].seed = SeedAt(mode, st'[p].cnt, Len(log'[p]), log'[p])
    /\ st'[p].step = "comm" => st'[p].pj = 0
    /\ IF Logs(st[p]) THEN There(p) /\ \E e : Takes(p, e) ELSE log'[p] = log[p]
    /\ st'[p].step \in {"seedopen", "open"} => Repeats(p)

\* From which position p goes to which.
Moves(p, m, sc, x, z) ==
    /\ m \in Modes /\ sc \in Scripts /\ mode = m /\ script = sc /\ mode' = m /\ script' = sc
    /\ x \in Course(m, sc) /\ z \in Course(m, sc) /\ z = Advance(m, sc, x)
    /\ x \in Position(sc) /\ z \in Position(sc) /\ x.step # "done"
    /\ x.step = "call" => x.op < Len(sc)
    /\ x.sent \in Nat /\ z.sent \in Nat /\ x.log \in Nat /\ z.log \in Nat
    /\ st[p].step = x.step /\ st'[p].step = z.step /\ st[p].op = x.op /\ st'[p].op = z.op
    /\ Len(opened[p]) \in Nat /\ Len(opened'[p]) \in Nat
    /\ Len(sent[p]) = x.sent /\ Len(sent'[p]) = z.sent
    /\ Len(log[p]) = x.log /\ Len(log'[p]) = z.log
    /\ ASeq(log[p]) /\ ASeq(sent[p])
    /\ Local(m, sc, p, z, st'[p], sent'[p], log'[p], opened'[p])
    /\ Onwards(sc, x, z)

\* The positions are known.
LEMMA WhereFrom ==
    ASSUME OnCourse, OnCourse', NEW p \in Honest, Step(p), Goes(p), Sound(p),
           st'[p].step \notin Exceptions
    PROVE  \E m, sc, x, z : Moves(p, m, sc, x, z)
<1>1. PICK m, sc, s, a, b, o : /\ mode = m /\ script = sc /\ st[p] = s /\ sent[p] = a
                               /\ log[p] = b /\ opened[p] = o
  OBVIOUS
<1>2. PICK t, c, d, w : st'[p] = t /\ sent'[p] = c /\ log'[p] = d /\ opened'[p] = w
  OBVIOUS
<1>3. m \in Modes /\ sc \in Scripts /\ mode' = m /\ script' = sc
  BY <1>1 DEF OnCourse, Typed, Goes
<1>4. PICK x, z : Placed(p, x) /\ Placed(p, z)' /\ Leads(mode, script, x, z, st'[p])
  BY DEF Goes
<1>5. Local(m, sc, p, x, s, a, b, o) /\ Local(m, sc, p, z, t, c, d, w)
  BY <1>1, <1>2, <1>3, <1>4 DEF Placed
<1>6. s.step \notin Exceptions /\ t.step \notin Exceptions
  BY <1>1, <1>2 DEF Sound
<1>7. /\ x \in Course(m, sc) /\ x \in Position(sc) /\ x.sent \in Nat /\ x.log \in Nat
      /\ s.step = x.step /\ Len(a) = x.sent /\ Len(b) = x.log /\ ASeq(b) /\ ASeq(a)
      /\ s.op = x.op /\ Len(o) \in Nat
  BY <1>3, <1>5, <1>6, RunsAt DEF Exact
<1>8. /\ z \in Course(m, sc) /\ z \in Position(sc) /\ z.sent \in Nat /\ z.log \in Nat
      /\ t.step = z.step /\ Len(c) = z.sent /\ Len(d) = z.log
      /\ t.op = z.op /\ Len(w) \in Nat
  BY <1>3, <1>5, <1>6, RunsAt DEF Exact
<1>9. z = Advance(m, sc, x)
  BY <1>1, <1>2, <1>4, <1>6 DEF Leads
<1>10. x.step # "done" /\ (x.step = "call" => x.op < Len(sc))
  <2>1. ~ Stopped(p)
    BY StepChanges
  <2>2. x.step # "done"
    BY <1>1, <1>7, <2>1 DEF Stopped
  <2>3. ASSUME x.step = "call" PROVE x.op < Len(sc)
    <3>1. st[p].op < Len(script)
      <4>1. Doing(p, "call")
        BY <1>1, <1>7, <2>3 DEF Doing
      <4>2. BeginOpen(p) \/ AddToCheck(p) \/ Check(p) \/ CheckFor(p) \/ CreateRandom(p) \/ CheckBroadcast(p)
        BY <4>1 DEF Step, Exchange, ReceiveComms, ReceiveOpens, ReceiveHighBits, ReceiveHashes,
                    ClosedConnection, Abandoned, Doing
      <4>3. QED BY <4>2 DEF BeginOpen, AddToCheck, Check, CheckFor, CreateRandom, CheckBroadcast
    <3>2. QED BY <1>1, <1>7, <3>1
  <2>4. QED BY <2>2, <2>3
<1>11. Onwards(sc, x, z)
  BY <1>3, <1>7, <1>9, <1>10, Forward
<1>12. Moves(p, m, sc, x, z)
  BY <1>1, <1>2, <1>3, <1>5, <1>7, <1>8, <1>9, <1>10, <1>11 DEF Moves
<1>13. QED BY <1>12

\* The next message says what it should.
LEMMA SaysNext ==
    ASSUME NEW p, NEW m, NEW sc, NEW x, NEW z, Moves(p, m, sc, x, z), Honestly(p), Told(p),
           Extends(sent[p], sent'[p]), Extends(log[p], log'[p]), Waiting(z)
    PROVE  Says(m, p, z, sent'[p], log'[p])
<1>1. PICK a, b, t, c, d, w : /\ sent[p] = a /\ log[p] = b
                              /\ st'[p] = t /\ sent'[p] = c /\ log'[p] = d /\ opened'[p] = w
  OBVIOUS
<1>2. m \in Modes /\ sc \in Scripts /\ Local(m, sc, p, z, t, c, d, w) /\ t.step \notin Exceptions
  BY <1>1 DEF Moves, Honestly
<1>3. /\ Len(c) = z.sent /\ Len(d) = z.log /\ z.sent \in Nat /\ z.log \in Nat /\ t.step = z.step
      /\ Len(w) \in Nat /\ Exact(m, sc, z, t, d) /\ Values(m, t, w) /\ z.cnt \in Nat /\ z.next \in Nat
      /\ Fits(m, p, t, c[Len(c)].body, Len(c), d) /\ t.cnt = z.cnt
  BY <1>2, RunsAt
<1>4. /\ x \in Course(m, sc) /\ x \in Position(sc) /\ z = Advance(m, sc, x)
      /\ Len(a) = x.sent /\ Len(b) = x.log /\ x.sent \in Nat /\ x.log \in Nat
      /\ mode = m /\ script = sc /\ z.sent = x.sent + 1 /\ st[p].step = x.step
  BY <1>1 DEF Moves, Onwards
<1>5. CASE z.step = "seedcomm"
  BY <1>1, <1>3, <1>5 DEF Says, Fits
<1>6. CASE z.step = "comm"
  <2>1. t.pj = 0 /\ t.seed = SeedAt(m, t.cnt, z.log, d) /\ AllRight(w)
    BY <1>1, <1>3, <1>4, <1>6 DEF Honestly
  <2>2. DataOf(m, t) = DataAt(m, z, z.log, d)
    BY <1>3, <1>6, <2>1, RightData
  <2>3. c[z.sent].body = Commit(p, DataAt(m, z, z.log, d), z.sent)
    BY <1>3, <1>6, <2>2 DEF Fits
  <2>4. QED BY <1>1, <1>6, <2>3 DEF Says
<1>7. CASE z.step \in {"seedopen", "open"}
  <2>1. /\ x.step = IF z.step = "open" THEN "comm" ELSE "seedcomm"
        /\ c[z.sent].body = a[x.sent].body
    BY <1>1, <1>3, <1>4, <1>7 DEF Honestly, Repeats
  <2>2. Waiting(x) /\ x.sent > 0
    BY <1>2, <1>4, <2>1, WaitingSent DEF Waiting
  <2>3. c[z.sent - 1] = a[x.sent]
    BY <1>1, <1>4, <2>2 DEF Extends
  <2>4. c[z.sent].body = c[z.sent - 1].body
    BY <2>1, <2>3
  <2>5. z.step = "seedopen" => c[z.sent].body = Commit(p, Coin(p, z.sent - 1), z.sent - 1)
    BY <1>3 DEF Fits
  <2>6. ASSUME z.step = "open"
        PROVE  c[z.sent].body = Commit(p, DataAt(m, z, z.log - 1, d), z.sent - 1)
    <3>1. x.step = "comm" /\ a[x.sent].body = Commit(p, DataAt(m, x, x.log, b), x.sent)
      BY <1>1, <1>4, <2>1, <2>2, <2>6 DEF Told, Says
    <3>2. z.cnt = x.cnt /\ z.next = x.next /\ z.log = x.log + 1
      BY <1>2, <1>4, <3>1, RoundIs
    <3>3. SeedAt(m, x.cnt, x.log, d) = SeedAt(m, x.cnt, x.log, b)
      <4>1. Extends(b, d)
        BY <1>1
      <4>2. QED BY <1>4, <4>1, SeedKept
    <3>4. DataAt(m, z, x.log, d) = DataAt(m, x, x.log, b)
      BY <3>2, <3>3 DEF DataAt
    <3>5. z.log - 1 = x.log /\ z.sent - 1 = x.sent
      BY <1>4, <3>2
    <3>6. QED BY <2>1, <3>1, <3>4, <3>5
  <2>7. QED BY <1>1, <1>7, <2>4, <2>5, <2>6 DEF Says
<1>8. CASE z.step \notin {"seedcomm", "comm", "seedopen", "open"}
  BY <1>8 DEF Says
<1>9. QED BY <1>5, <1>6, <1>7, <1>8

\* So do all its messages.
LEMMA ToldNext ==
    ASSUME NEW p, NEW m, NEW sc, NEW x, NEW z, Moves(p, m, sc, x, z), Honestly(p), Told(p),
           Extends(sent[p], sent'[p]), Extends(log[p], log'[p])
    PROVE  Told(p)'
<1>1. PICK a, b, c, d : sent[p] = a /\ log[p] = b /\ sent'[p] = c /\ log'[p] = d
  OBVIOUS
<1>2. /\ m \in Modes /\ sc \in Scripts /\ mode = m /\ script = sc /\ mode' = m /\ script' = sc
      /\ x \in Course(m, sc) /\ z \in Course(m, sc) /\ Onwards(sc, x, z)
      /\ Len(a) = x.sent /\ Len(c) = z.sent /\ Len(b) = x.log /\ x.sent \in Nat /\ x.log \in Nat
      /\ Extends(a, c) /\ Extends(b, d) /\ z.sent \in Nat
  BY <1>1 DEF Moves
<1>3. ASSUME NEW y \in Course(m, sc), Waiting(y), y.sent <= Len(c)
      PROVE  Says(m, p, y, c, d)
  <2>1. y \in Position(sc) /\ y.sent \in Nat /\ y.log \in Nat
    <3>1. y \in Position(sc)
      BY <1>2, CourseFacts
    <3>2. QED BY <3>1 DEF Position
  <2>2. y.sent > 0
    BY <1>2, <1>3, WaitingSent
  <2>3. CASE y.sent <= x.sent
    <3>1. Says(m, p, y, a, b)
      BY <1>1, <1>2, <1>3, <2>3 DEF Told
    <3>2. y.log <= x.log
      BY <1>2, <1>3, <2>1, <2>3, Further DEF Position
    <3>3. c[y.sent] = a[y.sent] /\ (y.sent > 1 => c[y.sent - 1] = a[y.sent - 1])
      BY <1>2, <2>1, <2>2, <2>3 DEF Extends
    <3>4. SeedAt(m, y.cnt, y.log, d) = SeedAt(m, y.cnt, y.log, b)
      BY <1>2, <2>1, <3>2, SeedKept
    <3>5. SeedAt(m, y.cnt, y.log - 1, d) = SeedAt(m, y.cnt, y.log - 1, b)
      <4>1. y.log - 1 \in Int /\ y.log - 1 <= Len(b) /\ Len(b) \in Nat
        BY <1>2, <2>1, <3>2
      <4>2. QED BY <1>2, <4>1, SeedKept
    <3>6. /\ DataAt(m, y, y.log, d) = DataAt(m, y, y.log, b)
          /\ DataAt(m, y, y.log - 1, d) = DataAt(m, y, y.log - 1, b)
      BY <3>4, <3>5 DEF DataAt
    <3>7. QED BY <3>1, <3>3, <3>6 DEF Says
  <2>4. CASE ~ y.sent <= x.sent
    <3>1. Waiting(z) /\ z.sent = y.sent
      BY <1>2, <1>3, <2>1, <2>4 DEF Onwards
    <3>2. y = z
      BY <1>2, <1>3, <3>1, Unique
    <3>3. QED BY <1>1, <3>1, <3>2, SaysNext
  <2>5. QED BY <2>3, <2>4
<1>4. QED BY <1>1, <1>2, <1>3 DEF Told

\* What parties have sent stays.
LEMMA SentKept ==
    ASSUME OnCourse, NEW p \in Honest, Goes(p), NEW q \in Honest
    PROVE  /\ Extends(sent[q], sent'[q]) /\ Extends(log[q], log'[q])
           /\ Len(sent[q]) \in Nat /\ Len(sent'[q]) >= Len(sent[q]) /\ Len(log[q]) \in Nat
<1>1. PICK x : Placed(q, x)
  BY DEF OnCourse
<1>2. ASeq(log[q]) /\ Len(log[q]) \in Nat /\ Len(sent[q]) \in Nat
  BY <1>1, PlacedFacts
<1>3. sent'[q] = sent[q] \/ Extends(sent[q], sent'[q])
  BY DEF Goes
<1>4. Extends(sent[q], sent'[q]) /\ Len(sent'[q]) >= Len(sent[q])
  BY <1>2, <1>3 DEF Extends
<1>5. log'[q] = log[q] \/ \E v : log'[q] = Append(log[q], v)
  BY DEF Goes
<1>6. Extends(log[q], log'[q])
  BY <1>2, <1>5, AppendFacts DEF Extends
<1>7. QED BY <1>2, <1>4, <1>6

\* What somebody has got before stays what everybody has sent.
LEMMA GotKept ==
    ASSUME OnCourse, NEW p \in Honest, Goes(p), NEW q \in Honest, NEW y \in Course(mode, script),
           Logs(y), y.log < Len(log[q]), Got(q, y)
    PROVE  Got(q, y)'
<1>1. mode \in Modes /\ script \in Scripts
  BY DEF OnCourse, Typed
<1>2. PICK m, sc : mode = m /\ script = sc
  OBVIOUS
<1>3. y \in Position(sc) /\ y.sent \in Nat /\ y.log \in Nat /\ y.sent > 0
  BY <1>1, <1>2, CourseFacts, WaitingSent DEF Position, Waiting, Logs
<1>4. log'[q][y.log + 1] = log[q][y.log + 1]
  <2>1. y.log + 1 \in 1 .. Len(log[q])
    BY <1>3, SentKept
  <2>2. QED BY <2>1, SentKept DEF Extends
<1>5. ASSUME NEW r \in Honest
      PROVE  /\ y.sent <= Len(sent'[r])
             /\ log'[q][y.log + 1][r] = sent'[r][y.sent].body
  <2>1. y.sent <= Len(sent[r]) /\ log[q][y.log + 1][r] = sent[r][y.sent].body
    BY DEF Got
  <2>2. Extends(sent[r], sent'[r]) /\ Len(sent[r]) \in Nat
    BY SentKept
  <2>3. y.sent \in 1 .. Len(sent[r])
    BY <1>3, <2>1, <2>2
  <2>4. sent'[r][y.sent] = sent[r][y.sent] /\ y.sent <= Len(sent'[r])
    <3>1. Len(sent'[r]) >= Len(sent[r])
      BY SentKept
    <3>2. sent'[r][y.sent] = sent[r][y.sent]
      BY <2>2, <2>3 DEF Extends
    <3>3. Len(sent'[r]) \in Int \/ y.sent <= Len(sent'[r])
      BY <2>1, <3>1
    <3>4. QED BY <1>3, <2>1, <2>2, <3>1, <3>2, <3>3
  <2>5. QED BY <1>4, <2>1, <2>4
<1>6. y.step = "comm" => log'[q][y.log + 1][Faulty].data = Truth(TRUE)
  BY <1>4 DEF Got
<1>7. QED BY <1>5, <1>6 DEF Got

\* A logged broadcast, and from whom.
LEMMA TakenIs ==
    ASSUME NEW p \in Honest, NEW e, Takes(p, e), ASeq(log[p]), NEW l, l = Len(log[p]),
           NEW k, k = Len(sent[p])
    PROVE  /\ Len(log'[p]) = l + 1 /\ \A j \in 1 .. l : log'[p][j] = log[p][j]
           /\ OfAll(log'[p][l + 1])
           /\ log'[p][l + 1][Faulty] = e
           /\ \A q \in Honest : log'[p][l + 1][q] = sent[q][k].body
<1>1. PICK v, b, d : v = View(p, e) /\ b = log[p] /\ d = log'[p]
  OBVIOUS
<1>2. Len(d) = l + 1 /\ (\A j \in 1 .. l : d[j] = b[j]) /\ d[l + 1] = v
  <2>1. d = Append(b, v) /\ ASeq(b) /\ Len(b) = l
    BY <1>1 DEF Takes
  <2>2. QED BY <2>1, AppendFacts
<1>3. OfAll(v) /\ v[Faulty] = e /\ \A q \in Honest : v[q] = sent[q][k].body
  BY <1>1, FaultyAssumption DEF View, Round, Honest, OfAll
<1>4. QED BY <1>1, <1>2, <1>3

\* What a party has got is what the others have sent.
LEMMA HeardNext ==
    ASSUME OnCourse, NEW p \in Honest, NEW m, NEW sc, NEW x, NEW z, Moves(p, m, sc, x, z),
           Honestly(p), Goes(p), NEW q \in Honest, Heard(q)
    PROVE  Heard(q)'
<1>1. mode' = mode /\ script' = script /\ m = mode /\ sc = script /\ m \in Modes /\ sc \in Scripts
  BY DEF Moves
<1>2. CASE log'[q] = log[q]
  <2>1. \A y \in Course(mode, script) : Logs(y) /\ y.log < Len(log[q]) => Got(q, y)'
    BY GotKept DEF Heard
  <2>2. QED BY <1>1, <1>2, <2>1 DEF Heard
<1>3. CASE log'[q] # log[q]
  <2>1. q = p /\ Logs(st[p]) /\ There(p)
    BY <1>3 DEF Goes, Honestly
  <2>2. PICK e : Takes(p, e)
    BY <2>1 DEF Honestly
  <2>3. /\ Len(log[p]) = x.log /\ x.log \in Nat /\ Len(sent[p]) = x.sent /\ ASeq(log[p])
        /\ x \in Course(m, sc) /\ st[p].step = x.step
    BY DEF Moves
  <2>4. /\ Len(log'[p]) = x.log + 1 /\ \A j \in 1 .. x.log : log'[p][j] = log[p][j]
        /\ OfAll(log'[p][x.log + 1])
        /\ log'[p][x.log + 1][Faulty] = e
        /\ \A r \in Honest : log'[p][x.log + 1][r] = sent[r][x.sent].body
    <3>1. PICK l, k : l = Len(log[p]) /\ k = Len(sent[p])
      OBVIOUS
    <3>2. /\ Len(log'[p]) = l + 1 /\ \A j \in 1 .. l : log'[p][j] = log[p][j]
          /\ OfAll(log'[p][l + 1])
          /\ log'[p][l + 1][Faulty] = e
          /\ \A r \in Honest : log'[p][l + 1][r] = sent[r][k].body
      BY <2>2, <2>3, <3>1, TakenIs
    <3>3. l = x.log /\ k = x.sent
      BY <2>2, <2>3, <3>1
    <3>4. QED BY <3>2, <3>3
  <2>5. ASSUME NEW y \in Course(m, sc), Logs(y), y.log < x.log + 1
        PROVE  Got(p, y)'
    <3>1. y.log \in Nat
      BY <1>1, CourseFacts DEF Position
    <3>2. CASE y.log < x.log
      <4>1. Got(p, y)
        BY <1>1, <2>1, <2>3, <2>5, <3>2 DEF Heard
      <4>2. QED BY <1>1, <2>3, <2>5, <3>2, <4>1, GotKept
    <3>3. CASE ~ y.log < x.log
      <4>1. y = x
        <5>1. y.log = x.log
          BY <2>3, <2>5, <3>1, <3>3
        <5>2. Logs(x)
          BY <2>1, <2>3 DEF Logs
        <5>3. QED BY <1>1, <2>3, <2>5, <5>1, <5>2, UniqueLog
      <4>2. x.sent > 0 /\ x.sent \in Nat
        BY <1>1, <2>5, <4>1, WaitingSent DEF Waiting, Logs, Moves
      <4>3. ASSUME NEW r \in Honest
            PROVE  /\ x.sent <= Len(sent'[r])
                   /\ log'[p][x.log + 1][r] = sent'[r][x.sent].body
        <5>1. Len(sent[r]) >= x.sent
          BY <2>1, <2>3 DEF There, Round
        <5>2. Len(sent[r]) \in Nat /\ Len(sent'[r]) >= Len(sent[r])
          BY SentKept
        <5>3. x.sent \in 1 .. Len(sent[r])
          BY <4>2, <5>1, <5>2
        <5>4. sent'[r][x.sent] = sent[r][x.sent]
          BY <5>3, SentKept DEF Extends
        <5>5. x.sent <= Len(sent'[r])
          BY <4>2, <5>1, <5>2
        <5>6. QED BY <2>4, <5>4, <5>5
      <4>4. x.step = "comm" => log'[p][x.log + 1][Faulty].data = Truth(TRUE)
        BY <2>2, <2>3, <2>4 DEF Takes
      <4>5. QED BY <4>1, <4>3, <4>4 DEF Got
    <3>4. QED BY <3>2, <3>3
  <2>6. ASSUME NEW j \in 1 .. x.log + 1
        PROVE  OfAll(log'[p][j]) /\ log'[p][j][Faulty].by = Faulty
    <3>1. CASE j \in 1 .. x.log
      BY <2>1, <2>3, <2>4, <3>1 DEF Heard
    <3>2. CASE j \notin 1 .. x.log
      <4>1. j = x.log + 1
        BY <2>3, <3>2
      <4>2. QED BY <2>2, <2>4, <4>1 DEF Takes
    <3>3. QED BY <3>1, <3>2
  <2>7. QED BY <1>1, <2>1, <2>4, <2>5, <2>6 DEF Heard
<1>4. QED BY <1>2, <1>3

\* The new entry of p is the one others have already.
LEMMA EntryAgrees ==
    ASSUME OnCourse, NEW p \in Honest, NEW m, NEW sc, NEW x, NEW z, Moves(p, m, sc, x, z),
           Honestly(p), Goes(p), NEW q \in Honest \ {p}, Heard(q), Agree(p, q)
    PROVE  Agree(p, q)'
<1>1. /\ Len(log[p]) = x.log /\ x.log \in Nat /\ Len(sent[p]) = x.sent /\ ASeq(log[p])
      /\ x \in Course(m, sc) /\ m = mode /\ sc = script /\ st[p].step = x.step
  BY DEF Moves
<1>2. log'[q] = log[q] /\ Len(log[q]) \in Nat
  BY SentKept DEF Goes
<1>3. CASE log'[p] = log[p]
  BY <1>2, <1>3 DEF Agree
<1>4. CASE log'[p] # log[p]
  <2>1. Logs(st[p]) /\ Logs(x)
    BY <1>1, <1>4 DEF Honestly, Logs
  <2>2. PICK e : Takes(p, e)
    BY <2>1 DEF Honestly
  <2>3. /\ Len(log'[p]) = x.log + 1 /\ \A j \in 1 .. x.log : log'[p][j] = log[p][j]
        /\ OfAll(log'[p][x.log + 1])
        /\ log'[p][x.log + 1][Faulty] = e
        /\ \A r \in Honest : log'[p][x.log + 1][r] = sent[r][x.sent].body
    <3>1. PICK l, k : l = Len(log[p]) /\ k = Len(sent[p])
      OBVIOUS
    <3>2. /\ Len(log'[p]) = l + 1 /\ \A j \in 1 .. l : log'[p][j] = log[p][j]
          /\ OfAll(log'[p][l + 1])
          /\ log'[p][l + 1][Faulty] = e
          /\ \A r \in Honest : log'[p][l + 1][r] = sent[r][k].body
      BY <1>1, <2>2, <3>1, TakenIs
    <3>3. l = x.log /\ k = x.sent
      BY <1>1, <2>2, <3>1
    <3>4. QED BY <3>2, <3>3
  <2>4. ASSUME x.log + 1 <= Len(log[q]) PROVE log'[p][x.log + 1] = log[q][x.log + 1]
    <3>1. x.log + 1 \in 1 .. Len(log[q]) /\ x.log < Len(log[q])
      BY <1>1, <1>2, <2>4
    <3>2. OfAll(log[q][x.log + 1])
      BY <3>1 DEF Heard
    <3>3. log[q][x.log + 1][Faulty] = e
      BY <1>1, <2>2, <3>1 DEF Takes
    <3>4. \A r \in Honest : log[q][x.log + 1][r] = sent[r][x.sent].body
      BY <1>1, <2>1, <3>1 DEF Heard, Got
    <3>5. \A r \in Party : log'[p][x.log + 1][r] = log[q][x.log + 1][r]
      BY <2>3, <3>3, <3>4 DEF Honest
    <3>6. PICK f, g : f = log'[p][x.log + 1] /\ g = log[q][x.log + 1]
      OBVIOUS
    <3>7. OfAll(f) /\ OfAll(g) /\ \A r \in Party : f[r] = g[r]
      BY <2>3, <3>2, <3>5, <3>6
    <3>8. f = g
      BY <3>7 DEF OfAll
    <3>9. QED BY <3>6, <3>8
  <2>5. ASSUME NEW j \in 1 .. x.log + 1, j <= Len(log[q]) PROVE log'[p][j] = log[q][j]
    <3>1. CASE j \in 1 .. x.log
      BY <1>1, <2>3, <2>5, <3>1 DEF Agree
    <3>2. CASE j \notin 1 .. x.log
      <4>1. j = x.log + 1
        BY <1>1, <3>2
      <4>2. QED BY <2>4, <2>5, <4>1
    <3>3. QED BY <3>1, <3>2
  <2>6. QED BY <1>2, <2>3, <2>5 DEF Agree
<1>5. QED BY <1>3, <1>4

\* Logs agree as far as they go.
LEMMA AgreeNext ==
    ASSUME OnCourse, OnCourse', NEW p \in Honest, NEW m, NEW sc, NEW x, NEW z,
           Moves(p, m, sc, x, z), Honestly(p), Goes(p), \A q \in Honest : Heard(q),
           \A q, r \in Honest : Agree(q, r), NEW q \in Honest, NEW r \in Honest
    PROVE  Agree(q, r)'
<1>1. CASE q = p /\ r # p
  BY <1>1, EntryAgrees
<1>2. CASE q # p /\ r = p
  <2>1. Agree(p, q)'
    BY <1>2, EntryAgrees
  <2>2. Len(log'[p]) \in Nat /\ Len(log'[q]) \in Nat
    <3>1. Len(log'[q]) \in Nat
      BY <1>2, SentKept DEF Goes
    <3>2. QED BY <3>1 DEF Moves
  <2>3. \A j \in 1 .. Len(log'[q]) : j <= Len(log'[p]) => log'[q][j] = log'[p][j]
    <3>1. \A j \in 1 .. Len(log'[p]) : j <= Len(log'[q]) => log'[p][j] = log'[q][j]
      BY <2>1 DEF Agree
    <3>2. QED BY <2>2, <3>1
  <2>4. QED BY <1>2, <2>3 DEF Agree
<1>3. CASE q # p /\ r # p
  <2>1. log'[q] = log[q] /\ log'[r] = log[r]
    BY <1>3 DEF Goes
  <2>2. QED BY <2>1 DEF Agree
<1>4. CASE q = r
  BY <1>4 DEF Agree
<1>5. QED BY <1>1, <1>2, <1>3, <1>4

\* A party that has not moved is as ready as before.
LEMMA ReadyKept ==
    ASSUME OnCourse, NEW p \in Honest, Goes(p), NEW q \in Honest \ {p}, Ready(q)
    PROVE  Ready(q)'
<1>1. /\ st'[q] = st[q] /\ log'[q] = log[q] /\ sent'[q] = sent[q] /\ mode' = mode
  BY DEF Goes
<1>2. ASSUME NEW k, k = Len(sent[q]), k > 1, NEW r \in Honest, Len(sent[r]) >= k - 1
      PROVE  Len(sent'[r]) >= k - 1 /\ sent'[r][k - 1] = sent[r][k - 1]
  <2>1. k \in Nat /\ Len(sent[r]) \in Nat /\ Len(sent'[r]) >= Len(sent[r])
    BY <1>2, SentKept
  <2>2. k - 1 \in 1 .. Len(sent[r])
    BY <1>2, <2>1
  <2>3. sent'[r][k - 1] = sent[r][k - 1]
    BY <2>2, SentKept DEF Extends
  <2>4. Len(sent'[r]) >= k - 1
    BY <1>2, <2>1
  <2>5. QED BY <2>3, <2>4
<1>3. QED BY <1>1, <1>2 DEF Ready

\* The one that moves is ready for its next step.
LEMMA ReadyNext ==
    ASSUME OnCourse, NEW p \in Honest, NEW m, NEW sc, NEW x, NEW z, Moves(p, m, sc, x, z),
           Honestly(p), Goes(p)
    PROVE  Ready(p)'
<1>1. /\ m = mode /\ sc = script /\ mode' = mode /\ st'[p].step = z.step /\ st[p].step = x.step
      /\ Len(sent[p]) = x.sent /\ Len(log[p]) = x.log /\ x.log \in Nat /\ x.sent \in Nat
      /\ ASeq(log[p]) /\ Len(log'[p]) = z.log /\ Len(sent'[p]) = z.sent
      /\ sc \in Scripts /\ x \in Course(m, sc)
  BY DEF Moves
<1>2. z.step = "pj" => st'[p].seed = SeedAt(mode, st'[p].cnt, z.log, log'[p])
  BY <1>1 DEF Honestly
<1>3. ASSUME z.step \in {"seedopen", "open"}
      PROVE  /\ z.sent > 1
             /\ \A q \in Honest : /\ Len(sent'[q]) >= z.sent - 1
                                  /\ log'[p][z.log][q] = sent'[q][z.sent - 1].body
             /\ z.step = "open" => log'[p][z.log][Faulty].data = Truth(TRUE)
  <2>1. /\ x.step = IF z.step = "open" THEN "comm" ELSE "seedcomm"
        /\ z.sent = x.sent + 1
    BY <1>1, <1>3 DEF Honestly, Repeats
  <2>2. Logs(st[p]) /\ Waiting(x)
    BY <1>1, <2>1 DEF Logs, Waiting
  <2>3. x.sent > 0
    BY <1>1, <2>2, WaitingSent
  <2>4. There(p)
    BY <2>2 DEF Honestly
  <2>5. PICK e : Takes(p, e)
    BY <2>2 DEF Honestly
  <2>6. PICK l, k : l = Len(log[p]) /\ k = Len(sent[p])
    OBVIOUS
  <2>7. /\ Len(log'[p]) = l + 1 /\ log'[p][l + 1][Faulty] = e
        /\ \A q \in Honest : log'[p][l + 1][q] = sent[q][k].body
    BY <1>1, <2>5, <2>6, TakenIs
  <2>8. z.log = l + 1 /\ k = x.sent /\ z.sent - 1 = k
    BY <1>1, <2>1, <2>6, <2>7
  <2>9. ASSUME NEW q \in Honest
        PROVE  Len(sent'[q]) >= k /\ sent'[q][k] = sent[q][k]
    <3>1. Len(sent[q]) >= k
      BY <2>4, <2>6 DEF There, Round
    <3>2. Len(sent[q]) \in Nat /\ Len(sent'[q]) >= Len(sent[q]) /\ Extends(sent[q], sent'[q])
      BY SentKept
    <3>3. k \in 1 .. Len(sent[q])
      BY <1>1, <2>3, <2>8, <3>1, <3>2
    <3>4. sent'[q][k] = sent[q][k]
      BY <3>2, <3>3 DEF Extends
    <3>5. Len(sent'[q]) >= k
      BY <1>1, <2>8, <3>1, <3>2
    <3>6. QED BY <3>4, <3>5
  <2>10. z.step = "open" => e.data = Truth(TRUE)
    BY <1>1, <2>1, <2>5 DEF Takes
  <2>11. z.sent > 1
    BY <1>1, <2>1, <2>3
  <2>12. QED BY <2>7, <2>8, <2>9, <2>10, <2>11
<1>4. QED BY <1>1, <1>2, <1>3 DEF Ready

\* What an opening was to open is open when it is over.
LEMMA EnoughNext ==
    ASSUME NEW p, NEW m, NEW sc, NEW x, NEW z, Moves(p, m, sc, x, z), Honestly(p), Enough(p)
    PROVE  Enough(p)'
<1>1. /\ sc \in Scripts /\ script = sc /\ script' = sc /\ x \in Position(sc) /\ z = Advance(m, sc, x)
      /\ x.step = "call" => x.op < Len(sc)
      /\ st[p].step = x.step /\ st'[p].step = z.step /\ st[p].op = x.op /\ st'[p].op = z.op
      /\ Len(opened[p]) \in Nat /\ Len(opened'[p]) \in Nat /\ x.step # "done"
  BY DEF Moves
<1>2. SUFFICES ASSUME z.op > 0, sc[z.op].do = "open", z.step # "shares"
               PROVE  sc[z.op].n <= Len(opened'[p])
  BY <1>1 DEF Enough
<1>3. CASE x.step = "call"
  BY <1>1, <1>2, <1>3, CallIs
<1>4. CASE x.step = "shares"
  <2>1. z.op = x.op
    BY <1>1, <1>4, SharesIs
  <2>2. QED BY <1>1, <1>4, <2>1 DEF Honestly
<1>5. CASE x.step \in {"seedcomm", "seedopen", "pj", "comm", "open", "hash"}
  <2>1. z.op = x.op
    BY <1>1, <1>5, RoundIs
  <2>2. sc[z.op].n <= Len(opened[p])
    BY <1>1, <1>2, <1>5, <2>1 DEF Enough
  <2>3. x.op \in 1 .. Len(sc)
    <3>1. x.op \in 0 .. Len(sc) /\ Len(sc) \in Nat
      BY <1>1, ScriptFacts DEF Position
    <3>2. QED BY <1>2, <2>1, <3>1
  <2>4. sc[z.op].n \in Nat
    BY <1>1, <2>1, <2>3, ScriptFacts
  <2>5. QED BY <1>1, <2>2, <2>4 DEF Honestly
<1>6. x.step \in Steps
  BY <1>1 DEF Position
<1>7. QED BY <1>1, <1>3, <1>4, <1>5, <1>6 DEF Steps

\* If the step is right, all parties go on as they should.
LEMMA TruthNext ==
    ASSUME OnCourse, OnCourse', Truthful, NEW p \in Honest, Step(p), Goes(p), Honestly(p)
    PROVE  Truthful'
<1>1. PICK m, sc, x, z : Moves(p, m, sc, x, z)
  BY WhereFrom DEF Truthful, Honestly
<1>2. mode' = mode /\ script' = script
  BY DEF Goes
<1>3. ASSUME NEW q \in Honest PROVE Heard(q)'
  BY <1>1, HeardNext DEF Truthful
<1>4. ASSUME NEW q \in Honest, NEW r \in Honest PROVE Agree(q, r)'
  BY <1>1, AgreeNext DEF Truthful
<1>5. Sound(p)' /\ Told(p)' /\ Ready(p)' /\ Enough(p)'
  <2>1. Sound(p)'
    BY DEF Honestly, Sound
  <2>2. Told(p)'
    <3>1. Extends(sent[p], sent'[p]) /\ Extends(log[p], log'[p]) /\ Told(p)
      BY SentKept DEF Truthful
    <3>2. QED BY <1>1, <3>1, ToldNext
  <2>3. Ready(p)'
    BY <1>1, ReadyNext
  <2>4. Enough(p)'
    BY <1>1, EnoughNext DEF Truthful
  <2>5. QED BY <2>1, <2>2, <2>3, <2>4
<1>6. ASSUME NEW q \in Honest \ {p} PROVE Sound(q)' /\ Told(q)' /\ Ready(q)' /\ Enough(q)'
  <2>1. /\ st'[q] = st[q] /\ sent'[q] = sent[q] /\ log'[q] = log[q] /\ opened'[q] = opened[q]
    BY DEF Goes
  <2>2. Sound(q)' /\ Told(q)' /\ Enough(q)'
    BY <1>2, <2>1 DEF Truthful, Sound, Told, Enough
  <2>3. Ready(q)'
    BY ReadyKept DEF Truthful
  <2>4. QED BY <2>2, <2>3
<1>7. QED BY <1>3, <1>4, <1>5, <1>6 DEF Truthful

\* What Go does to the party.
LEMMA GoIs ==
    ASSUME OnCourse, NEW p \in Honest, NEW t, NEW out, Go(p, t, out)
    PROVE  st'[p] = t /\ sent'[p] = sent[p] \o out
  BY DEF OnCourse, Typed, Go

\* A step without a broadcast that is logged is right if the values opened are,
\* and a check of few values is begun without a seed.
LEMMA QuietRight ==
    ASSUME OnCourse, OnCourse', Truthful, NEW p \in Honest, Step(p), Goes(p),
           st[p].step \in {"call", "shares", "hash"}, st'[p].step \notin Exceptions,
           log'[p] = log[p], AllRight(opened'[p]), Len(opened'[p]) >= Len(opened[p]),
           st[p].step = "shares" => script[st[p].op].n <= Len(opened'[p]),
           st'[p].step = "comm" => st'[p].seed = <<>> /\ st'[p].pj = 0
    PROVE  Honestly(p)
<1>1. Sound(p)
  BY DEF Truthful
<1>2. PICK m, sc, x, z : Moves(p, m, sc, x, z)
  BY <1>1, WhereFrom
<1>3. /\ m \in Modes /\ sc \in Scripts /\ mode = m /\ x \in Position(sc)
      /\ z = Advance(m, sc, x) /\ x.step = st[p].step /\ z.step = st'[p].step
      /\ x.step = "call" => x.op < Len(sc)
  BY <1>2 DEF Moves
<1>4. st'[p].cnt = z.cnt
  <2>1. PICK t, c, d, w : st'[p] = t /\ sent'[p] = c /\ log'[p] = d /\ opened'[p] = w
    OBVIOUS
  <2>2. Local(m, sc, p, z, t, c, d, w)
    BY <1>2, <2>1 DEF Moves
  <2>3. QED BY <1>3, <2>1, <2>2, RunsAt
<1>5. /\ z.step \notin {"pj", "seedopen", "open"}
      /\ z.step = "comm" => ~ Seeded(m, z.cnt)
  <2>1. CASE x.step = "call"
    BY <1>3, <2>1, CallIs
  <2>2. CASE x.step = "shares"
    BY <1>3, <2>2, SharesIs
  <2>3. CASE x.step = "hash"
    BY <1>3, <2>3, RoundIs
  <2>4. QED BY <1>3, <2>1, <2>2, <2>3
<1>6. z.step = "comm" => st'[p].seed = SeedAt(mode, st'[p].cnt, Len(log'[p]), log'[p])
  BY <1>3, <1>4, <1>5 DEF SeedAt
<1>7. ~ Logs(st[p])
  BY DEF Logs
<1>8. QED BY <1>3, <1>5, <1>6, <1>7 DEF Honestly

\* So a check is begun.
LEMMA BeginsRight ==
    ASSUME NEW m, NEW p, NEW s, NEW k, NEW r, NEW limit, Begins(m, p, s, k, r, limit)
    PROVE  /\ r.s.step \notin Exceptions
           /\ r.s.step = "comm" => r.s.seed = <<>> /\ r.s.pj = 0
<1>1. r.s.step \in {"call", "seedcomm", "comm"}
  BY DEF Begins
<1>2. QED BY <1>1 DEF Begins, Exceptions

\* What waits between two calls.
LEMMA CallWaits ==
    ASSUME OnCourse, Truthful, NEW p \in Honest, st[p].step = "call", NEW u, u = Begun(p)
    PROVE  Waits(u) /\ u.step = "call"
<1>1. PICK m, sc, s, a, b, o : /\ mode = m /\ script = sc /\ st[p] = s /\ sent[p] = a
                               /\ log[p] = b /\ opened[p] = o
  OBVIOUS
<1>2. PICK x : Local(m, sc, p, x, s, a, b, o)
  BY <1>1 DEF OnCourse, Placed
<1>3. m \in Modes /\ sc \in Scripts /\ s.step \notin Exceptions
  BY <1>1 DEF OnCourse, Typed, Truthful, Sound
<1>4. /\ Exact(m, sc, x, s, b) /\ Sizes(m, sc, s, b) /\ IsState(s) /\ s.cnt = x.cnt /\ s.step = x.step
  BY <1>2, <1>3, RunsAt
<1>5. Len(s.macs) = s.cnt /\ Len(s.vals) = s.cnt /\ s.cnt \in Nat
  BY <1>1, <1>4 DEF Exact, Sizes
<1>6. u = [s EXCEPT !.op = @ + 1]
  BY <1>1 DEF Begun
<1>7. QED BY <1>1, <1>4, <1>5, <1>6, BegunIs DEF Waits

\* The values opened stay right if none are added.
LEMMA StillRight ==
    ASSUME OnCourse, Truthful, NEW p \in Honest, opened' = opened
    PROVE  /\ AllRight(opened'[p]) /\ Len(opened'[p]) >= Len(opened[p])
           /\ ASeq(opened[p]) /\ Len(opened[p]) \in Nat
<1>1. PICK x : Placed(p, x)
  BY DEF OnCourse
<1>2. ASeq(opened[p]) /\ Len(opened[p]) \in Nat
  BY <1>1, SeqFacts DEF Placed, Local, Plain
<1>3. QED BY <1>2 DEF Truthful, Sound

\* BeginOpen.
LEMMA BeginOpenRight ==
    ASSUME OnCourse, OnCourse', Truthful, NEW p \in Honest, BeginOpen(p), Goes(p)
    PROVE  Honestly(p)
<1>1. PICK u, n : u = Begun(p) /\ n = Coming(p).n
  OBVIOUS
<1>2. PICK t : t = PrepareOpen(u, n)
  OBVIOUS
<1>3. Go(p, t, Message("share", st[p].next)) /\ log' = log /\ opened' = opened /\ st[p].step = "call"
  BY <1>1, <1>2 DEF BeginOpen, Doing
<1>4. IsState(u)
  BY <1>1, <1>3, CallWaits DEF Waits
<1>5. t.step = "shares"
  <2>1. PICK e, f, g : /\ e = u.macs \o [i \in 1 .. n |-> u.next + i - 1] /\ f = u.next + n
                       /\ g = IF mode = "z2k" THEN u.shares \o [i \in 1 .. n |-> u.next + i - 1]
                              ELSE u.shares
    OBVIOUS
  <2>2. t = [u EXCEPT !.macs = e, !.next = f, !.step = "shares", !.shares = g]
    BY <1>2, <2>1 DEF PrepareOpen
  <2>3. QED BY <1>4, <2>2 DEF IsState
<1>6. st'[p].step = "shares" /\ log'[p] = log[p]
  BY <1>3, <1>5, GoIs
<1>7. st'[p].step \notin Exceptions
  BY <1>6 DEF Exceptions
<1>8. Step(p)
  BY DEF Step
<1>9. QED BY <1>3, <1>6, <1>7, <1>8, StillRight, QuietRight

\* Exchange.
LEMMA ExchangeRight ==
    ASSUME OnCourse, OnCourse', Truthful, NEW p \in Honest, Exchange(p), Goes(p), deviated' = 0
    PROVE  Honestly(p)
<1>1. PICK m, sc, s, a, b, o : /\ mode = m /\ script = sc /\ st[p] = s /\ sent[p] = a
                               /\ log[p] = b /\ opened[p] = o
  OBVIOUS
<1>2. PICK x, n, new, u, r : Exchanges(p, x, n, new, u, r)
  BY ExchangeIs
<1>3. /\ Local(m, sc, p, x, s, a, b, o) /\ s.step = "shares" /\ sc[s.op].n = n
      /\ ASeq(new) /\ Len(new) = n /\ n \in Nat
      /\ \A i \in 1 .. n : new[i] = [id |-> s.next - n + i - 1, err |-> new[i].err]
      /\ IsState(u) /\ u.macs = s.macs /\ Joins(s.vals, new, u.vals)
      /\ u.cnt = s.cnt + n /\ Len(s.macs) = s.cnt + n /\ s.cnt \in Nat
      /\ r = CheckIfNeeded(p, u, NextRound(a)) /\ Go(p, r.s, r.out)
      /\ opened' = [opened EXCEPT ![p] = @ \o new] /\ log' = log
  BY <1>1, <1>2 DEF Exchanges
<1>4. Waits(u)
  <2>1. Len(s.vals) = s.cnt
    BY <1>3 DEF Local, Sizes
  <2>2. QED BY <1>3, <2>1 DEF Waits, Joins
<1>5. Begins(m, p, u, NextRound(a), r, PopenMax)
  BY <1>1, <1>3, <1>4, CheckIfNeededIs
<1>6. /\ r.s.step \notin Exceptions
      /\ r.s.step = "comm" => r.s.seed = <<>> /\ r.s.pj = 0
  BY <1>5, BeginsRight
<1>7. PICK k \in Nat : Deviate(k) /\ (k = 0 => \A i \in 1 .. n : new[i].err = 0)
  BY <1>2 DEF Exchanges
<1>8. \A i \in 1 .. n : new[i] = [id |-> new[i].id, err |-> 0]
  <2>1. \A i \in 1 .. n : new[i].err = 0
    BY <1>7, DeviateIs
  <2>2. QED BY <1>3, <2>1
<1>9. PICK w : w = o \o new
  OBVIOUS
<1>10. opened'[p] = w
  BY <1>1, <1>3, <1>9 DEF OnCourse, Typed
<1>11. Joins(o, new, w) /\ Len(o) \in Nat
  BY <1>3, <1>9, Joined, SeqFacts DEF Local, Plain
<1>12. AllRight(o)
  BY <1>1 DEF Truthful, Sound
<1>13. AllRight(w)
  <2>1. ASSUME NEW i \in 1 .. Len(w) PROVE w[i] = [id |-> w[i].id, err |-> 0]
    <3>1. CASE i <= Len(o)
      <4>1. i \in 1 .. Len(o) /\ w[i] = o[i]
        BY <1>3, <1>11, <3>1 DEF Joins
      <4>2. o[i] = [id |-> o[i].id, err |-> 0]
        BY <1>12, <4>1 DEF AllRight
      <4>3. QED BY <4>1, <4>2
    <3>2. CASE ~ i <= Len(o)
      <4>1. PICK j \in 1 .. n : i = Len(o) + j
        <5>1. i - Len(o) \in 1 .. n /\ i = Len(o) + (i - Len(o))
          BY <1>3, <1>11, <3>2 DEF Joins
        <5>2. QED BY <5>1
      <4>2. w[i] = new[j]
        BY <1>3, <1>11, <4>1 DEF Joins
      <4>3. QED BY <1>8, <4>1, <4>2
    <3>3. QED BY <3>1, <3>2
  <2>2. QED BY <2>1 DEF AllRight
<1>14. Len(w) >= Len(o) /\ n <= Len(w)
  BY <1>3, <1>11 DEF Joins
<1>15. st'[p] = r.s /\ log'[p] = log[p]
  BY <1>3, GoIs
<1>16. Step(p)
  BY DEF Step
<1>17. QED BY <1>1, <1>3, <1>6, <1>10, <1>13, <1>14, <1>15, <1>16, QuietRight

\* AddToCheck.
LEMMA AddToCheckRight ==
    ASSUME OnCourse, OnCourse', Truthful, NEW p \in Honest, AddToCheck(p), Goes(p), deviated' = 0
    PROVE  Honestly(p)
<1>1. PICK m, sc, s, a, b, o : /\ mode = m /\ script = sc /\ st[p] = s /\ sent[p] = a
                               /\ log[p] = b /\ opened[p] = o
  OBVIOUS
<1>2. PICK x, v, u, r : Adds(p, x, v, u, r)
  BY AddToCheckIs
<1>3. /\ Local(m, sc, p, x, s, a, b, o) /\ s.step = "call" /\ v = [id |-> s.next, err |-> v.err]
      /\ IsState(u) /\ Appends(s.macs, s.next, u.macs) /\ Appends(s.vals, v, u.vals)
      /\ u.cnt = s.cnt + 1
      /\ r = CheckIfNeeded(p, u, NextRound(a)) /\ Go(p, r.s, r.out)
      /\ opened' = [opened EXCEPT ![p] = Append(@, v)] /\ log' = log
      /\ v.err \in {0, 1} /\ Deviate(v.err)
  BY <1>1, <1>2 DEF Adds
<1>4. m \in Modes /\ sc \in Scripts /\ s.step \notin Exceptions /\ AllRight(o)
  BY <1>1 DEF OnCourse, Typed, Truthful, Sound
<1>5. Waits(u)
  <2>1. Exact(m, sc, x, s, b) /\ s.cnt = x.cnt /\ x.step = "call"
    BY <1>3, <1>4, RunsAt
  <2>2. Len(s.macs) = s.cnt /\ Len(s.vals) = s.cnt /\ s.cnt \in Nat
    BY <1>3, <2>1 DEF Exact, Local, Sizes
  <2>3. QED BY <1>3, <2>2 DEF Waits, Appends
<1>6. Begins(m, p, u, NextRound(a), r, PopenMax)
  BY <1>1, <1>3, <1>5, CheckIfNeededIs
<1>7. /\ r.s.step \notin Exceptions
      /\ r.s.step = "comm" => r.s.seed = <<>> /\ r.s.pj = 0
  BY <1>6, BeginsRight
<1>8. v = [id |-> v.id, err |-> 0]
  <2>1. v.err \in Nat
    BY <1>3
  <2>2. v.err = 0
    BY <1>3, <2>1, DeviateIs
  <2>3. QED BY <1>3, <2>2
<1>9. PICK w : w = Append(o, v)
  OBVIOUS
<1>10. opened'[p] = w
  BY <1>1, <1>3, <1>9 DEF OnCourse, Typed
<1>11. Appends(o, v, w)
  BY <1>3, <1>9, Appended DEF Local, Plain
<1>12. AllRight(w) /\ Len(w) >= Len(o)
  <2>1. ASSUME NEW i \in 1 .. Len(w) PROVE w[i] = [id |-> w[i].id, err |-> 0]
    <3>1. CASE i \in 1 .. Len(o)
      <4>1. o[i] = [id |-> o[i].id, err |-> 0] /\ w[i] = o[i]
        BY <1>4, <1>11, <3>1 DEF AllRight, Appends
      <4>2. QED BY <4>1
    <3>2. CASE i \notin 1 .. Len(o)
      <4>1. w[i] = v
        BY <1>11, <3>2 DEF Appends
      <4>2. QED BY <1>8, <4>1
    <3>3. QED BY <3>1, <3>2
  <2>2. Len(w) >= Len(o)
    BY <1>11 DEF Appends
  <2>3. QED BY <2>1, <2>2 DEF AllRight
<1>13. st'[p] = r.s /\ log'[p] = log[p]
  BY <1>3, GoIs
<1>14. Step(p)
  BY DEF Step
<1>15. QED BY <1>1, <1>3, <1>7, <1>10, <1>12, <1>13, <1>14, QuietRight

\* Check.
LEMMA CheckRight ==
    ASSUME OnCourse, OnCourse', Truthful, NEW p \in Honest, Check(p), Goes(p)
    PROVE  Honestly(p)
<1>1. PICK m, u, k : mode = m /\ u = Begun(p) /\ k = Round(p) + 1
  OBVIOUS
<1>2. PICK r : r = BeginCheck(p, u, k)
  OBVIOUS
<1>3. Go(p, r.s, r.out) /\ log' = log /\ opened' = opened /\ st[p].step = "call"
  BY <1>1, <1>2 DEF Check, Doing
<1>4. Waits(u)
  BY <1>1, <1>3, CallWaits
<1>5. Begins(m, p, u, k, r, 1)
  BY <1>1, <1>2, <1>4, BeginCheckIs
<1>6. /\ r.s.step \notin Exceptions
      /\ r.s.step = "comm" => r.s.seed = <<>> /\ r.s.pj = 0
  BY <1>5, BeginsRight
<1>7. st'[p] = r.s /\ log'[p] = log[p]
  BY <1>3, GoIs
<1>8. Step(p)
  BY DEF Step
<1>9. QED BY <1>3, <1>6, <1>7, <1>8, StillRight, QuietRight

\* CheckFor: all values it compares have been opened, and are right.
LEMMA CheckForRight ==
    ASSUME OnCourse, OnCourse', Truthful, NEW p \in Honest, CheckFor(p), Goes(p)
    PROVE  Honestly(p)
<1>1. PICK m, sc, u, k, o : /\ mode = m /\ script = sc /\ u = Begun(p) /\ k = Round(p) + 1
                            /\ opened[p] = o
  OBVIOUS
<1>2. PICK n, last : n = Here(p).n /\ last = SubSeq(o, Len(o) - n + 1, Len(o))
  OBVIOUS
<1>3. PICK r : r = BeginCheck(p, u, k)
  OBVIOUS
<1>4. /\ st[p].step = "call" /\ st[p].op < Len(sc) /\ sc[st[p].op + 1].do = "for"
      /\ log' = log /\ opened' = opened
  BY <1>1 DEF CheckFor, Doing, Coming
<1>5. \/ \E i \in DOMAIN last : last[i].err # 0
      \/ Go(p, r.s, r.out)
  BY <1>1, <1>2, <1>3 DEF CheckFor
<1>6. AllRight(o) /\ ASeq(o) /\ Len(o) \in Nat
  BY <1>1, <1>4, StillRight DEF Truthful, Sound
<1>7. n \in Nat /\ n <= Len(o)
  <2>1. sc \in Scripts /\ st[p].op \in 0 .. Len(sc)
    BY <1>1 DEF OnCourse, Typed, Placed, Local, Sizes
  <2>2. st[p].op \in 1 .. Len(sc) /\ sc[st[p].op].do = "open" /\ sc[st[p].op].n \in Nat
    <3>1. st[p].op + 1 \in 1 .. Len(sc) /\ Len(sc) \in Nat
      BY <1>4, <2>1, ScriptFacts
    <3>2. st[p].op + 1 > 1 /\ sc[st[p].op + 1 - 1].do = "open"
      BY <1>4, <2>1, <3>1, ScriptFacts
    <3>3. st[p].op + 1 - 1 = st[p].op /\ st[p].op \in 1 .. Len(sc)
      BY <2>1, <3>1, <3>2
    <3>4. QED BY <2>1, <3>2, <3>3, ScriptFacts
  <2>3. Enough(p) /\ n = sc[st[p].op].n
    BY <1>1, <1>2 DEF Truthful, Here
  <2>4. st[p].op > 0 /\ st[p].step # "shares"
    BY <1>4, <2>2
  <2>5. QED BY <1>1, <2>2, <2>3, <2>4 DEF Enough
<1>8. ASSUME NEW i \in DOMAIN last PROVE last[i].err = 0
  <2>1. PICK l : l = Len(o) - n
    OBVIOUS
  <2>2. l \in Nat /\ l <= Len(o) /\ Len(o) - l = n
    BY <1>6, <1>7, <2>1
  <2>3. /\ ASeq(last) /\ Len(last) = n
        /\ \A h \in 1 .. n : last[h] = o[l + h]
    <3>1. last = SubSeq(o, l + 1, Len(o))
      BY <1>2, <2>1
    <3>2. QED BY <1>6, <2>2, <3>1, SuffixFacts
  <2>4. i \in 1 .. n
    BY <2>3, SeqFacts
  <2>5. last[i] = o[l + i] /\ l + i \in 1 .. Len(o)
    BY <1>6, <2>2, <2>3, <2>4
  <2>6. o[l + i] = [id |-> o[l + i].id, err |-> 0]
    BY <1>6, <2>5 DEF AllRight
  <2>7. QED BY <2>5, <2>6
<1>9. Go(p, r.s, r.out)
  BY <1>5, <1>8
<1>10. Waits(u)
  BY <1>1, <1>4, CallWaits
<1>11. Begins(m, p, u, k, r, 1)
  BY <1>1, <1>3, <1>10, BeginCheckIs
<1>12. /\ r.s.step \notin Exceptions
       /\ r.s.step = "comm" => r.s.seed = <<>> /\ r.s.pj = 0
  BY <1>11, BeginsRight
<1>13. st'[p] = r.s /\ log'[p] = log[p]
  BY <1>4, <1>9, GoIs
<1>14. Step(p)
  BY DEF Step
<1>15. QED BY <1>4, <1>12, <1>13, <1>14, StillRight, QuietRight

\* CreateRandom.
LEMMA CreateRandomRight ==
    ASSUME OnCourse, OnCourse', Truthful, NEW p \in Honest, CreateRandom(p), Goes(p)
    PROVE  Honestly(p)
<1>1. PICK u, k : u = Begun(p) /\ k = Round(p) + 1
  OBVIOUS
<1>2. PICK r : r = SeedComm(p, u, k)
  OBVIOUS
<1>3. Go(p, r.s, r.out) /\ log' = log /\ opened' = opened /\ st[p].step = "call"
  BY <1>1, <1>2 DEF CreateRandom, Doing
<1>4. IsState(u)
  BY <1>1, <1>3, CallWaits DEF Waits
<1>5. r.s.step = "seedcomm"
  BY <1>2, <1>4, SeedCommIs
<1>6. st'[p].step = "seedcomm" /\ log'[p] = log[p]
  BY <1>3, <1>5, GoIs
<1>7. st'[p].step \notin Exceptions
  BY <1>6 DEF Exceptions
<1>8. Step(p)
  BY DEF Step
<1>9. QED BY <1>3, <1>6, <1>7, <1>8, StillRight, QuietRight

\* CheckBroadcast: the check before it has left nothing.
LEMMA CheckBroadcastRight ==
    ASSUME OnCourse, OnCourse', Truthful, NEW p \in Honest, CheckBroadcast(p), Goes(p)
    PROVE  Honestly(p)
<1>1. PICK m, sc, s, a, b, o : /\ mode = m /\ script = sc /\ st[p] = s /\ sent[p] = a
                               /\ log[p] = b /\ opened[p] = o
  OBVIOUS
<1>2. PICK x : Local(m, sc, p, x, s, a, b, o)
  BY <1>1 DEF OnCourse, Placed
<1>3. m \in Modes /\ sc \in Scripts /\ s.step \notin Exceptions
  BY <1>1 DEF OnCourse, Typed, Truthful, Sound
<1>4. /\ s.step = "call" /\ s.op < Len(sc) /\ sc[s.op + 1].do = "finish"
      /\ log' = log /\ opened' = opened
  BY <1>1 DEF CheckBroadcast, Doing, Coming
<1>5. PICK u : u = Begun(p)
  OBVIOUS
<1>6. Waits(u)
  BY <1>1, <1>4, <1>5, CallWaits
<1>7. u.cnt = 0
  <2>1. /\ s.cnt = x.cnt /\ x.step = "call" /\ x.op = s.op /\ x \in Position(sc) /\ Regular(m, sc, x)
    BY <1>2, <1>3, <1>4, RunsAt DEF Exact
  <2>2. x.op > 0 /\ sc[x.op].do = "check"
    <3>1. x.op \in 0 .. Len(sc) /\ Len(sc) \in Nat /\ Len(sc) > 1
      BY <1>3, <2>1, ScriptFacts DEF Position
    <3>2. x.op + 1 = Len(sc)
      BY <1>3, <1>4, <2>1, <3>1, ScriptFacts
    <3>3. x.op = Len(sc) - 1 /\ x.op > 0
      BY <3>1, <3>2
    <3>4. QED BY <1>3, <3>3, ScriptFacts
  <2>3. x.cnt = 0
    BY <2>1, <2>2 DEF Regular
  <2>4. u = [s EXCEPT !.op = @ + 1] /\ IsState(s)
    BY <1>1, <1>2, <1>5 DEF Begun, Local, Plain
  <2>5. QED BY <2>1, <2>3, <2>4, BegunIs
<1>8. PICK t, out : /\ Go(p, t, out)
                    /\ t = End(u) \/ t = [u EXCEPT !.step = "hash"]
  BY <1>5, Zenon DEF CheckBroadcast
<1>9. t.step \in {"done", "hash"}
  <2>1. CASE t = End(u)
    BY <1>6, <1>7, <2>1, Ends DEF Waits
  <2>2. CASE t = [u EXCEPT !.step = "hash"]
    <3>1. PICK v : v = "hash"
      OBVIOUS
    <3>2. t = [u EXCEPT !.step = v] /\ IsState(u)
      BY <1>6, <2>2, <3>1 DEF Waits
    <3>3. t.step = v
      BY <3>2, StepOnly
    <3>4. QED BY <3>1, <3>3
  <2>3. QED BY <1>8, <2>1, <2>2
<1>10. st'[p] = t /\ log'[p] = log[p]
  BY <1>4, <1>8, GoIs
<1>11. st'[p].step \notin Exceptions /\ st'[p].step # "comm"
  BY <1>9, <1>10 DEF Exceptions
<1>12. Step(p)
  BY DEF Step
<1>13. QED BY <1>1, <1>4, <1>10, <1>11, <1>12, StillRight, QuietRight

\* ReceiveHighBits.
LEMMA ReceiveHighBitsRight ==
    ASSUME OnCourse, OnCourse', Truthful, NEW p \in Honest, ReceiveHighBits(p), Goes(p),
           deviated' = 0
    PROVE  Honestly(p)
<1>1. PICK m, s, k : mode = m /\ st[p] = s /\ k = Round(p) + 1
  OBVIOUS
<1>2. PICK e \in {0, 1} :
         LET res == CheckComm(p, [st[p] EXCEPT !.pj = e], Round(p) + 1)
         IN Deviate(e) /\ Go(p, res.s, res.out)
  BY Zenon DEF ReceiveHighBits
<1>3. PICK u : u = [s EXCEPT !.pj = e]
  OBVIOUS
<1>4. PICK r : r = CheckComm(p, u, k)
  OBVIOUS
<1>5. Deviate(e) /\ Go(p, r.s, r.out)
  BY <1>1, <1>2, <1>3, <1>4
<1>6. s.step = "pj" /\ log' = log /\ opened' = opened
  BY <1>1 DEF ReceiveHighBits, Doing
<1>7. e = 0
  <2>1. e \in Nat
    BY <1>2
  <2>2. QED BY <1>5, <2>1, DeviateIs
<1>8. IsState(u) /\ u.seed = s.seed /\ u.pj = 0 /\ u.cnt = s.cnt
  <2>1. IsState(s)
    BY <1>1 DEF OnCourse, Placed, Local, Plain
  <2>2. u = [op |-> s.op, step |-> s.step, macs |-> s.macs, vals |-> s.vals,
             shares |-> s.shares, cnt |-> s.cnt, next |-> s.next, seed |-> s.seed, pj |-> e,
             comms |-> s.comms, checked |-> s.checked]
    BY <1>3, <2>1 DEF IsState
  <2>3. QED BY <1>7, <2>2 DEF IsState
<1>9. Keeps(u, r.s) /\ r.s.step = "comm" /\ r.s.seed = u.seed /\ r.s.pj = u.pj
  <2>1. IsState(u) /\ mode = m /\ r = CheckComm(p, u, k)
    BY <1>1, <1>4, <1>8
  <2>2. /\ Keeps(u, r.s) /\ r.s.step = "comm" /\ r.s.seed = u.seed /\ r.s.pj = u.pj
        /\ r.out = <<[kind |-> "comm", body |-> Commit(p, DataOf(m, r.s), k)]>>
    BY <2>1, CheckCommIs
  <2>3. QED BY <2>2
<1>10. st'[p] = r.s /\ log'[p] = log[p]
  BY <1>5, <1>6, GoIs
<1>11. mode' = mode
  BY DEF Goes
<1>12. s.seed = SeedAt(mode, s.cnt, Len(log[p]), log[p])
  BY <1>1, <1>6 DEF Truthful, Ready
<1>13. r.s.cnt = s.cnt /\ r.s.step \notin Exceptions
  BY <1>8, <1>9 DEF Keeps, Exceptions
<1>14. AllRight(opened'[p]) /\ Len(opened'[p]) >= Len(opened[p])
  BY <1>6, StillRight
<1>15. QED BY <1>1, <1>6, <1>8, <1>9, <1>10, <1>11, <1>12, <1>13, <1>14 DEF Honestly, Logs

\* From the end nowhere.
LEMMA AfterDone ==
    ASSUME NEW m, NEW sc \in Scripts, NEW z \in Position(sc), z.step = "done",
           NEW w \in From(m, sc, z)
    PROVE  w = z
<1>1. PICK S : S = {z}
  OBVIOUS
<1>2. Advance(m, sc, z) = z
  BY Closes
<1>3. S \subseteq Position(sc) /\ z \in S /\ \A y \in S : Advance(m, sc, y) \in S
  BY <1>1, <1>2
<1>4. From(m, sc, z) \subseteq S
  BY <1>3, Least
<1>5. QED BY <1>1, <1>4

\* From the comparison of broadcasts a party goes nowhere but to the end.
LEMMA AfterHash ==
    ASSUME NEW m, NEW sc \in Scripts, NEW x \in Position(sc), x.step = "hash",
           NEW w \in From(m, sc, x)
    PROVE  w.log = x.log /\ w.sent = x.sent
<1>1. PICK S : S = {v \in Position(sc) : /\ v.step \in {"hash", "done"} /\ v.log = x.log
                                         /\ v.sent = x.sent}
  OBVIOUS
<1>2. ASSUME NEW v \in S PROVE Advance(m, sc, v) \in S
  <2>1. /\ v \in Position(sc) /\ v.step \in {"hash", "done"} /\ v.log = x.log /\ v.sent = x.sent
    BY <1>1
  <2>2. PICK z : z = Advance(m, sc, v)
    OBVIOUS
  <2>3. z \in Position(sc)
    BY <2>1, <2>2, Closes
  <2>4. CASE v.step = "hash"
    BY <1>1, <2>1, <2>2, <2>3, <2>4, RoundIs
  <2>5. CASE v.step = "done"
    BY <2>1, <2>5, Closes
  <2>6. QED BY <2>1, <2>4, <2>5
<1>3. S \subseteq Position(sc) /\ x \in S
  BY <1>1
<1>4. From(m, sc, x) \subseteq S
  BY <1>2, <1>3, Least
<1>5. QED BY <1>1, <1>4

\* At the comparison of broadcasts all parties have sent the same.
LEMMA SameHashes ==
    ASSUME OnCourse, Truthful, NEW p \in Honest, st[p].step = "hash", There(p),
           NEW k, k = Round(p), NEW q \in Honest
    PROVE  sent[q][k] = [kind |-> "hash", body |-> log[p]]
<1>1. PICK m, sc : mode = m /\ script = sc
  OBVIOUS
<1>2. m \in Modes /\ sc \in Scripts
  BY <1>1 DEF OnCourse, Typed
<1>3. PICK x, w : Placed(p, x) /\ Placed(q, w)
  BY DEF OnCourse
<1>4. Sound(p) /\ Sound(q) /\ Agree(p, q)
  BY DEF Truthful
<1>5. /\ x \in Course(m, sc) /\ x \in Position(sc) /\ x.step = "hash" /\ Len(log[p]) = x.log
      /\ Len(sent[p]) = x.sent /\ ASeq(log[p]) /\ Regular(m, sc, x) /\ x.log \in Nat
  BY <1>1, <1>3, <1>4, PlacedFacts DEF Sound
<1>6. /\ w \in Course(m, sc) /\ Len(log[q]) = w.log /\ Len(sent[q]) = w.sent /\ ASeq(log[q])
      /\ w.step \in {"hash", "done"} /\ w.log > 0 => sent[q][w.sent].body = log[q]
  BY <1>1, <1>3, <1>4, PlacedFacts DEF Sound
<1>7. w.sent >= x.sent /\ k = x.sent
  BY <1>5, <1>6 DEF There, Round
<1>8. Waiting(x) /\ x.log > 0
  BY <1>5 DEF Waiting, Regular
<1>9. w \in From(m, sc, x)
  BY <1>2, <1>5, <1>6, <1>7, <1>8, Further
<1>10. w.log = x.log /\ w.sent = x.sent
  BY <1>2, <1>5, <1>9, AfterHash
<1>11. k \in 1 .. Len(sent[q])
  <2>1. x.sent > 0 /\ x.sent \in Nat
    BY <1>2, <1>5, <1>8, WaitingSent DEF Position
  <2>2. QED BY <1>6, <1>7, <1>10, <2>1
<1>12. Kinds(m, sc, sent[q])
  BY <1>1, <1>3 DEF Placed, Local
<1>13. PICK y \in Course(m, sc) : /\ Waiting(y) /\ y.sent = k
                                  /\ sent[q][k] = [kind |-> KindFor(y.step), body |-> sent[q][k].body]
  BY <1>11, <1>12 DEF Kinds
<1>14. y = x
  BY <1>2, <1>5, <1>7, <1>8, <1>13, Unique
<1>15. KindFor(y.step) = "hash"
  BY <1>5, <1>14 DEF KindFor
<1>16. log[q] = log[p]
  <2>1. \A j \in 1 .. Len(log[p]) : log[p][j] = log[q][j]
    BY <1>4, <1>5, <1>6, <1>10 DEF Agree
  <2>2. QED BY <1>5, <1>6, <1>10, <2>1, SameSeq
<1>17. sent[q][k].body = log[q]
  <2>1. w.step \in {"hash", "done"}
    <3>1. PICK z : z = Advance(m, sc, x)
      OBVIOUS
    <3>2. w = x \/ w \in From(m, sc, z)
      BY <1>2, <1>5, <1>9, <3>1, Splits
    <3>3. z.step = "done" /\ z \in Position(sc)
      BY <1>2, <1>5, <3>1, RoundIs, Closes
    <3>4. w = x \/ w = z
      BY <1>2, <3>2, <3>3, AfterDone
    <3>5. QED BY <1>5, <3>3, <3>4
  <2>2. QED BY <1>6, <1>7, <1>8, <1>10, <2>1
<1>18. QED BY <1>13, <1>15, <1>16, <1>17

\* ReceiveHashes.
LEMMA ReceiveHashesRight ==
    ASSUME OnCourse, OnCourse', Truthful, NEW p \in Honest, ReceiveHashes(p), Goes(p),
           deviated' = 0
    PROVE  Honestly(p)
<1>1. PICK same \in BOOLEAN :
         /\ Deviate(IF same THEN 0 ELSE 1)
         /\ IF same /\ \A q \in Honest : sent[q][Round(p)] = sent[p][Round(p)]
            THEN Go(p, [End(st[p]) EXCEPT !.checked = Len(log[p])], <<>>)
            ELSE Go(p, [st[p] EXCEPT !.step = "broadcast_invalid"], <<>>)
  BY Zenon DEF ReceiveHashes
<1>2. /\ st[p].step = "hash" /\ There(p) /\ log' = log /\ opened' = opened
  BY DEF ReceiveHashes, Doing
<1>3. same
  <2>1. PICK i : i = IF same THEN 0 ELSE 1
    OBVIOUS
  <2>2. i \in Nat /\ Deviate(i)
    BY <1>1, <2>1
  <2>3. i = 0
    BY <2>2, DeviateIs
  <2>4. QED BY <2>1, <2>3
<1>4. \A q \in Honest : sent[q][Round(p)] = sent[p][Round(p)]
  <2>1. PICK k : k = Round(p)
    OBVIOUS
  <2>2. \A q \in Honest : sent[q][k] = [kind |-> "hash", body |-> log[p]]
    BY <1>2, <2>1, SameHashes
  <2>3. QED BY <2>1, <2>2
<1>5. PICK s, u, l : s = st[p] /\ u = End(s) /\ l = Len(log[p])
  OBVIOUS
<1>6. PICK t : t = [u EXCEPT !.checked = l]
  OBVIOUS
<1>7. Go(p, t, <<>>)
  BY <1>1, <1>3, <1>4, <1>5, <1>6
<1>8. t.step = "done"
  <2>1. PICK m, sc, a, b, o : mode = m /\ script = sc /\ sent[p] = a /\ log[p] = b /\ opened[p] = o
    OBVIOUS
  <2>2. PICK x : Local(m, sc, p, x, s, a, b, o)
    BY <1>5, <2>1 DEF OnCourse, Placed
  <2>3. m \in Modes /\ sc \in Scripts /\ s.step \notin Exceptions
    BY <1>5, <2>1 DEF OnCourse, Typed, Truthful, Sound
  <2>4. /\ s.cnt = x.cnt /\ x.step = "hash" /\ Regular(m, sc, x) /\ Exact(m, sc, x, s, b)
        /\ Sizes(m, sc, s, b) /\ IsState(s)
    BY <1>2, <1>5, <2>2, <2>3, RunsAt
  <2>5. Len(s.macs) = 0 /\ Len(s.vals) = 0
    BY <2>4 DEF Regular, Exact, Sizes
  <2>6. IsState(u) /\ u.step = "done"
    BY <1>5, <2>4, <2>5, Ends
  <2>7. QED BY <1>6, <2>6, Notes
<1>9. st'[p].step = "done" /\ log'[p] = log[p]
  BY <1>2, <1>7, <1>8, GoIs
<1>10. st'[p].step \notin Exceptions
  BY <1>9 DEF Exceptions
<1>11. Step(p)
  BY DEF Step
<1>12. QED BY <1>2, <1>9, <1>10, <1>11, StillRight, QuietRight

\* ClosedConnection: nobody ends before it has sent what others wait for.
LEMMA NeverClosed ==
    ASSUME OnCourse, Truthful, NEW p \in Honest
    PROVE  ~ ClosedConnection(p)
<1>1. SUFFICES ASSUME ClosedConnection(p) PROVE FALSE
  OBVIOUS
<1>2. PICK q \in Honest : Stopped(q) /\ Len(sent[q]) < Round(p)
  BY <1>1 DEF ClosedConnection, Abandoned
<1>3. st[p].step \notin {"call", "done"}
  BY <1>1 DEF ClosedConnection, Abandoned, Stopped, Doing
<1>4. PICK m, sc : mode = m /\ script = sc
  OBVIOUS
<1>5. m \in Modes /\ sc \in Scripts
  BY <1>4 DEF OnCourse, Typed
<1>6. PICK x, w : Placed(p, x) /\ Placed(q, w)
  BY DEF OnCourse
<1>7. /\ x \in Course(m, sc) /\ x \in Position(sc) /\ Waiting(x) /\ Len(sent[p]) = x.sent
      /\ x.sent \in Nat
  BY <1>3, <1>4, <1>6, PlacedFacts DEF Truthful, Sound, Waiting
<1>8. /\ w \in Course(m, sc) /\ w \in Position(sc) /\ w.step = "done" /\ Len(sent[q]) = w.sent
      /\ w.sent \in Nat
  BY <1>2, <1>4, <1>6, PlacedFacts DEF Truthful, Sound, Stopped
<1>9. w.sent < x.sent
  BY <1>2, <1>7, <1>8 DEF Round
<1>10. CASE w \in From(m, sc, x)
  BY <1>5, <1>7, <1>8, <1>9, <1>10, Monotone
<1>11. CASE x \in From(m, sc, w)
  BY <1>5, <1>7, <1>8, <1>11, AfterDone DEF Waiting
<1>12. QED BY <1>5, <1>7, <1>8, <1>10, <1>11, Ordered

\* What the faulty party has committed to is the same for all.
LEMMA CommsAgree ==
    ASSUME OnCourse, Truthful, NEW p \in Honest, st[p].step \in {"seedcomm", "comm"},
           NEW e \in ToOthers(p)
    PROVE  /\ e.by = Faulty /\ (st[p].step = "comm" => e.data = Truth(TRUE))
           /\ \A r \in Honest : Len(log[r]) > Len(log[p]) => log[r][Len(log[p]) + 1][Faulty] = e
<1>1. PICK l : l = Len(log[p])
  OBVIOUS
<1>2. PICK q \in Honest : Len(log[q]) > l /\ e = log[q][l + 1][Faulty]
  BY <1>1 DEF ToOthers
<1>3. PICK x : Placed(p, x)
  BY DEF OnCourse
<1>4. \A r \in Honest : Len(log[r]) \in Nat
  BY PlacedFacts DEF OnCourse
<1>5. x \in Course(mode, script) /\ x.step = st[p].step /\ x.log = l
  BY <1>1, <1>3, PlacedFacts DEF Truthful, Sound
<1>6. Heard(q)
  BY DEF Truthful
<1>7. l + 1 \in 1 .. Len(log[q]) /\ l \in Nat
  BY <1>1, <1>2, <1>4
<1>8. e.by = Faulty
  BY <1>2, <1>6, <1>7 DEF Heard
<1>9. ASSUME st[p].step = "comm" PROVE e.data = Truth(TRUE)
  <2>1. Logs(x)
    BY <1>5, <1>9 DEF Logs
  <2>2. Got(q, x)
    BY <1>2, <1>5, <1>6, <2>1 DEF Heard
  <2>3. QED BY <1>2, <1>5, <1>9, <2>2 DEF Got
<1>10. ASSUME NEW r \in Honest, Len(log[r]) > l PROVE log[r][l + 1][Faulty] = e
  <2>1. Agree(q, r) /\ l + 1 <= Len(log[r])
    BY <1>4, <1>7, <1>10 DEF Truthful
  <2>2. QED BY <1>2, <1>7, <2>1 DEF Agree
<1>11. QED BY <1>1, <1>8, <1>9, <1>10

\* ReceiveComms.
LEMMA ReceiveCommsRight ==
    ASSUME OnCourse, OnCourse', Truthful, NEW p \in Honest, ReceiveComms(p), Goes(p),
           deviated' = 0
    PROVE  Honestly(p)
<1>1. PICK s, a, b : st[p] = s /\ sent[p] = a /\ log[p] = b
  OBVIOUS
<1>2. PICK e : /\ HashIn(p, e)
               /\ Deviate(IF \/ e \in ToOthers(p)
                             \/ /\ ToOthers(p) = {} /\ e.by = Faulty
                                /\ Doing(p, "comm") => e.data = Truth(TRUE)
                          THEN 0 ELSE 1)
               /\ Go(p, [st[p] EXCEPT !.comms = View(p, e),
                                      !.step = IF @ = "comm" THEN "open" ELSE "seedopen"],
                     Message("open", sent[p][Round(p)].body))
  BY Zenon DEF ReceiveComms
<1>3. /\ s.step \in {"seedcomm", "comm"} /\ There(p) /\ opened' = opened
  BY <1>1 DEF ReceiveComms
<1>4. /\ e.by = Faulty /\ (s.step = "comm" => e.data = Truth(TRUE))
      /\ \A r \in Honest : Len(log[r]) > Len(log[p]) => log[r][Len(log[p]) + 1][Faulty] = e
  <2>1. PICK i : i = IF \/ e \in ToOthers(p)
                        \/ /\ ToOthers(p) = {} /\ e.by = Faulty
                           /\ Doing(p, "comm") => e.data = Truth(TRUE)
                     THEN 0 ELSE 1
    OBVIOUS
  <2>2. i \in Nat /\ Deviate(i)
    BY <1>2, <2>1
  <2>3. i = 0
    BY <2>2, DeviateIs
  <2>4. CASE e \in ToOthers(p)
    BY <1>1, <1>3, <2>4, CommsAgree
  <2>5. CASE ToOthers(p) = {} /\ e.by = Faulty /\ (s.step = "comm" => e.data = Truth(TRUE))
    BY <2>5 DEF ToOthers
  <2>6. e \in ToOthers(p) \/ /\ ToOthers(p) = {} /\ e.by = Faulty
                             /\ Doing(p, "comm") => e.data = Truth(TRUE)
    <3>1. 0 # 1
      OBVIOUS
    <3>2. QED BY <2>1, <2>3, <3>1, Zenon
  <2>7. Doing(p, "comm") <=> s.step = "comm"
    BY <1>1 DEF Doing
  <2>8. QED BY <2>4, <2>5, <2>6, <2>7
<1>5. log'[p] = Append(log[p], View(p, e))
  BY <1>2 DEF HashIn, OnCourse, Typed
<1>6. Takes(p, e)
  BY <1>1, <1>4, <1>5 DEF Takes
<1>7. PICK v, f, out : /\ v = View(p, e) /\ f = IF s.step = "comm" THEN "open" ELSE "seedopen"
                       /\ out = Message("open", a[Len(a)].body)
  OBVIOUS
<1>8. PICK t : t = [s EXCEPT !.comms = v, !.step = f]
  OBVIOUS
<1>9. Go(p, t, out)
  <2>1. [st[p] EXCEPT !.comms = View(p, e), !.step = IF @ = "comm" THEN "open" ELSE "seedopen"] = t
    BY <1>1, <1>7, <1>8
  <2>2. Message("open", sent[p][Round(p)].body) = out
    BY <1>1, <1>7 DEF Round
  <2>3. QED BY <1>2, <2>1, <2>2
<1>10. IsState(s) /\ ASeq(a)
  BY <1>1 DEF OnCourse, Placed, Local, Plain
<1>11. t.step = f
  BY <1>8, <1>10 DEF IsState
<1>12. st'[p] = t /\ sent'[p] = a \o out
  BY <1>1, <1>9, GoIs
<1>13. Repeats(p)
  <2>1. PICK g, c : g = [kind |-> "open", body |-> a[Len(a)].body] /\ c = Append(a, g)
    OBVIOUS
  <2>2. out = <<g>>
    BY <1>7, <2>1 DEF Message
  <2>3. sent'[p] = c
    BY <1>10, <1>12, <2>1, <2>2, AppendFacts
  <2>4. Appends(a, g, c)
    BY <1>10, <2>1, Appended
  <2>5. Len(c) = Len(a) + 1 /\ c[Len(c)] = g /\ g.body = a[Len(a)].body
    BY <2>1, <2>4 DEF Appends
  <2>6. s.step = IF f = "open" THEN "comm" ELSE "seedcomm"
    BY <1>3, <1>7
  <2>7. QED BY <1>1, <1>11, <1>12, <2>3, <2>5, <2>6 DEF Repeats
<1>14. f \in {"open", "seedopen"} /\ f \notin Exceptions
  BY <1>7 DEF Exceptions
<1>15. AllRight(opened'[p]) /\ Len(opened'[p]) >= Len(opened[p])
  BY <1>3, StillRight
<1>16. QED BY <1>1, <1>3, <1>6, <1>11, <1>12, <1>13, <1>14, <1>15 DEF Honestly, Logs

\* The opening that is due at position x, where the log has l entries and p
\* has sent k messages: e comes from the faulty party, v from all.
Opening(p, x, e, v, l, k) ==
    /\ x \in Course(mode, script) /\ x.step = st[p].step /\ x.step \in {"seedopen", "open"}
    /\ Regular(mode, script, x) /\ x.cnt = st[p].cnt
    /\ Len(log[p]) = l /\ l \in Nat /\ l > 0 /\ x.log = l
    /\ Len(sent[p]) = k /\ k \in Nat /\ k > 1 /\ x.sent = k
    /\ e = log[p][l][Faulty] /\ e = st[p].comms[Faulty] /\ e.by = Faulty
    /\ v = View(p, e) /\ v[Faulty] = e
    /\ \A q \in Honest : /\ v[q] = sent[q][k].body /\ st[p].comms[q] = sent[q][k - 1].body
                         /\ Says(mode, q, x, sent[q], log[q])
                         /\ Len(log[q]) \in Nat /\ Len(log[q]) >= l /\ Paired(log[q])

\* It is due if the faulty party opens what it has committed to.
LEMMA OpeningIs ==
    ASSUME OnCourse, Truthful, NEW p \in Honest, st[p].step \in {"seedopen", "open"}, There(p),
           NEW e, e = st[p].comms[Faulty], NEW v, v = View(p, e)
    PROVE  \E x, l, k : Opening(p, x, e, v, l, k)
<1>1. PICK m, sc, s, a, b, o : /\ mode = m /\ script = sc /\ st[p] = s /\ sent[p] = a
                               /\ log[p] = b /\ opened[p] = o
  OBVIOUS
<1>2. PICK x : Local(m, sc, p, x, s, a, b, o)
  BY <1>1 DEF OnCourse, Placed
<1>3. m \in Modes /\ sc \in Scripts /\ s.step \notin Exceptions
  BY <1>1 DEF OnCourse, Typed, Truthful, Sound
<1>4. PICK l, k : l = Len(b) /\ k = Len(a)
  OBVIOUS
<1>5. /\ x \in Course(m, sc) /\ x.step = s.step /\ Regular(m, sc, x) /\ x.cnt = s.cnt
      /\ x.log = l /\ l \in Nat /\ x.sent = k /\ k \in Nat
      /\ Fits(m, p, s, a[Len(a)].body, Len(a), b)
  BY <1>2, <1>3, <1>4, RunsAt
<1>6. l > 0
  BY <1>1, <1>5, Parity DEF Regular
<1>7. s.comms = b[l]
  BY <1>1, <1>4, <1>5 DEF Fits
<1>8. /\ k > 1
      /\ \A q \in Honest : b[l][q] = sent[q][k - 1].body
  BY <1>1, <1>4 DEF Truthful, Ready
<1>9. e = b[l][Faulty] /\ e.by = Faulty
  BY <1>1, <1>4, <1>5, <1>6, <1>7 DEF Truthful, Heard
<1>10. v[Faulty] = e
  BY FaultyAssumption DEF View
<1>11. ASSUME NEW q \in Honest
       PROVE  /\ v[q] = sent[q][k].body /\ s.comms[q] = sent[q][k - 1].body
              /\ Says(m, q, x, sent[q], log[q])
              /\ Len(log[q]) \in Nat /\ Len(log[q]) >= l /\ Paired(log[q])
  <2>1. PICK w : Placed(q, w)
    BY DEF OnCourse
  <2>2. /\ w \in Course(m, sc) /\ Len(sent[q]) = w.sent /\ Len(log[q]) = w.log /\ Paired(log[q])
        /\ w.log \in Nat
    BY <1>1, <2>1, PlacedFacts DEF Truthful, Sound
  <2>3. w.sent >= x.sent
    BY <1>1, <1>4, <1>5, <2>2 DEF There, Round
  <2>4. Waiting(x)
    BY <1>1, <1>5 DEF Waiting
  <2>5. w.log >= x.log
    BY <1>3, <1>5, <2>2, <2>3, <2>4, Further
  <2>6. Says(m, q, x, sent[q], log[q])
    BY <1>1, <1>5, <2>2, <2>3, <2>4 DEF Truthful, Told
  <2>7. v[q] = sent[q][k].body
    <3>1. q \in Party /\ q # Faulty
      BY DEF Honest
    <3>2. QED BY <1>1, <1>4, <3>1 DEF View, Round
  <2>8. QED BY <1>5, <1>7, <1>8, <2>2, <2>5, <2>6, <2>7
<1>12. Opening(p, x, e, v, l, k)
  BY <1>1, <1>4, <1>5, <1>6, <1>8, <1>9, <1>10, <1>11 DEF Opening
<1>13. QED BY <1>12

\* All openings are those of the commitments.
LEMMA OpensAgree ==
    ASSUME NEW p \in Honest, NEW x, NEW e, NEW v, NEW l, NEW k, Opening(p, x, e, v, l, k)
    PROVE  AllOpen(p, v)
<1>1. v[Faulty] = e /\ st[p].comms[Faulty] = e /\ e.by = Faulty
  BY DEF Opening
<1>2. ASSUME NEW q \in Honest PROVE st[p].comms[q] = v[q] /\ v[q].by = q
  <2>1. /\ Says(mode, q, x, sent[q], log[q]) /\ x.sent = k /\ x.step \in {"seedopen", "open"}
        /\ v[q] = sent[q][k].body /\ st[p].comms[q] = sent[q][k - 1].body /\ k > 1
    BY DEF Opening
  <2>2. v[q] = st[p].comms[q]
    BY <2>1 DEF Says
  <2>3. \E d, h : v[q] = Commit(q, d, h)
    BY <2>1 DEF Says
  <2>4. v[q].by = q
    BY <2>3 DEF Commit
  <2>5. QED BY <2>2, <2>4
<1>3. \A q \in Party \ {p} : q = Faulty \/ q \in Honest
  BY DEF Honest
<1>4. QED BY <1>1, <1>2, <1>3 DEF AllOpen, Open

\* They are the same for all.
LEMMA OpensTaken ==
    ASSUME OnCourse, Truthful, NEW p \in Honest, NEW x, NEW e, NEW v, NEW l, NEW k,
           Opening(p, x, e, v, l, k), log'[p] = Append(log[p], v)
    PROVE  Takes(p, e)
<1>1. /\ x.step \in {"seedopen", "open"} /\ st[p].step = x.step /\ Regular(mode, script, x)
      /\ x.log = l /\ Len(log[p]) = l /\ l \in Nat /\ l > 0 /\ e = log[p][l][Faulty]
      /\ e.by = Faulty /\ v = View(p, e)
  BY DEF Opening
<1>2. ~ Odd(l + 1)
  BY <1>1, Parity DEF Regular
<1>3. ASSUME NEW r \in Honest, Len(log[r]) > l PROVE log[r][l + 1][Faulty] = e
  <2>1. Len(log[r]) \in Nat /\ Paired(log[r])
    BY DEF Opening
  <2>2. l + 1 \in 1 .. Len(log[r]) /\ l + 1 - 1 = l
    BY <1>1, <1>3, <2>1
  <2>3. log[r][l + 1][Faulty] = log[r][l][Faulty]
    <3>1. PICK j : j = l + 1
      OBVIOUS
    <3>2. j \in 1 .. Len(log[r]) /\ ~ Odd(j) /\ j - 1 = l
      BY <1>1, <1>2, <2>2, <3>1
    <3>3. log[r][j][Faulty] = log[r][j - 1][Faulty]
      BY <2>1, <3>2 DEF Paired
    <3>4. QED BY <3>1, <3>2, <3>3
  <2>4. Agree(p, r) /\ l \in 1 .. Len(log[p]) /\ l <= Len(log[r])
    BY <1>1, <2>1, <2>2 DEF Truthful
  <2>5. log[p][l] = log[r][l]
    BY <2>4 DEF Agree
  <2>6. QED BY <1>1, <2>3, <2>5
<1>4. QED BY <1>1, <1>3 DEF Takes

\* The deltas of right values with their own MACs add up to zero.
LEMMA ZeroIfRight ==
    ASSUME OnCourse, Truthful, NEW p \in Honest, NEW x, NEW e, NEW v, NEW l, NEW k,
           Opening(p, x, e, v, l, k), x.step = "open"
    PROVE  SumIsZero(p, v)
<1>1. PICK m : m = mode
  OBVIOUS
<1>2. PICK d : d = DataAt(m, x, l - 1, log[p])
  OBVIOUS
<1>3. l \in Nat /\ Len(log[p]) = l /\ x.log = l /\ x.sent = k
  BY DEF Opening
<1>4. ASSUME NEW q \in Honest PROVE v[q].data = d
  <2>1. v[q] = sent[q][k].body /\ Says(m, q, x, sent[q], log[q])
    BY <1>1 DEF Opening
  <2>2. v[q].data = DataAt(m, x, l - 1, log[q])
    BY <1>3, <2>1 DEF Says, Commit
  <2>3. SeedAt(m, x.cnt, l - 1, log[q]) = SeedAt(m, x.cnt, l - 1, log[p])
    <3>1. l - 1 > 0 => log[p][l - 1] = log[q][l - 1]
      <4>1. Agree(p, q) /\ Len(log[q]) >= l /\ Len(log[q]) \in Nat
        BY DEF Truthful, Opening
      <4>2. QED BY <1>3, <4>1 DEF Agree
    <3>2. QED BY <3>1 DEF SeedAt
  <2>4. QED BY <1>2, <2>2, <2>3 DEF DataAt
<1>5. /\ d.pj = 0
      /\ \A i \in DOMAIN d.pairs : /\ d.pairs[i][2] = [id |-> d.pairs[i][1], err |-> 0]
                                   /\ d.pairs[i][3] = d.pairs[i][1]
  BY <1>2 DEF DataAt, Triple
<1>6. v[Faulty].data = Truth(TRUE)
  <2>1. st[p].step = "open" /\ v[Faulty] = log[p][l][Faulty]
    BY DEF Opening
  <2>2. QED BY <1>3, <2>1 DEF Truthful, Ready
<1>7. QED BY <1>4, <1>5, <1>6 DEF SumIsZero

\* How a party goes on with the right coins if d is its log.
WithCoins(t, d) ==
    /\ t.step \in {"call", "pj", "comm"}
    /\ t.step \in {"pj", "comm"} => t.seed = SeedAt(mode, t.cnt, Len(d), d)
    /\ t.step = "comm" => t.pj = 0

\* The coins of a check, or of a Create_Random, are those of this opening.
LEMMA SeedDoneRight ==
    ASSUME OnCourse, Truthful, NEW p \in Honest, NEW x, NEW e, NEW v, NEW l, NEW k,
           Opening(p, x, e, v, l, k), x.step = "seedopen", NEW d, d = Append(log[p], v),
           NEW r, r = SeedDone(p, st[p], v)
    PROVE  WithCoins(r.s, d)
<1>1. PICK m, sc, s, a, b, o : /\ mode = m /\ script = sc /\ st[p] = s /\ sent[p] = a
                               /\ log[p] = b /\ opened[p] = o
  OBVIOUS
<1>2. PICK w : Local(m, sc, p, w, s, a, b, o)
  BY <1>1 DEF OnCourse, Placed
<1>3. m \in Modes /\ sc \in Scripts /\ s.step \notin Exceptions
  BY <1>1 DEF OnCourse, Typed, Truthful, Sound
<1>4. /\ s.step = "seedopen" /\ w.step = "seedopen" /\ Regular(m, sc, w) /\ s.cnt = w.cnt
      /\ s.op = w.op /\ IsState(s) /\ ASeq(b) /\ Len(b) \in Nat
  <2>1. s.step = "seedopen"
    BY <1>1 DEF Opening
  <2>2. /\ w.step = s.step /\ Regular(m, sc, w) /\ s.cnt = w.cnt /\ IsState(s) /\ ASeq(b)
        /\ Exact(m, sc, w, s, b)
    BY <1>2, <1>3, RunsAt
  <2>3. s.op = w.op /\ Len(b) \in Nat
    BY <2>2, SeqFacts DEF Exact
  <2>4. QED BY <2>1, <2>2, <2>3
<1>5. Appends(b, v, d)
  BY <1>1, <1>4, Appended
<1>6. PICK j : j = Len(b) + 1
  OBVIOUS
<1>7. Len(d) = j /\ d[j] = v /\ j > 0
  BY <1>4, <1>5, <1>6 DEF Appends
<1>8. PICK y, t : y = [q \in Party |-> v[q].data] /\ t = [s EXCEPT !.seed = y, !.pj = 0]
  OBVIOUS
<1>9. IsState(t) /\ Keeps(s, t) /\ t.seed = y /\ t.pj = 0
  <2>1. PICK g : g = 0
    OBVIOUS
  <2>2. t = [s EXCEPT !.seed = y, !.pj = g]
    BY <1>8, <2>1
  <2>3. IsState(t) /\ Keeps(s, t)
    BY <1>4, <2>2, SeedSet
  <2>4. t.seed = y /\ t.pj = g
    BY <1>4, <2>2 DEF IsState
  <2>5. QED BY <2>1, <2>3, <2>4
<1>10. ASSUME NEW n, Seeded(m, n) PROVE y = SeedAt(m, n, j, d)
  <2>1. SeedAt(m, n, j, d) = [q \in Party |-> d[j][q].data]
    BY <1>7, <1>10 DEF SeedAt
  <2>2. QED BY <1>7, <1>8, <2>1
<1>11. PICK n : n = NextRound(a)
  OBVIOUS
<1>12. r = IF sc[w.op].do = "random" THEN [s |-> [t EXCEPT !.step = "call"], out |-> <<>>]
           ELSE IF m = "z2k" THEN [s |-> [t EXCEPT !.step = "pj"], out |-> Message("pj", "right")]
           ELSE CheckComm(p, t, n)
  <2>1. Here(p) = sc[w.op] /\ Round(p) + 1 = n
    BY <1>1, <1>4, <1>11 DEF Here, Round, NextRound
  <2>2. SeedDone(p, s, v) =
           IF Here(p).do = "random"
           THEN [s |-> [[s EXCEPT !.seed = [q \in Party |-> v[q].data], !.pj = 0]
                           EXCEPT !.step = "call"], out |-> <<>>]
           ELSE IF mode = "z2k"
           THEN [s |-> [[s EXCEPT !.seed = [q \in Party |-> v[q].data], !.pj = 0]
                           EXCEPT !.step = "pj"], out |-> Message("pj", "right")]
           ELSE CheckComm(p, [s EXCEPT !.seed = [q \in Party |-> v[q].data], !.pj = 0],
                          Round(p) + 1)
    BY Zenon DEF SeedDone
  <2>3. QED BY <1>1, <1>8, <2>1, <2>2
<1>13. CASE sc[w.op].do = "random"
  <2>1. PICK g : g = [t EXCEPT !.step = "call"]
    OBVIOUS
  <2>2. r.s = g
    BY <1>12, <1>13, <2>1
  <2>3. g.step = "call"
    BY <1>9, <2>1, StepOnly
  <2>4. QED BY <2>2, <2>3 DEF WithCoins
<1>14. CASE sc[w.op].do # "random" /\ m = "z2k"
  <2>1. PICK g : g = [t EXCEPT !.step = "pj"]
    OBVIOUS
  <2>2. r.s = g
    BY <1>12, <1>14, <2>1
  <2>3. g.step = "pj" /\ g.seed = t.seed
    BY <1>9, <2>1, StepOnly
  <2>4. Seeded(m, g.cnt)
    BY <1>14 DEF Seeded
  <2>5. QED BY <1>1, <1>7, <1>9, <1>10, <2>2, <2>3, <2>4 DEF WithCoins
<1>15. CASE sc[w.op].do # "random" /\ m # "z2k"
  <2>1. r = CheckComm(p, t, n)
    BY <1>12, <1>15
  <2>2. /\ IsState(r.s) /\ Keeps(t, r.s) /\ r.s.step = "comm"
        /\ r.s.seed = t.seed /\ r.s.pj = t.pj
        /\ r.out = <<[kind |-> "comm", body |-> Commit(p, DataOf(m, r.s), n)]>>
    BY <1>1, <1>9, <2>1, CheckCommIs
  <2>3. r.s.cnt = w.cnt
    BY <1>4, <1>9, <2>2 DEF Keeps
  <2>4. Seeded(m, w.cnt)
    BY <1>4, <1>15 DEF Regular
  <2>5. QED BY <1>1, <1>7, <1>9, <1>10, <2>2, <2>3, <2>4 DEF WithCoins
<1>16. QED BY <1>13, <1>14, <1>15

\* ReceiveOpens.
LEMMA ReceiveOpensRight ==
    ASSUME OnCourse, OnCourse', Truthful, NEW p \in Honest, ReceiveOpens(p), Goes(p),
           deviated' = 0
    PROVE  Honestly(p)
<1>1. PICK s : s = st[p]
  OBVIOUS
<1>2. PICK e :
         /\ HashIn(p, e)
         /\ Deviate(IF e # st[p].comms[Faulty] THEN 1 ELSE 0)
         /\ LET view == View(p, e)
                res == IF ~AllOpen(p, view)
                       THEN [s |-> [st[p] EXCEPT !.step = "invalid_commitment"], out |-> <<>>]
                       ELSE IF st[p].step = "seedopen" THEN SeedDone(p, st[p], view)
                       ELSE IF SumIsZero(p, view)
                       THEN [s |-> [Erase(st[p]) EXCEPT !.step = "call"], out |-> <<>>]
                       ELSE [s |-> Failed(st[p]), out |-> <<>>]
            IN Go(p, res.s, res.out)
  BY Zenon DEF ReceiveOpens
<1>3. s.step \in {"seedopen", "open"} /\ There(p) /\ opened' = opened
  BY <1>1 DEF ReceiveOpens
<1>4. e = st[p].comms[Faulty]
  <2>1. PICK i : i = IF e # st[p].comms[Faulty] THEN 1 ELSE 0
    OBVIOUS
  <2>2. i \in Nat /\ Deviate(i)
    BY <1>2, <2>1
  <2>3. i = 0
    BY <2>2, DeviateIs
  <2>4. QED BY <2>1, <2>3
<1>5. PICK v, d : v = View(p, e) /\ d = Append(log[p], v)
  OBVIOUS
<1>6. PICK x, l, k : Opening(p, x, e, v, l, k)
  BY <1>1, <1>3, <1>4, <1>5, OpeningIs
<1>7. x.step = s.step
  BY <1>1, <1>6 DEF Opening
<1>8. AllOpen(p, v)
  BY <1>6, OpensAgree
<1>9. log'[p] = d
  BY <1>2, <1>5 DEF HashIn, OnCourse, Typed
<1>10. Takes(p, e)
  BY <1>5, <1>6, <1>9, OpensTaken
<1>11. PICK r : /\ r = IF s.step = "seedopen" THEN SeedDone(p, s, v)
                       ELSE IF SumIsZero(p, v)
                       THEN [s |-> [Erase(s) EXCEPT !.step = "call"], out |-> <<>>]
                       ELSE [s |-> Failed(s), out |-> <<>>]
                /\ Go(p, r.s, r.out)
  BY <1>1, <1>2, <1>5, <1>8
<1>12. WithCoins(r.s, d)
  <2>1. CASE s.step = "seedopen"
    <3>1. r = SeedDone(p, st[p], v)
      BY <1>1, <1>11, <2>1
    <3>2. Opening(p, x, e, v, l, k) /\ x.step = "seedopen" /\ d = Append(log[p], v)
      BY <1>5, <1>6, <1>7, <2>1
    <3>3. QED BY <3>1, <3>2, SeedDoneRight
  <2>2. CASE s.step = "open"
    <3>1. SumIsZero(p, v)
      BY <1>6, <1>7, <2>2, ZeroIfRight
    <3>2. PICK u, g : u = Erase(s) /\ g = [u EXCEPT !.step = "call"]
      OBVIOUS
    <3>3. r.s = g
      BY <1>11, <2>2, <3>1, <3>2
    <3>4. IsState(s)
      BY <1>1 DEF OnCourse, Placed, Local, Plain
    <3>5. g.step = "call"
      <4>1. PICK f1, f2, f3 : /\ f1 = SubSeq(s.macs, s.cnt + 1, Len(s.macs))
                              /\ f2 = SubSeq(s.vals, s.cnt + 1, Len(s.vals))
                              /\ f3 = SubSeq(s.shares, s.cnt + 1, Len(s.shares))
        OBVIOUS
      <4>2. u = [s EXCEPT !.macs = f1, !.vals = f2, !.shares = f3, !.cnt = 0]
        BY <3>2, <4>1 DEF Erase
      <4>3. u = [op |-> s.op, step |-> s.step, macs |-> f1, vals |-> f2, shares |-> f3,
                 cnt |-> 0, next |-> s.next, seed |-> s.seed, pj |-> s.pj, comms |-> s.comms,
                 checked |-> s.checked]
        BY <3>4, <4>2 DEF IsState
      <4>4. QED BY <3>2, <4>3
    <3>6. QED BY <3>3, <3>5 DEF WithCoins
  <2>3. QED BY <1>3, <2>1, <2>2
<1>13. st'[p] = r.s /\ mode' = mode
  BY <1>11, GoIs DEF Goes
<1>14. AllRight(opened'[p]) /\ Len(opened'[p]) >= Len(opened[p])
  BY <1>3, StillRight
<1>15. Logs(st[p]) /\ st[p].step # "shares"
  BY <1>1, <1>3 DEF Logs
<1>16. r.s.step \notin Exceptions /\ r.s.step \notin {"seedopen", "open"}
  BY <1>12 DEF Exceptions, WithCoins
<1>17. QED BY <1>3, <1>9, <1>10, <1>12, <1>13, <1>14, <1>15, <1>16 DEF Honestly, WithCoins

\* Wrong messages of the faulty party are not forgotten.
LEMMA NeverForgiven ==
    ASSUME OnCourse, NEW p \in Honest, Step(p), deviated' = 0
    PROVE  deviated = 0
<1>1. ASSUME NEW n \in Nat, Deviate(n) PROVE deviated = 0
  BY <1>1, DeviateIs
<1>2. \A g : (IF g THEN 0 ELSE 1) \in Nat /\ (IF g THEN 1 ELSE 0) \in Nat
  OBVIOUS
<1>3. CASE Exchange(p)
  <2>1. PICK x, n, new, u, r : Exchanges(p, x, n, new, u, r)
    BY <1>3, ExchangeIs
  <2>2. \E k \in Nat : Deviate(k)
    BY <2>1 DEF Exchanges
  <2>3. QED BY <1>1, <2>2
<1>4. CASE AddToCheck(p)
  <2>1. PICK x, v, u, r : Adds(p, x, v, u, r)
    BY <1>4, AddToCheckIs
  <2>2. v.err \in Nat /\ Deviate(v.err)
    BY <2>1 DEF Adds
  <2>3. QED BY <1>1, <2>2
<1>5. CASE ReceiveComms(p)
  <2>1. \E n \in Nat : Deviate(n)
    BY <1>2, <1>5, Zenon DEF ReceiveComms
  <2>2. QED BY <1>1, <2>1
<1>6. CASE ReceiveOpens(p)
  <2>1. \E n \in Nat : Deviate(n)
    BY <1>2, <1>6, Zenon DEF ReceiveOpens
  <2>2. QED BY <1>1, <2>1
<1>7. CASE ReceiveHighBits(p)
  <2>1. \E n \in {0, 1} : Deviate(n)
    BY <1>7, Zenon DEF ReceiveHighBits
  <2>2. QED BY <1>1, <2>1
<1>8. CASE ReceiveHashes(p)
  <2>1. \E n \in Nat : Deviate(n)
    BY <1>2, <1>8, Zenon DEF ReceiveHashes
  <2>2. QED BY <1>1, <2>1
<1>9. CASE deviated' = deviated
  BY <1>9
<1>10. QED BY <1>3, <1>4, <1>5, <1>6, <1>7, <1>8, <1>9
              DEF Step, BeginOpen, Check, CheckFor, CreateRandom, CheckBroadcast, ClosedConnection

\* While the faulty party does what it should, so does everybody.
LEMMA StepRight ==
    ASSUME OnCourse, OnCourse', Truthful, NEW p \in Honest, Step(p), Goes(p), deviated' = 0
    PROVE  Honestly(p)
  BY BeginOpenRight, ExchangeRight, AddToCheckRight, CheckRight, CheckForRight,
     CreateRandomRight, ReceiveCommsRight, ReceiveOpensRight, ReceiveHighBitsRight,
     CheckBroadcastRight, ReceiveHashesRight, NeverClosed DEF Step

\* Nothing has been said at the beginning.
LEMMA StartsFaithful ==
    ASSUME Init
    PROVE  Faithful
<1>1. OnCourse
  BY StartsOnCourse
<1>2. mode \in Modes /\ script \in Scripts
  BY DEF Init
<1>3. Len(<<>>) = 0
  OBVIOUS
<1>4. ASSUME NEW p \in Honest
      PROVE  /\ Sound(p) /\ Told(p) /\ Heard(p) /\ Ready(p) /\ Enough(p)
             /\ \A q \in Honest : Agree(p, q)
  <2>1. PICK s, e : s = Start /\ e = <<>>
    OBVIOUS
  <2>2. st[p] = s /\ sent[p] = e /\ log[p] = e /\ opened[p] = e /\ Len(e) = 0
    BY <1>3, <2>1 DEF Init
  <2>3. s.step = "call" /\ s.op = 0
    BY <2>1 DEF Start
  <2>4. Sound(p) /\ Ready(p) /\ Enough(p)
    BY <2>2, <2>3 DEF Sound, AllRight, Ready, Enough, Exceptions
  <2>5. ASSUME NEW y \in Course(mode, script)
        PROVE  y.log \in Nat /\ y.sent \in Nat /\ (Waiting(y) => y.sent > 0)
    <3>1. y \in Position(script)
      BY <1>2, CourseFacts
    <3>2. QED BY <1>2, <3>1, WaitingSent DEF Position
  <2>6. Told(p)
    BY <2>2, <2>5 DEF Told
  <2>7. Heard(p)
    BY <2>2, <2>5 DEF Heard
  <2>8. \A q \in Honest : Agree(p, q)
    BY <2>2 DEF Agree
  <2>9. QED BY <2>4, <2>6, <2>7, <2>8
<1>5. QED BY <1>1, <1>4 DEF Faithful, Truthful

\* Every step keeps it so.
LEMMA StaysFaithful ==
    ASSUME Faithful, [Next]_vars
    PROVE  Faithful'
<1>1. OnCourse'
  BY StaysOnCourse DEF Faithful
<1>2. CASE UNCHANGED vars
  <2>1. ASSUME deviated' = 0 PROVE Truthful'
    <3>1. /\ mode' = mode /\ script' = script /\ st' = st /\ sent' = sent /\ log' = log
          /\ opened' = opened /\ deviated' = deviated
      BY <1>2 DEF vars
    <3>2. ASSUME NEW p \in Honest
          PROVE  /\ Sound(p)' /\ Told(p)' /\ Heard(p)' /\ Ready(p)' /\ Enough(p)'
                 /\ \A q \in Honest : Agree(p, q)'
      <4>1. /\ Sound(p) /\ Told(p) /\ Heard(p) /\ Ready(p) /\ Enough(p)
            /\ \A q \in Honest : Agree(p, q)
        BY <2>1, <3>1 DEF Faithful, Truthful
      <4>2. Sound(p)' /\ Enough(p)'
        BY <3>1, <4>1 DEF Sound, Enough
      <4>3. Told(p)'
        BY <3>1, <4>1 DEF Told
      <4>4. \A y : Got(p, y)' <=> Got(p, y)
        BY <3>1 DEF Got
      <4>5. Heard(p)'
        BY <3>1, <4>1, <4>4 DEF Heard
      <4>6. Ready(p)'
        BY <3>1, <4>1 DEF Ready
      <4>7. \A q \in Honest : Agree(p, q)'
        BY <3>1, <4>1 DEF Agree
      <4>8. QED BY <4>2, <4>3, <4>5, <4>6, <4>7
    <3>3. QED BY <3>2 DEF Truthful
  <2>2. QED BY <1>1, <2>1 DEF Faithful
<1>3. ASSUME NEW p \in Honest, Step(p) PROVE Faithful'
  <2>1. ASSUME deviated' = 0 PROVE Truthful'
    <3>1. OnCourse /\ Truthful
      BY <1>3, <2>1, NeverForgiven DEF Faithful
    <3>2. Goes(p)
      BY <1>3, <3>1, StepGoes
    <3>3. Honestly(p)
      BY <1>1, <1>3, <2>1, <3>1, <3>2, StepRight
    <3>4. QED BY <1>1, <1>3, <3>1, <3>2, <3>3, TruthNext
  <2>2. QED BY <1>1, <2>1 DEF Faithful
<1>4. QED BY <1>2, <1>3 DEF Next

\* While the faulty party does what it should, every honest party has told the
\* others what it should, agrees with them on every broadcast, and has opened
\* right values only (Commit_And_Open_ and Create_Random_Seed in
\* Subroutines.cpp, MAC_Check_::Check, Check_Broadcast in Player.cpp).
THEOREM AlwaysFaithful == Spec => []Faithful
<1>1. Init => Faithful
  BY StartsFaithful
<1>2. Faithful /\ [Next]_vars => Faithful'
  BY StaysFaithful
<1>3. QED BY <1>1, <1>2, PTL DEF Spec

\* No party throws while the faulty one does what it should, and a party for
\* which nothing waits has opened right values only, whatever that one does
\* (MAC_Check.hpp:52-207, Subroutines.cpp:128-175, Player.cpp:475-501).
THEOREM RightVerdicts == Spec => []RightVerdict
<1>1. Faithful => RightVerdict
  BY TypesHold, RightIfNothingWaits DEF Faithful, Truthful, Sound, RightVerdict, NoFalseAlarm
<1>2. QED BY <1>1, AlwaysFaithful, PTL

=============================================================================
