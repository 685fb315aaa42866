--------------------------- MODULE ExchangeProofs --------------------------
(***************************************************************************)
(* Theorems about Exchange for every number of parties, every sequence of  *)
(* operations, and any room of the sockets.                                *)
(***************************************************************************)
EXTENDS Exchange, TLAPS, FiniteSetTheorems, SequenceTheorems

-----------------------------------------------------------------------------
(* Places in the parts of an operation.                                    *)

\* p sends to q, receives from q, in part g of operation a, or in one before it.
SendsIn(p, q, a, g) == \E j \in 1 .. Len(Parts(p, a)[g]) : Parts(p, a)[g][j].to = q
TakesIn(p, q, a, g) == \E j \in 1 .. Len(Parts(p, a)[g]) : Parts(p, a)[g][j].from = q
Sends(p, q, a) == \E g \in 1 .. Len(Parts(p, a)) : SendsIn(p, q, a, g)
Takes(p, q, a) == \E g \in 1 .. Len(Parts(p, a)) : TakesIn(p, q, a, g)

(* Items by their number on the way from p to q.                           *)

\* How many items p sends q in operation o of script s, and before it.
Size(s, p, q, o) == IF Sends(p, q, s[o]) THEN s[o].length[p] + 1 ELSE 0
Items(s, p, q, o) == {o} \X (1 .. Size(s, p, q, o))
Before(s, p, q, o) == Cardinality(UNION {Items(s, p, q, a) : a \in 1 .. o - 1})

\* The nth item of a message.
Nth(s, p, o, n) ==
    [from |-> p, op |-> o, i |-> n - 1, n |-> IF n = 1 THEN s[o].length[p] ELSE 0]

\* How many of them p has sent q, and received from q, in operation a.
Taken(e) == IF e.known THEN 1 + e.received ELSE 0
SentNow(p, q, a, g, x) ==
    IF \E j \in 1 .. Len(x) : x[j].to = q
    THEN 1 + x[CHOOSE j \in 1 .. Len(x) : x[j].to = q].sent
    ELSE IF \E h \in 1 .. g - 1 : SendsIn(p, q, a, h) THEN a.length[p] + 1
    ELSE 0
TakenNow(p, q, a, g, x) ==
    IF \E j \in 1 .. Len(x) : x[j].from = q
    THEN Taken(x[CHOOSE j \in 1 .. Len(x) : x[j].from = q])
    ELSE IF \E h \in 1 .. g - 1 : TakesIn(p, q, a, h) THEN a.length[q] + 1
    ELSE 0

\* How many in all, when p is in part g of operation o of script s, with x as its
\* Exchangers.
SentBy(s, o, g, x, p, q) ==
    Before(s, p, q, o) + (IF o <= Len(s) THEN SentNow(p, q, s[o], g, x) ELSE 0)
GotBy(s, o, g, x, p, q) ==
    Before(s, q, p, o) + (IF o <= Len(s) THEN TakenNow(p, q, s[o], g, x) ELSE 0)

(* The inductive invariant.                                                *)

\* c holds the items with the numbers from + 1 to to.
Holds(s, p, q, c, from, to) ==
    /\ Len(c) = to - from
    /\ \A k \in 1 .. Len(c) :
          \E o \in 1 .. Len(s) : \E n \in 1 .. Size(s, p, q, o) :
              from + k = Before(s, p, q, o) + n /\ c[k] = Nth(s, p, o, n)

\* v begins with what comes behind the first m items of what q sends in operation o.
Continues(s, q, o, v, m) ==
    /\ v \in Seq(Item)
    /\ \A i \in 1 .. Len(v) : m + i <= s[o].length[q] + 1 => v[i] = Nth(s, q, o, m + i)

Exchangers == [to : Party \cup {None}, from : Party \cup {None}, len : Nat, sent : Nat,
               received : Nat, known : BOOLEAN, newLen : Nat, buf : Seq(Item),
               freed : BOOLEAN]

\* x with e for its jth.
With(x, j, e) == [x EXCEPT ![j] = e]

\* An Exchanger of p in operation o for transfer t.
WellDone(s, p, o, t, e) ==
    /\ e.to = t.to /\ e.from = t.from
    /\ e.len = IF t.to = None THEN 0 ELSE s[o].length[p]
    /\ e.sent <= e.len
    /\ t.from = None => e.known
    /\ e.freed => e.known /\ e.sent = e.len
    /\ e.newLen = IF e.known /\ t.from # None THEN s[o].length[t.from] ELSE 0
    /\ e.received <= e.newLen
    /\ e.newLen <= Len(e.buf)
    /\ \A i \in 1 .. e.received : e.buf[i] = Nth(s, t.from, o, i + 1)
    /\ s[o].inPlace =>
          /\ e.len <= Len(e.buf)
          /\ e.received <= e.sent \/ e.sent = e.len
          /\ ~e.freed => \A i \in e.sent + 1 .. e.len : e.buf[i] = Nth(s, p, o, i + 1)

\* Where p is.
Local(s, o, g, x, p) ==
    /\ o \in 1 .. Len(s) + 1 /\ g \in Nat \ {0} /\ x \in Seq(Exchangers)
    /\ IF o <= Len(s) THEN g <= Len(Parts(p, s[o])) + 1 ELSE g = 1
    /\ x # <<>> => /\ o <= Len(s) /\ g <= Len(Parts(p, s[o]))
                   /\ Len(x) <= Len(Parts(p, s[o])[g])
    /\ \A j \in 1 .. Len(x) : WellDone(s, p, o, Parts(p, s[o])[g][j], x[j])

\* Where the parties are, with x as their Exchangers, and that c holds what was sent
\* and not received.
Typed(x, c) ==
    /\ x \in [Party -> Seq(Exchangers)]
    /\ c \in [Party -> [Party -> Seq(Item)]]
    /\ \A p \in Party, q \in Party : Len(c[p][q]) <= Room
Located(x) == \A p \in Party : Local(script, op[p], group[p], x[p], p)
Wired(x, c) ==
    \A p \in Party, q \in Party :
       Holds(script, p, q, c[p][q], GotBy(script, op[q], group[q], x[q], q, p),
                                    SentBy(script, op[p], group[p], x[p], p, q))
Consistent(x, c) == Typed(x, c) /\ Located(x) /\ Wired(x, c)

Correspondence ==
    /\ script \in Scripts
    /\ op \in [Party -> Nat \ {0}]
    /\ group \in [Party -> Nat \ {0}]
    /\ Consistent(ex, chan)

-----------------------------------------------------------------------------
(* Whom the operations send to and receive from.                           *)

\* Going round by an offset.
LEMMA Around ==
    ASSUME NEW p \in Party, NEW d \in 0 .. N
    PROVE  /\ GetPlayer(p, d) = IF p + d < N THEN p + d ELSE p + d - N
           /\ GetPlayer(p, d) \in Party
<1>1. N \in Nat /\ N > 1 /\ p \in Nat /\ p < N
  BY PartyAssumption DEF Party
<1>2. GetPlayer(p, d) = IF p + d < N THEN p + d ELSE p + d - N
  BY <1>1 DEF GetPlayer
<1>3. QED BY <1>1, <1>2 DEF Party

\* Who is reached by different offsets, and by the rest of the round.
LEMMA AroundBack ==
    ASSUME NEW p \in Party, NEW q \in Party, NEW d \in 0 .. N
    PROVE  /\ q = GetPlayer(p, d) <=> p = GetPlayer(q, N - d)
           /\ \A e \in 0 .. N :
                 d > 0 /\ e > 0 /\ GetPlayer(p, d) = GetPlayer(p, e) => d = e
<1>1. N \in Nat /\ N > 1 /\ p \in Nat /\ p < N /\ q \in Nat /\ q < N /\ N - d \in 0 .. N
  BY PartyAssumption DEF Party
<1>2. q = GetPlayer(p, d) <=> p = GetPlayer(q, N - d)
  BY <1>1, Around
<1>3. ASSUME NEW e \in 0 .. N, d > 0, e > 0, GetPlayer(p, d) = GetPlayer(p, e)
      PROVE  d = e
  BY <1>1, <1>3, Around
<1>4. QED BY <1>2, <1>3

\* No party is None.
LEMMA NoParty == None \notin Party
  BY PartyAssumption DEF None, Party

\* An exchange has one partner, if any, and that one has the same view.
LEMMA Partners ==
    ASSUME NEW p \in Party, NEW a \in Operation, a.kind = "exchange"
    PROVE  \/ /\ Parts(p, a) = <<>>
              /\ \A q \in Party \ {p} : <<p, q>> \notin a.channels
           \/ \E q \in Party \ {p} :
                 <<p, q>> \in a.channels /\ Parts(p, a) = << <<Transfer(q, q)>> >>
<1> DEFINE partners == {q \in Party \ {p} : <<p, q>> \in a.channels}
<1>1. Parts(p, a) = WithPartner(p, a.channels)
  BY DEF Parts
<1>2. CASE partners = {}
  BY <1>1, <1>2 DEF WithPartner
<1>3. CASE partners # {}
  <2> DEFINE q == CHOOSE r \in partners : TRUE
  <2>1. q \in partners
    BY <1>3
  <2>2. WithPartner(p, a.channels) = << <<Transfer(q, q)>> >>
    BY <1>3 DEF WithPartner
  <2>3. QED BY <2>1, <2>2, <1>1
<1>4. QED BY <1>2, <1>3

\* The parts of an operation, by its kind.
LEMMA PartsAre ==
    ASSUME NEW p \in Party, NEW a \in Operation
    PROVE  /\ a.kind = "pass" =>
                 Parts(p, a) = << <<Transfer(GetPlayer(p, a.offset),
                                             GetPlayer(p, N - a.offset))>> >>
           /\ a.kind = "all" => Parts(p, a) = ByOffset(p, a.channels)
           /\ a.kind = "broadcast" => Parts(p, a) = AtOnce(p)
           /\ a.kind \in {"exchange", "pass", "all", "broadcast"}
           /\ a.offset \in 0 .. N - 1
<1>1. a.kind \in {"exchange", "pass", "all", "broadcast"} /\ a.offset \in 0 .. N - 1
  BY DEF Operation
<1>2. QED BY <1>1 DEF Parts

\* Parts are few, and none is empty.
LEMMA PartsFew ==
    ASSUME NEW p \in Party, NEW a \in Operation
    PROVE  /\ Len(Parts(p, a)) \in 0 .. N - 1
           /\ DOMAIN Parts(p, a) = 1 .. Len(Parts(p, a))
           /\ \A g \in 1 .. Len(Parts(p, a)) :
                 /\ Len(Parts(p, a)[g]) \in 1 .. N - 1
                 /\ DOMAIN Parts(p, a)[g] = 1 .. Len(Parts(p, a)[g])
                 /\ \A j \in 1 .. Len(Parts(p, a)[g]) :
                       /\ Parts(p, a)[g][j].to \in Party \cup {None}
                       /\ Parts(p, a)[g][j].from \in Party \cup {None}
<1>1. N \in Nat /\ N > 1
  BY PartyAssumption
<1> DEFINE P == Parts(p, a)
           Few == /\ Len(P) \in 0 .. N - 1
                  /\ DOMAIN P = 1 .. Len(P)
                  /\ \A g \in 1 .. Len(P) :
                        /\ Len(P[g]) \in 1 .. N - 1
                        /\ DOMAIN P[g] = 1 .. Len(P[g])
                        /\ \A j \in 1 .. Len(P[g]) : /\ P[g][j].to \in Party \cup {None}
                                                     /\ P[g][j].from \in Party \cup {None}
<1>2. ASSUME NEW t, t.to \in Party \cup {None}, t.from \in Party \cup {None},
             P = << <<t>> >>
      PROVE  Few
  <2>1. Len(P) = 1 /\ DOMAIN P = 1 .. 1 /\ P[1] = <<t>>
    BY <1>2
  <2>2. Len(<<t>>) = 1 /\ DOMAIN <<t>> = 1 .. 1 /\ <<t>>[1] = t
    OBVIOUS
  <2>3. QED BY <1>1, <2>1, <2>2, <1>2
<1>3. CASE a.kind = "exchange"
  <2>1. CASE P = <<>>
    BY <1>1, <2>1
  <2>2. ASSUME NEW q \in Party, P = << <<Transfer(q, q)>> >>
        PROVE  P = << <<[to |-> q, from |-> q]>> >>
    BY <2>2 DEF Transfer
  <2>3. ASSUME NEW q \in Party, P = << <<[to |-> q, from |-> q]>> >>
        PROVE  Few
    BY <2>3, <1>2
  <2>4. QED BY <1>3, <2>1, <2>2, <2>3, Partners
<1>4. CASE a.kind = "pass"
  <2>1. N - a.offset \in 0 .. N /\ a.offset \in 0 .. N
    BY <1>1, PartsAre
  <2>2. GetPlayer(p, a.offset) \in Party /\ GetPlayer(p, N - a.offset) \in Party
    BY <2>1, Around
  <2>3. P = << <<[to |-> GetPlayer(p, a.offset), from |-> GetPlayer(p, N - a.offset)]>> >>
    BY <1>4, PartsAre DEF Transfer
  <2>4. QED BY <2>2, <2>3, <1>2
<1>5. ASSUME NEW d \in 1 .. N - 1
      PROVE  GetPlayer(p, d) \in Party /\ GetPlayer(p, N - d) \in Party
  BY <1>1, Around
<1>6. CASE a.kind = "all"
  <2>1. Parts(p, a) = ByOffset(p, a.channels)
    BY <1>6, PartsAre
  <2>2. Len(Parts(p, a)) = N - 1 /\ DOMAIN Parts(p, a) = 1 .. N - 1
    BY <1>1, <2>1 DEF ByOffset
  <2>3. ASSUME NEW g \in 1 .. N - 1
        PROVE  /\ Len(Parts(p, a)[g]) = 1 /\ DOMAIN Parts(p, a)[g] = 1 .. 1
               /\ Parts(p, a)[g][1].to \in Party \cup {None}
               /\ Parts(p, a)[g][1].from \in Party \cup {None}
    BY <2>1, <1>5 DEF ByOffset, Transfer
  <2>4. Len(P) \in 0 .. N - 1 /\ 1 \in 1 .. N - 1
    BY <1>1, <2>2
  <2>5. ASSUME NEW g \in 1 .. Len(P)
        PROVE  /\ Len(P[g]) \in 1 .. N - 1
               /\ DOMAIN P[g] = 1 .. Len(P[g])
               /\ \A j \in 1 .. Len(P[g]) : /\ P[g][j].to \in Party \cup {None}
                                          /\ P[g][j].from \in Party \cup {None}
    <3>1. g \in 1 .. N - 1
      BY <2>2
    <3>2. Len(P[g]) = 1 /\ DOMAIN P[g] = 1 .. 1
      BY <3>1, <2>3
    <3>3. /\ P[g][1].to \in Party \cup {None}
          /\ P[g][1].from \in Party \cup {None}
      BY <3>1, <2>3
    <3>4. QED BY <3>2, <3>3, <2>4
  <2>6. QED BY <2>2, <2>4, <2>5
<1>7. CASE a.kind = "broadcast"
  <2>1. Parts(p, a) = AtOnce(p)
    BY <1>7, PartsAre
  <2>2. /\ Len(Parts(p, a)) = 1 /\ DOMAIN Parts(p, a) = 1 .. 1
        /\ Len(Parts(p, a)[1]) = N - 1 /\ DOMAIN Parts(p, a)[1] = 1 .. N - 1
    BY <1>1, <2>1 DEF AtOnce
  <2>3. ASSUME NEW j \in 1 .. N - 1
        PROVE  /\ Parts(p, a)[1][j].to \in Party \cup {None}
               /\ Parts(p, a)[1][j].from \in Party \cup {None}
    BY <2>1, <1>5 DEF AtOnce, Transfer
  <2>4. QED BY <1>1, <2>2, <2>3
<1>8. QED BY <1>3, <1>4, <1>6, <1>7, PartsAre

\* An operation sends to nobody twice, and receives from nobody twice.
LEMMA OncePerPeer ==
    ASSUME NEW p \in Party, NEW a \in Operation, NEW q \in Party
    PROVE  \A g, h \in 1 .. Len(Parts(p, a)) :
           \A j \in 1 .. Len(Parts(p, a)[g]), k \in 1 .. Len(Parts(p, a)[h]) :
              /\ Parts(p, a)[g][j].to = q /\ Parts(p, a)[h][k].to = q => g = h /\ j = k
              /\ Parts(p, a)[g][j].from = q /\ Parts(p, a)[h][k].from = q => g = h /\ j = k
<1> SUFFICES ASSUME NEW g \in 1 .. Len(Parts(p, a)), NEW h \in 1 .. Len(Parts(p, a)),
                    NEW j \in 1 .. Len(Parts(p, a)[g]), NEW k \in 1 .. Len(Parts(p, a)[h])
             PROVE  /\ Parts(p, a)[g][j].to = q /\ Parts(p, a)[h][k].to = q => g = h /\ j = k
                    /\ Parts(p, a)[g][j].from = q /\ Parts(p, a)[h][k].from = q
                          => g = h /\ j = k
  OBVIOUS
<1>1. N \in Nat /\ N > 1 /\ q # None
  BY PartyAssumption, NoParty
<1>2. CASE a.kind = "exchange"
  <2>1. Parts(p, a) = <<>> \/ \E t : Parts(p, a) = << <<t>> >>
    BY <1>2, Partners
  <2>2. CASE Parts(p, a) = <<>>
    BY <2>2
  <2>3. ASSUME NEW t, Parts(p, a) = << <<t>> >>
        PROVE  g = 1 /\ h = 1 /\ j = 1 /\ k = 1
    <3>1. g = 1 /\ h = 1
      BY <2>3
    <3>2. Parts(p, a)[1] = <<t>> /\ Len(<<t>>) = 1
      BY <2>3
    <3>3. QED BY <3>1, <3>2
  <2>4. QED BY <2>1, <2>2, <2>3
<1>3. CASE a.kind = "pass"
  BY <1>3, PartsAre DEF Transfer
<1>4. ASSUME NEW d \in 1 .. N - 1, NEW e \in 1 .. N - 1
      PROVE  /\ GetPlayer(p, d) = GetPlayer(p, e) => d = e
             /\ GetPlayer(p, N - d) = GetPlayer(p, N - e) => d = e
  <2>1. d \in 0 .. N /\ e \in 0 .. N /\ N - d \in 0 .. N /\ N - e \in 0 .. N
    BY <1>1
  <2>2. QED BY <1>1, <2>1, AroundBack
<1>5. CASE a.kind = "all"
  <2>1. Parts(p, a) = ByOffset(p, a.channels)
    BY <1>5, PartsAre
  <2>2. Len(Parts(p, a)) = N - 1
    BY <1>1, <2>1 DEF ByOffset
  <2>3. ASSUME NEW d \in 1 .. N - 1
        PROVE  /\ Len(Parts(p, a)[d]) = 1
               /\ Parts(p, a)[d][1].to = q => GetPlayer(p, d) = q
               /\ Parts(p, a)[d][1].from = q => GetPlayer(p, N - d) = q
    BY <2>1, <1>1 DEF ByOffset, Transfer
  <2>4. g \in 1 .. N - 1 /\ h \in 1 .. N - 1
    BY <2>2
  <2>5. Len(Parts(p, a)[g]) = 1 /\ Len(Parts(p, a)[h]) = 1
    BY <2>3, <2>4
  <2>6. j = 1 /\ k = 1
    BY <2>5
  <2>7. QED BY <2>3, <2>4, <2>6, <1>4
<1>6. CASE a.kind = "broadcast"
  <2>1. Parts(p, a) = AtOnce(p)
    BY <1>6, PartsAre
  <2>2. Len(Parts(p, a)) = 1 /\ Len(Parts(p, a)[1]) = N - 1
    BY <1>1, <2>1 DEF AtOnce
  <2>3. \A d \in 1 .. N - 1 : /\ Parts(p, a)[1][d].to = GetPlayer(p, d)
                              /\ Parts(p, a)[1][d].from = GetPlayer(p, N - d)
    BY <2>1 DEF AtOnce, Transfer
  <2>4. g = 1 /\ h = 1 /\ j \in 1 .. N - 1 /\ k \in 1 .. N - 1
    BY <2>2
  <2>5. QED BY <2>3, <2>4, <1>4
<1>7. QED BY <1>2, <1>3, <1>5, <1>6, PartsAre

\* Who is sent to receives.
LEMMA SentIsTaken ==
    ASSUME NEW p \in Party, NEW q \in Party, NEW a \in Operation, Usable(a)
    PROVE  Sends(p, q, a) <=> Takes(q, p, a)
<1>1. N \in Nat /\ N > 1 /\ q # None /\ p # None
  BY PartyAssumption, NoParty
<1>2. CASE a.kind = "exchange"
  <2>1. \A c \in a.channels :
           /\ <<c[2], c[1]>> \in a.channels
           /\ \A d \in a.channels : c[1] = d[1] /\ c[2] # c[1] /\ d[2] # d[1] => c[2] = d[2]
    BY <1>2 DEF Usable
  <2>2. ASSUME NEW r \in Party, NEW s \in Party
        PROVE  /\ Sends(r, s, a) <=> r # s /\ <<r, s>> \in a.channels
               /\ Takes(r, s, a) <=> r # s /\ <<r, s>> \in a.channels
    <3>1. CASE Parts(r, a) = <<>> /\ \A t \in Party \ {r} : <<r, t>> \notin a.channels
      BY <3>1 DEF Sends, Takes
    <3>2. CASE \E t \in Party \ {r} :
                  <<r, t>> \in a.channels /\ Parts(r, a) = << <<Transfer(t, t)>> >>
      <4>1. PICK t \in Party \ {r} :
                    <<r, t>> \in a.channels /\ Parts(r, a) = << <<Transfer(t, t)>> >>
        BY <3>2
      <4>2. (Sends(r, s, a) <=> s = t) /\ (Takes(r, s, a) <=> s = t)
        BY <4>1 DEF Sends, Takes, SendsIn, TakesIn, Transfer
      <4>3. r # s /\ <<r, s>> \in a.channels => s = t
        BY <4>1, <2>1
      <4>4. QED BY <4>1, <4>2, <4>3
    <3>3. QED BY <1>2, <3>1, <3>2, Partners
  <2>3. <<p, q>> \in a.channels <=> <<q, p>> \in a.channels
    BY <2>1
  <2>4. QED BY <2>2, <2>3
<1>3. CASE a.kind = "pass"
  <2>1. a.offset \in 0 .. N /\ N - a.offset \in 0 .. N
    BY <1>1, PartsAre
  <2>2. Sends(p, q, a) <=> q = GetPlayer(p, a.offset)
    BY <1>3, PartsAre DEF Sends, SendsIn, Transfer
  <2>3. Takes(q, p, a) <=> p = GetPlayer(q, N - a.offset)
    BY <1>3, PartsAre DEF Takes, TakesIn, Transfer
  <2>4. QED BY <2>1, <2>2, <2>3, AroundBack
<1>4. \A d \in 1 .. N - 1 : q = GetPlayer(p, d) <=> p = GetPlayer(q, N - d)
  BY <1>1, AroundBack
<1>5. CASE a.kind = "all"
  <2>1. ASSUME NEW r \in Party
        PROVE  /\ Len(Parts(r, a)) = N - 1
               /\ \A d \in 1 .. N - 1 :
                    /\ Len(Parts(r, a)[d]) = 1
                    /\ Parts(r, a)[d][1].to =
                          IF <<r, GetPlayer(r, d)>> \in a.channels THEN GetPlayer(r, d) ELSE None
                    /\ Parts(r, a)[d][1].from =
                          IF <<GetPlayer(r, N - d), r>> \in a.channels
                          THEN GetPlayer(r, N - d) ELSE None
    BY <1>1, <1>5, PartsAre DEF ByOffset, Transfer
  <2>2. ASSUME NEW r \in Party, NEW s \in Party
        PROVE  /\ Sends(r, s, a) <=> \E d \in 1 .. N - 1 : Parts(r, a)[d][1].to = s
               /\ Takes(r, s, a) <=> \E d \in 1 .. N - 1 : Parts(r, a)[d][1].from = s
    <3>1. Len(Parts(r, a)) = N - 1 /\ \A d \in 1 .. N - 1 : Len(Parts(r, a)[d]) = 1
      BY <2>1
    <3>2. \A d \in 1 .. N - 1 : /\ SendsIn(r, s, a, d) <=> Parts(r, a)[d][1].to = s
                                /\ TakesIn(r, s, a, d) <=> Parts(r, a)[d][1].from = s
      BY <3>1 DEF SendsIn, TakesIn
    <3>3. QED BY <3>1, <3>2 DEF Sends, Takes
  <2>3. ASSUME NEW d \in 1 .. N - 1
        PROVE  /\ Parts(p, a)[d][1].to = q
                     <=> <<p, q>> \in a.channels /\ q = GetPlayer(p, d)
               /\ Parts(q, a)[d][1].from = p
                     <=> <<p, q>> \in a.channels /\ p = GetPlayer(q, N - d)
    <3>1. Parts(p, a)[d][1].to =
             IF <<p, GetPlayer(p, d)>> \in a.channels THEN GetPlayer(p, d) ELSE None
      BY <2>1
    <3>2. Parts(q, a)[d][1].from =
             IF <<GetPlayer(q, N - d), q>> \in a.channels THEN GetPlayer(q, N - d) ELSE None
      BY <2>1
    <3>3. QED BY <3>1, <3>2, <1>1
  <2>4. Sends(p, q, a) <=>
           \E d \in 1 .. N - 1 : <<p, q>> \in a.channels /\ q = GetPlayer(p, d)
    <3>1. Sends(p, q, a) <=> \E d \in 1 .. N - 1 : Parts(p, a)[d][1].to = q
      BY <2>2
    <3>2. QED BY <3>1, <2>3
  <2>5. Takes(q, p, a) <=>
           \E d \in 1 .. N - 1 : <<p, q>> \in a.channels /\ p = GetPlayer(q, N - d)
    <3>1. Takes(q, p, a) <=> \E d \in 1 .. N - 1 : Parts(q, a)[d][1].from = p
      BY <2>2
    <3>2. QED BY <3>1, <2>3
  <2>6. QED BY <2>4, <2>5, <1>4
<1>6. CASE a.kind = "broadcast"
  <2>1. ASSUME NEW r \in Party
        PROVE  /\ Len(Parts(r, a)) = 1 /\ Len(Parts(r, a)[1]) = N - 1
               /\ \A d \in 1 .. N - 1 : /\ Parts(r, a)[1][d].to = GetPlayer(r, d)
                                        /\ Parts(r, a)[1][d].from = GetPlayer(r, N - d)
    BY <1>1, <1>6, PartsAre DEF AtOnce, Transfer
  <2>2. Sends(p, q, a) <=> \E d \in 1 .. N - 1 : q = GetPlayer(p, d)
    BY <2>1 DEF Sends, SendsIn
  <2>3. Takes(q, p, a) <=> \E d \in 1 .. N - 1 : p = GetPlayer(q, N - d)
    BY <2>1 DEF Takes, TakesIn
  <2>4. QED BY <2>2, <2>3, <1>4
<1>7. QED BY <1>2, <1>3, <1>5, <1>6, PartsAre

-----------------------------------------------------------------------------
(* Items by number.                                                        *)

\* Operations of a script are what they should be.
LEMMA ScriptFacts ==
    ASSUME NEW s \in Scripts
    PROVE  /\ Len(s) \in Nat /\ DOMAIN s = 1 .. Len(s)
           /\ \A o \in 1 .. Len(s) : /\ s[o] \in Operation /\ Usable(s[o])
                                     /\ \A p \in Party : s[o].length[p] \in Nat
           /\ \A o \in 1 .. Len(s), p \in Party, q \in Party : Size(s, p, q, o) \in Nat
<1>1. s \in Seq(Operation)
  BY ScriptAssumption
<1>2. Len(s) \in Nat /\ DOMAIN s = 1 .. Len(s) /\ \A o \in 1 .. Len(s) : s[o] \in Operation
  BY <1>1
<1>3. \A o \in 1 .. Len(s) : Usable(s[o])
  BY <1>2, ScriptAssumption
<1>4. \A o \in 1 .. Len(s) : \A p \in Party : s[o].length[p] \in Nat
  BY <1>2 DEF Operation
<1>5. \A o \in 1 .. Len(s), p \in Party, q \in Party : Size(s, p, q, o) \in Nat
  BY <1>4 DEF Size
<1>6. QED BY <1>2, <1>3, <1>4, <1>5

\* The items of an operation, and those of all operations before one.
LEMMA ItemsCounted ==
    ASSUME NEW s \in Scripts, NEW p \in Party, NEW q \in Party, NEW o \in 1 .. Len(s)
    PROVE  IsFiniteSet(Items(s, p, q, o)) /\ Cardinality(Items(s, p, q, o)) = Size(s, p, q, o)
<1>1. Size(s, p, q, o) \in Nat
  BY ScriptFacts
<1>2. IsFiniteSet({o}) /\ Cardinality({o}) = 1
  BY FS_Singleton
<1>3. /\ IsFiniteSet(1 .. Size(s, p, q, o))
      /\ Cardinality(1 .. Size(s, p, q, o)) = Size(s, p, q, o)
  BY <1>1, FS_Interval
<1>4. /\ IsFiniteSet({o} \X (1 .. Size(s, p, q, o)))
      /\ Cardinality({o} \X (1 .. Size(s, p, q, o))) = 1 * Size(s, p, q, o)
  BY <1>2, <1>3, FS_Product, ZenonT(40)
<1>5. QED BY <1>1, <1>4 DEF Items

\* The items before an operation are finitely many.
LEMMA BeforeFinite ==
    ASSUME NEW s \in Scripts, NEW p \in Party, NEW q \in Party, NEW o \in 1 .. Len(s) + 1
    PROVE  IsFiniteSet(UNION {Items(s, p, q, a) : a \in 1 .. o - 1})
<1> DEFINE M == {Items(s, p, q, a) : a \in 1 .. o - 1}
           f == [a \in 1 .. o - 1 |-> Items(s, p, q, a)]
<1>1. Len(s) \in Nat /\ 1 .. o - 1 \subseteq 1 .. Len(s) /\ o - 1 \in Int
  BY ScriptFacts
<1>2. IsFiniteSet(1 .. o - 1)
  BY <1>1, FS_Interval
<1>3. f \in Surjection(1 .. o - 1, M)
  BY DEF Surjection
<1>4. IsFiniteSet(M)
  BY <1>2, <1>3, FS_Surjection
<1>5. \A T \in M : IsFiniteSet(T)
  BY <1>1, ItemsCounted
<1>6. QED BY <1>4, <1>5, FS_UNION

\* Numbers grow from operation to operation.
LEMMA BeforeGrows ==
    ASSUME NEW s \in Scripts, NEW p \in Party, NEW q \in Party
    PROVE  /\ \A o \in 1 .. Len(s) + 1 : Before(s, p, q, o) \in Nat
           /\ Before(s, p, q, 1) = 0
           /\ \A o \in 1 .. Len(s) :
                 Before(s, p, q, o + 1) = Before(s, p, q, o) + Size(s, p, q, o)
           /\ \A a \in 1 .. Len(s) + 1 : \A b \in a .. Len(s) + 1 :
                 Before(s, p, q, a) <= Before(s, p, q, b)
<1> DEFINE All(o) == UNION {Items(s, p, q, a) : a \in 1 .. o - 1}
<1>1. Len(s) \in Nat
  BY ScriptFacts
<1>2. ASSUME NEW o \in 1 .. Len(s) + 1
      PROVE  IsFiniteSet(All(o)) /\ Before(s, p, q, o) = Cardinality(All(o))
  BY BeforeFinite DEF Before
<1>3. \A o \in 1 .. Len(s) + 1 : Before(s, p, q, o) \in Nat
  BY <1>2, FS_CardinalityType
<1>4. Before(s, p, q, 1) = 0
  <2>1. 1 .. 1 - 1 = {}
    OBVIOUS
  <2>2. All(1) = {}
    BY <2>1
  <2>3. QED BY <1>1, <1>2, <2>2, FS_EmptySet
<1>5. ASSUME NEW o \in 1 .. Len(s)
      PROVE  Before(s, p, q, o + 1) = Before(s, p, q, o) + Size(s, p, q, o)
  <2>1. o \in 1 .. Len(s) + 1 /\ o + 1 \in 1 .. Len(s) + 1 /\ 1 .. (o + 1) - 1 = 1 .. o
    BY <1>1
  <2>2. All(o + 1) = All(o) \cup Items(s, p, q, o)
    <3>1. 1 .. o = (1 .. o - 1) \cup {o}
      OBVIOUS
    <3>2. {Items(s, p, q, a) : a \in 1 .. (o + 1) - 1}
            = {Items(s, p, q, a) : a \in 1 .. o - 1} \cup {Items(s, p, q, o)}
      BY <3>1, <2>1, Zenon
    <3>3. QED BY <3>2
  <2>3. All(o) \cap Items(s, p, q, o) = {}
    <3>1. ASSUME NEW a \in 1 .. o - 1, NEW x \in Items(s, p, q, a)
          PROVE  x \notin Items(s, p, q, o)
      <4>1. x[1] = a /\ a # o
        BY DEF Items
      <4>2. \A y \in Items(s, p, q, o) : y[1] = o
        BY DEF Items
      <4>3. QED BY <4>1, <4>2
    <3>2. QED BY <3>1
  <2>4. /\ Cardinality(All(o) \cup Items(s, p, q, o))
           = Cardinality(All(o)) + Cardinality(Items(s, p, q, o))
             - Cardinality(All(o) \cap Items(s, p, q, o))
    BY <1>2, <2>1, ItemsCounted, FS_Union
  <2>5. Cardinality(All(o) \cap Items(s, p, q, o)) = 0
    BY <2>3, FS_EmptySet
  <2>6. Cardinality(All(o)) \in Nat /\ Size(s, p, q, o) \in Nat
    BY <1>2, <2>1, FS_CardinalityType, ScriptFacts
  <2>7. /\ Before(s, p, q, o) = Cardinality(All(o))
        /\ Before(s, p, q, o + 1) = Cardinality(All(o) \cup Items(s, p, q, o))
    BY <1>2, <2>1, <2>2
  <2>8. Cardinality(Items(s, p, q, o)) = Size(s, p, q, o)
    BY ItemsCounted
  <2> HIDE DEF All
  <2>9. QED BY <2>4, <2>5, <2>6, <2>7, <2>8
<1>6. ASSUME NEW a \in 1 .. Len(s) + 1, NEW b \in a .. Len(s) + 1
      PROVE  Before(s, p, q, a) <= Before(s, p, q, b)
  <2>1. b \in 1 .. Len(s) + 1 /\ 1 .. a - 1 \subseteq 1 .. b - 1
    BY <1>1
  <2>2. All(a) \subseteq All(b)
    BY <2>1
  <2>3. /\ IsFiniteSet(All(b))
        /\ Before(s, p, q, a) = Cardinality(All(a)) /\ Before(s, p, q, b) = Cardinality(All(b))
    BY <1>2, <2>1
  <2>4. Cardinality(All(a)) <= Cardinality(All(b))
    BY <2>2, <2>3, FS_Subset
  <2>5. QED BY <2>3, <2>4
<1>7. QED BY <1>3, <1>4, <1>5, <1>6

\* A number is of one item only.
LEMMA OneNumber ==
    ASSUME NEW s \in Scripts, NEW p \in Party, NEW q \in Party,
           NEW o \in 1 .. Len(s), NEW n \in 1 .. Size(s, p, q, o),
           NEW a \in 1 .. Len(s), NEW m \in 1 .. Size(s, p, q, a),
           Before(s, p, q, o) + n = Before(s, p, q, a) + m
    PROVE  o = a /\ n = m
<1>1. ASSUME NEW x \in 1 .. Len(s), NEW y \in 1 .. Len(s), x < y
      PROVE  Before(s, p, q, x) + Size(s, p, q, x) <= Before(s, p, q, y)
  <2>1. Len(s) \in Nat /\ y \in x + 1 .. Len(s) + 1 /\ x + 1 \in 1 .. Len(s) + 1
    BY <1>1, ScriptFacts
  <2>2. Before(s, p, q, x + 1) <= Before(s, p, q, y)
    BY <2>1, BeforeGrows
  <2>3. QED BY <2>2, BeforeGrows
<1>2. Len(s) \in Nat /\ o \in 1 .. Len(s) + 1 /\ a \in 1 .. Len(s) + 1
  BY ScriptFacts
<1>3. /\ Size(s, p, q, o) \in Nat /\ Size(s, p, q, a) \in Nat
      /\ Before(s, p, q, o) \in Nat /\ Before(s, p, q, a) \in Nat
  BY <1>2, ScriptFacts, BeforeGrows
<1>4. ~(o < a)
  BY <1>1, <1>3
<1>5. ~(a < o)
  BY <1>1, <1>3
<1>6. QED BY <1>3, <1>4, <1>5

\* The items of a message are items.
LEMMA NthTyped ==
    ASSUME NEW s \in Scripts, NEW p \in Party, NEW o \in 1 .. Len(s), NEW n \in Nat \ {0}
    PROVE  Nth(s, p, o, n) \in Item
<1>1. s[o].length[p] \in Nat /\ o \in Nat /\ n - 1 \in Nat
  BY ScriptFacts
<1>2. QED BY <1>1 DEF Nth, Item

\* What is first in a wire when something of an operation is to come.
LEMMA NextOnWire ==
    ASSUME NEW s \in Scripts, NEW p \in Party, NEW q \in Party, NEW c \in Seq(Item),
           NEW from \in Nat, NEW to \in Nat, Holds(s, p, q, c, from, to),
           NEW o \in 1 .. Len(s), NEW r \in Nat, from = Before(s, p, q, o) + r,
           NEW k \in 1 .. Len(c), r + k <= Size(s, p, q, o)
    PROVE  c[k] = Nth(s, p, o, r + k)
<1>1. PICK a \in 1 .. Len(s) : \E n \in 1 .. Size(s, p, q, a) :
              from + k = Before(s, p, q, a) + n /\ c[k] = Nth(s, p, a, n)
  BY DEF Holds
<1>2. PICK n \in 1 .. Size(s, p, q, a) :
              from + k = Before(s, p, q, a) + n /\ c[k] = Nth(s, p, a, n)
  BY <1>1
<1>3. Size(s, p, q, o) \in Nat
  BY ScriptFacts
<1>4. r + k \in 1 .. Size(s, p, q, o)
  BY <1>3
<1>5. Before(s, p, q, o) \in Nat
  <2>1. o \in 1 .. Len(s) + 1
    BY ScriptFacts
  <2>2. QED BY <2>1, BeforeGrows
<1>6. Before(s, p, q, o) + (r + k) = Before(s, p, q, a) + n
  BY <1>2, <1>5
<1>7. o = a /\ r + k = n
  BY <1>4, <1>6, OneNumber
<1>8. QED BY <1>2, <1>7

\* Items are sent in their order.
LEMMA SendKeeps ==
    ASSUME NEW s \in Scripts, NEW p \in Party, NEW q \in Party,
           NEW c \in Seq(Item), NEW d \in Seq(Item),
           NEW from \in Nat, NEW mid \in Nat, NEW to \in Nat,
           Holds(s, p, q, c, from, mid), Holds(s, p, q, d, mid, to)
    PROVE  Holds(s, p, q, c \o d, from, to) /\ c \o d \in Seq(Item)
<1>1. /\ c \o d \in Seq(Item)
      /\ Len(c \o d) = Len(c) + Len(d)
      /\ \A i \in 1 .. Len(c) + Len(d) :
            (c \o d)[i] = IF i <= Len(c) THEN c[i] ELSE d[i - Len(c)]
  BY ConcatProperties
<1>2. Len(c) = mid - from /\ Len(d) = to - mid /\ Len(c) \in Nat /\ Len(d) \in Nat
  BY DEF Holds
<1>3. ASSUME NEW k \in Nat, 0 < k, k <= Len(c) + Len(d)
      PROVE  \E a \in 1 .. Len(s) : \E n \in 1 .. Size(s, p, q, a) :
                from + k = Before(s, p, q, a) + n /\ (c \o d)[k] = Nth(s, p, a, n)
  <2>1. CASE k <= Len(c)
    <3>1. k \in 1 .. Len(c) /\ (c \o d)[k] = c[k]
      BY <1>1, <1>2, <1>3, <2>1
    <3>2. QED BY <3>1 DEF Holds
  <2>2. CASE Len(c) < k
    <3>1. k - Len(c) \in 1 .. Len(d) /\ mid + (k - Len(c)) = from + k
      BY <1>2, <1>3, <2>2
    <3>2. ~(k <= Len(c)) /\ k \in 1 .. Len(c) + Len(d)
      BY <1>2, <1>3, <2>2
    <3>3. (c \o d)[k] = d[k - Len(c)]
      BY <1>1, <3>2
    <3>4. \E a \in 1 .. Len(s) : \E n \in 1 .. Size(s, p, q, a) :
             /\ mid + (k - Len(c)) = Before(s, p, q, a) + n
             /\ d[k - Len(c)] = Nth(s, p, a, n)
      BY <3>1 DEF Holds
    <3>5. QED BY <3>1, <3>3, <3>4
  <2>3. k <= Len(c) \/ Len(c) < k
    BY <1>2
  <2>4. QED BY <2>1, <2>2, <2>3
<1>4. Len(c \o d) = to - from
  BY <1>1, <1>2
<1>5. \A k \in 1 .. Len(c \o d) : k \in Nat /\ 0 < k /\ k <= Len(c) + Len(d)
  BY <1>1, <1>2
<1>6. QED BY <1>1, <1>3, <1>4, <1>5 DEF Holds

\* A piece of a message.
LEMMA Piece ==
    ASSUME NEW s \in Scripts, NEW p \in Party, NEW q \in Party,
           NEW o \in 1 .. Len(s), NEW r \in Nat, NEW d \in Seq(Item),
           r + Len(d) <= Size(s, p, q, o),
           \A i \in 1 .. Len(d) : d[i] = Nth(s, p, o, r + i)
    PROVE  Holds(s, p, q, d, Before(s, p, q, o) + r, Before(s, p, q, o) + r + Len(d))
<1>1. Len(d) \in Nat /\ Before(s, p, q, o) \in Nat /\ Size(s, p, q, o) \in Nat
  BY ScriptFacts, BeforeGrows
<1>2. ASSUME NEW k \in 1 .. Len(d)
      PROVE  /\ r + k \in 1 .. Size(s, p, q, o)
             /\ (Before(s, p, q, o) + r) + k = Before(s, p, q, o) + (r + k)
  BY <1>1
<1>3. Len(d) = (Before(s, p, q, o) + r + Len(d)) - (Before(s, p, q, o) + r)
  BY <1>1
<1>4. QED BY <1>2, <1>3 DEF Holds

\* Items are received in their order.
LEMMA ReceiveKeeps ==
    ASSUME NEW s \in Scripts, NEW p \in Party, NEW q \in Party, NEW c \in Seq(Item),
           NEW from \in Nat, NEW to \in Nat, Holds(s, p, q, c, from, to),
           NEW k \in 0 .. Len(c)
    PROVE  /\ Holds(s, p, q, SubSeq(c, k + 1, Len(c)), from + k, to)
           /\ SubSeq(c, k + 1, Len(c)) \in Seq(Item)
           /\ Len(SubSeq(c, k + 1, Len(c))) = Len(c) - k
<1> DEFINE d == SubSeq(c, k + 1, Len(c))
<1>1. Len(c) \in Nat /\ k \in Nat /\ k <= Len(c) /\ Len(c) = to - from
  BY DEF Holds
<1>2. \A i \in k + 1 .. Len(c) : c[i] \in Item
  BY <1>1
<1>3. /\ d \in Seq(Item)
      /\ Len(d) = IF k + 1 <= Len(c) THEN Len(c) - (k + 1) + 1 ELSE 0
      /\ \A i \in 1 .. Len(c) - (k + 1) + 1 : d[i] = c[k + 1 + i - 1]
  BY <1>1, <1>2, SubSeqProperties
<1>4. Len(d) = Len(c) - k
  BY <1>1, <1>3
<1>5. ASSUME NEW i \in 1 .. Len(d)
      PROVE  \E a \in 1 .. Len(s) : \E n \in 1 .. Size(s, p, q, a) :
                (from + k) + i = Before(s, p, q, a) + n /\ d[i] = Nth(s, p, a, n)
  <2>1. k + i \in 1 .. Len(c) /\ d[i] = c[k + i]
    BY <1>1, <1>3, <1>4
  <2>2. PICK a \in 1 .. Len(s) : \E n \in 1 .. Size(s, p, q, a) :
                from + (k + i) = Before(s, p, q, a) + n /\ c[k + i] = Nth(s, p, a, n)
    BY <2>1 DEF Holds
  <2>3. from + (k + i) = (from + k) + i
    BY <1>1, <1>4
  <2>4. QED BY <2>1, <2>2, <2>3
<1>6. Len(d) = to - (from + k)
  BY <1>1, <1>4
<1>7. Holds(s, p, q, d, from + k, to)
  BY <1>5, <1>6 DEF Holds
<1>8. QED BY <1>3, <1>4, <1>7

-----------------------------------------------------------------------------
(* How far a party is.                                                     *)

\* Exchangers stand for the transfers of their part.
LEMMA Standing ==
    ASSUME NEW s \in Scripts, NEW o, NEW g, NEW x, NEW p \in Party,
           Local(s, o, g, x, p), x # <<>>
    PROVE  /\ o \in 1 .. Len(s) /\ s[o] \in Operation /\ Usable(s[o])
           /\ g \in 1 .. Len(Parts(p, s[o])) /\ Len(x) <= Len(Parts(p, s[o])[g])
           /\ Len(x) \in Nat /\ Len(Parts(p, s[o])[g]) \in 1 .. N - 1
           /\ \A j \in 1 .. Len(x) : /\ j \in 1 .. Len(Parts(p, s[o])[g])
                                     /\ x[j] \in Exchangers
                                     /\ x[j].to = Parts(p, s[o])[g][j].to
                                     /\ x[j].from = Parts(p, s[o])[g][j].from
<1>1. /\ o \in 1 .. Len(s) + 1 /\ o <= Len(s) /\ g \in Nat \ {0} /\ x \in Seq(Exchangers)
      /\ g <= Len(Parts(p, s[o])) /\ Len(x) <= Len(Parts(p, s[o])[g])
      /\ \A j \in 1 .. Len(x) : WellDone(s, p, o, Parts(p, s[o])[g][j], x[j])
  BY DEF Local
<1>2. o \in 1 .. Len(s) /\ s[o] \in Operation /\ Usable(s[o])
  BY <1>1, ScriptFacts
<1>3. Len(Parts(p, s[o])) \in Nat
  BY <1>2, PartsFew
<1>4. g \in 1 .. Len(Parts(p, s[o]))
  BY <1>1, <1>3
<1>5. Len(Parts(p, s[o])[g]) \in 1 .. N - 1
  BY <1>2, <1>4, PartsFew
<1>6. Len(x) \in Nat /\ \A j \in 1 .. Len(x) : x[j] \in Exchangers
  BY <1>1
<1>7. \A j \in 1 .. Len(x) : j \in 1 .. Len(Parts(p, s[o])[g])
  BY <1>1, <1>5, <1>6, PartyAssumption
<1>8. \A j \in 1 .. Len(x) : /\ x[j].to = Parts(p, s[o])[g][j].to
                             /\ x[j].from = Parts(p, s[o])[g][j].from
  BY <1>1 DEF WellDone
<1>9. QED BY <1>1, <1>2, <1>4, <1>5, <1>6, <1>7, <1>8

\* What p has sent q, when it is sending to q; and what it has got.
LEMMA Underway ==
    ASSUME NEW s \in Scripts, NEW o, NEW g, NEW x, NEW p \in Party, NEW q \in Party,
           Local(s, o, g, x, p), NEW j \in 1 .. Len(x)
    PROVE  /\ x[j].to = q =>
                 /\ SentBy(s, o, g, x, p, q) = Before(s, p, q, o) + (1 + x[j].sent)
                 /\ Sends(p, q, s[o])
                 /\ \A h \in 1 .. g - 1 : ~SendsIn(p, q, s[o], h)
                 /\ \A k \in 1 .. Len(x) : x[k].to = q => k = j
           /\ x[j].from = q =>
                 /\ GotBy(s, o, g, x, p, q) = Before(s, q, p, o) + Taken(x[j])
                 /\ Takes(p, q, s[o])
                 /\ \A h \in 1 .. g - 1 : ~TakesIn(p, q, s[o], h)
                 /\ \A k \in 1 .. Len(x) : x[k].from = q => k = j
<1> DEFINE P == Parts(p, s[o])
<1>1. x # <<>>
  BY DEF Local
<1>2. /\ o \in 1 .. Len(s) /\ s[o] \in Operation
      /\ g \in 1 .. Len(P) /\ Len(P[g]) \in 1 .. N - 1 /\ Len(x) \in Nat
      /\ \A k \in 1 .. Len(x) : /\ k \in 1 .. Len(P[g])
                                /\ x[k].to = P[g][k].to /\ x[k].from = P[g][k].from
  BY <1>1, Standing
<1>3. o <= Len(s) /\ Len(s) \in Nat /\ Len(P) \in Nat
  BY <1>2, ScriptFacts, PartsFew
<1>4. \A h \in 1 .. g - 1 : h \in 1 .. Len(P) /\ h # g
  BY <1>2, <1>3
<1>5. \A h \in 1 .. Len(P) : \A i \in 1 .. Len(P[g]), k \in 1 .. Len(P[h]) :
         /\ P[g][i].to = q /\ P[h][k].to = q => g = h /\ i = k
         /\ P[g][i].from = q /\ P[h][k].from = q => g = h /\ i = k
  <2>1. \A f, h \in 1 .. Len(P) : \A i \in 1 .. Len(P[f]), k \in 1 .. Len(P[h]) :
           /\ P[f][i].to = q /\ P[h][k].to = q => f = h /\ i = k
           /\ P[f][i].from = q /\ P[h][k].from = q => f = h /\ i = k
    BY <1>2, OncePerPeer, ZenonT(40)
  <2> HIDE DEF P
  <2>2. QED BY <1>2, <2>1
<1> HIDE DEF P
<1>6. ASSUME x[j].to = q
      PROVE  /\ \A k \in 1 .. Len(x) : x[k].to = q => k = j
             /\ \A h \in 1 .. g - 1 : ~SendsIn(p, q, s[o], h)
             /\ Sends(p, q, s[o])
             /\ SentBy(s, o, g, x, p, q) = Before(s, p, q, o) + (1 + x[j].sent)
  <2>1. j \in 1 .. Len(P[g]) /\ P[g][j].to = q
    BY <1>2, <1>6
  <2>2. ASSUME NEW k \in 1 .. Len(x), x[k].to = q
        PROVE  k = j
    <3>1. k \in 1 .. Len(P[g]) /\ P[g][k].to = q
      BY <1>2, <2>2
    <3>2. QED BY <1>2, <1>5, <2>1, <3>1
  <2>3. ASSUME NEW h \in 1 .. g - 1, SendsIn(p, q, s[o], h)
        PROVE  FALSE
    <3>1. h \in 1 .. Len(P) /\ h # g
      BY <1>4
    <3>2. PICK k \in 1 .. Len(P[h]) : P[h][k].to = q
      BY <2>3 DEF P, SendsIn
    <3>3. QED BY <1>5, <2>1, <3>1, <3>2
  <2>4. SendsIn(p, q, s[o], g)
    BY <1>2, <2>1 DEF P, SendsIn
  <2>5. (CHOOSE k \in 1 .. Len(x) : x[k].to = q) = j
    BY <2>2, <1>6
  <2>6. SentNow(p, q, s[o], g, x) = 1 + x[j].sent
    BY <2>5, <1>6 DEF SentNow
  <2>7. QED BY <1>2, <1>3, <2>2, <2>3, <2>4, <2>6 DEF P, Sends, SentBy
<1>7. ASSUME x[j].from = q
      PROVE  /\ \A k \in 1 .. Len(x) : x[k].from = q => k = j
             /\ \A h \in 1 .. g - 1 : ~TakesIn(p, q, s[o], h)
             /\ Takes(p, q, s[o])
             /\ GotBy(s, o, g, x, p, q) = Before(s, q, p, o) + Taken(x[j])
  <2>1. j \in 1 .. Len(P[g]) /\ P[g][j].from = q
    BY <1>2, <1>7
  <2>2. ASSUME NEW k \in 1 .. Len(x), x[k].from = q
        PROVE  k = j
    <3>1. k \in 1 .. Len(P[g]) /\ P[g][k].from = q
      BY <1>2, <2>2
    <3>2. QED BY <1>2, <1>5, <2>1, <3>1
  <2>3. ASSUME NEW h \in 1 .. g - 1, TakesIn(p, q, s[o], h)
        PROVE  FALSE
    <3>1. h \in 1 .. Len(P) /\ h # g
      BY <1>4
    <3>2. PICK k \in 1 .. Len(P[h]) : P[h][k].from = q
      BY <2>3 DEF P, TakesIn
    <3>3. QED BY <1>5, <2>1, <3>1, <3>2
  <2>4. TakesIn(p, q, s[o], g)
    BY <1>2, <2>1 DEF P, TakesIn
  <2>5. (CHOOSE k \in 1 .. Len(x) : x[k].from = q) = j
    BY <2>2, <1>7
  <2>6. TakenNow(p, q, s[o], g, x) = Taken(x[j])
    BY <2>5, <1>7 DEF TakenNow
  <2>7. QED BY <1>2, <1>3, <2>2, <2>3, <2>4, <2>6 DEF P, Takes, GotBy
<1>8. QED BY <1>6, <1>7

\* What p has sent and got, when nothing is under way.
LEMMA NotUnderway ==
    ASSUME NEW s, NEW o, NEW g, NEW x, NEW p, NEW q, o <= Len(s)
    PROVE  /\ (\A j \in 1 .. Len(x) : x[j].to # q) =>
                 SentBy(s, o, g, x, p, q) = Before(s, p, q, o)
                    + IF \E h \in 1 .. g - 1 : SendsIn(p, q, s[o], h)
                      THEN s[o].length[p] + 1 ELSE 0
           /\ (\A j \in 1 .. Len(x) : x[j].from # q) =>
                 GotBy(s, o, g, x, p, q) = Before(s, q, p, o)
                    + IF \E h \in 1 .. g - 1 : TakesIn(p, q, s[o], h)
                      THEN s[o].length[q] + 1 ELSE 0
  BY DEF SentBy, GotBy, SentNow, TakenNow

\* A party has sent and got no more than the operations up to its own have.
LEMMA Within ==
    ASSUME NEW s \in Scripts, NEW o, NEW g, NEW x, NEW p \in Party, NEW q \in Party,
           Local(s, o, g, x, p)
    PROVE  /\ SentBy(s, o, g, x, p, q) \in Nat /\ GotBy(s, o, g, x, p, q) \in Nat
           /\ Before(s, p, q, o) <= SentBy(s, o, g, x, p, q)
           /\ Before(s, q, p, o) <= GotBy(s, o, g, x, p, q)
           /\ o <= Len(s) => SentBy(s, o, g, x, p, q) <= Before(s, p, q, o + 1)
           /\ o = Len(s) + 1 => /\ SentBy(s, o, g, x, p, q) = Before(s, p, q, o)
                                /\ GotBy(s, o, g, x, p, q) = Before(s, q, p, o)
<1>1. /\ Len(s) \in Nat /\ o \in 1 .. Len(s) + 1 /\ g \in Nat \ {0}
      /\ o <= Len(s) => g <= Len(Parts(p, s[o])) + 1
  BY ScriptFacts DEF Local
<1>2. Before(s, p, q, o) \in Nat /\ Before(s, q, p, o) \in Nat
  BY <1>1, BeforeGrows
<1>3. CASE o = Len(s) + 1
  BY <1>1, <1>2, <1>3 DEF SentBy, GotBy
<1>4. CASE o <= Len(s)
  <2>1. o \in 1 .. Len(s)
    BY <1>1, <1>4
  <2>2. /\ Before(s, p, q, o + 1) = Before(s, p, q, o) + Size(s, p, q, o)
        /\ Size(s, p, q, o) \in Nat
        /\ s[o].length[p] \in Nat /\ s[o].length[q] \in Nat
    BY <2>1, BeforeGrows, ScriptFacts
  <2>3. /\ SentBy(s, o, g, x, p, q) \in Nat
        /\ Before(s, p, q, o) <= SentBy(s, o, g, x, p, q)
        /\ SentBy(s, o, g, x, p, q) <= Before(s, p, q, o) + Size(s, p, q, o)
    <3>1. CASE \E j \in 1 .. Len(x) : x[j].to = q
      <4>1. PICK j \in 1 .. Len(x) : x[j].to = q
        BY <3>1
      <4>2. /\ SentBy(s, o, g, x, p, q) = Before(s, p, q, o) + (1 + x[j].sent)
            /\ Sends(p, q, s[o])
        BY <4>1, Underway
      <4>3. x[j] \in Exchangers /\ WellDone(s, p, o, Parts(p, s[o])[g][j], x[j])
        BY <4>1 DEF Local
      <4>4. x[j].sent \in Nat /\ x[j].sent <= s[o].length[p]
        <5>1. x[j].sent \in Nat /\ x[j].sent <= x[j].len
          BY <4>3 DEF Exchangers, WellDone
        <5>2. q # None
          BY NoParty
        <5>3. x[j].len = s[o].length[p]
          BY <4>1, <4>3, <5>2 DEF WellDone
        <5>4. QED BY <5>1, <5>3
      <4>5. QED BY <1>2, <2>2, <4>2, <4>4, SMTT(30) DEF Size
    <3>2. CASE \A j \in 1 .. Len(x) : x[j].to # q
      <4>1. SentBy(s, o, g, x, p, q) = Before(s, p, q, o)
               + IF \E h \in 1 .. g - 1 : SendsIn(p, q, s[o], h)
                 THEN s[o].length[p] + 1 ELSE 0
        BY <1>4, <3>2, NotUnderway
      <4>2. CASE \E h \in 1 .. g - 1 : SendsIn(p, q, s[o], h)
        <5>1. Len(Parts(p, s[o])) \in Nat
          BY <2>1, ScriptFacts, PartsFew
        <5>2. Sends(p, q, s[o])
          BY <1>1, <1>4, <4>2, <5>1 DEF Sends
        <5>3. QED BY <1>2, <2>2, <4>1, <4>2, <5>2 DEF Size
      <4>3. CASE ~\E h \in 1 .. g - 1 : SendsIn(p, q, s[o], h)
        BY <1>2, <2>2, <4>1, <4>3
      <4>4. QED BY <4>2, <4>3
    <3>3. QED BY <3>1, <3>2
  <2>4. /\ GotBy(s, o, g, x, p, q) \in Nat
        /\ Before(s, q, p, o) <= GotBy(s, o, g, x, p, q)
    <3>1. CASE \E j \in 1 .. Len(x) : x[j].from = q
      <4>1. PICK j \in 1 .. Len(x) : x[j].from = q
        BY <3>1
      <4>2. GotBy(s, o, g, x, p, q) = Before(s, q, p, o) + Taken(x[j])
        BY <4>1, Underway
      <4>3. x[j] \in Exchangers
        BY DEF Local
      <4>4. Taken(x[j]) \in Nat
        BY <4>3 DEF Exchangers, Taken
      <4>5. QED BY <1>2, <4>2, <4>4
    <3>2. CASE \A j \in 1 .. Len(x) : x[j].from # q
      <4>1. GotBy(s, o, g, x, p, q) = Before(s, q, p, o)
               + IF \E h \in 1 .. g - 1 : TakesIn(p, q, s[o], h)
                 THEN s[o].length[q] + 1 ELSE 0
        BY <1>4, <3>2, NotUnderway
      <4>2. QED BY <1>2, <2>2, <4>1
    <3>3. QED BY <3>1, <3>2
  <2>5. QED BY <1>1, <1>4, <2>2, <2>3, <2>4
<1>5. QED BY <1>1, <1>3, <1>4

-----------------------------------------------------------------------------
(* How a party's steps count.                                              *)

\* The next Exchanger is constructed.
LEMMA Begins ==
    ASSUME NEW s \in Scripts, NEW o, NEW g, NEW x, NEW p \in Party, Local(s, o, g, x, p),
           o <= Len(s), g <= Len(Parts(p, s[o])), Len(x) < Len(Parts(p, s[o])[g]),
           NEW e \in Exchangers, WellDone(s, p, o, Parts(p, s[o])[g][Len(x) + 1], e),
           e.sent = 0, e.from # None => Taken(e) = 0
    PROVE  /\ Local(s, o, g, Append(x, e), p)
           /\ \A q \in Party :
                 /\ e.to = q => /\ Sends(p, q, s[o])
                                /\ SentBy(s, o, g, x, p, q) = Before(s, p, q, o)
                                /\ SentBy(s, o, g, Append(x, e), p, q)
                                      = Before(s, p, q, o) + 1
                 /\ e.to # q => SentBy(s, o, g, Append(x, e), p, q) = SentBy(s, o, g, x, p, q)
                 /\ GotBy(s, o, g, Append(x, e), p, q) = GotBy(s, o, g, x, p, q)
<1> DEFINE P == Parts(p, s[o])
           y == Append(x, e)
           l == Len(x) + 1
<1>1. /\ o \in 1 .. Len(s) + 1 /\ g \in Nat \ {0} /\ x \in Seq(Exchangers)
      /\ \A j \in 1 .. Len(x) : WellDone(s, p, o, P[g][j], x[j])
  BY DEF Local
<1>2. /\ y \in Seq(Exchangers) /\ Len(y) = l /\ y[l] = e /\ y # <<>> /\ Len(x) \in Nat
      /\ \A j \in 1 .. Len(x) : y[j] = x[j]
  BY <1>1, AppendProperties
<1>3. o \in 1 .. Len(s) /\ Len(s) \in Nat /\ s[o] \in Operation
  BY <1>1, ScriptFacts
<1>4. Len(P) \in Nat /\ g \in 1 .. Len(P)
  BY <1>1, <1>3, PartsFew
<1>5. Len(P[g]) \in Nat
  BY <1>3, <1>4, PartsFew, PartyAssumption
<1> HIDE DEF P, y
<1>6. \A j \in 1 .. l : WellDone(s, p, o, P[g][j], y[j])
  <2>1. \A j \in 1 .. l : j = l \/ j \in 1 .. Len(x)
    BY <1>2
  <2>2. WellDone(s, p, o, P[g][l], y[l])
    BY <1>2 DEF P
  <2>3. QED BY <1>1, <1>2, <2>1, <2>2
<1>7. Local(s, o, g, y, p)
  BY <1>1, <1>2, <1>3, <1>4, <1>5, <1>6 DEF Local, P
<1>8. ASSUME NEW q \in Party
      PROVE  /\ e.to = q => /\ Sends(p, q, s[o])
                            /\ SentBy(s, o, g, x, p, q) = Before(s, p, q, o)
                            /\ SentBy(s, o, g, y, p, q) = Before(s, p, q, o) + 1
             /\ e.to # q => SentBy(s, o, g, y, p, q) = SentBy(s, o, g, x, p, q)
             /\ GotBy(s, o, g, y, p, q) = GotBy(s, o, g, x, p, q)
  <2>1. l \in 1 .. Len(y) /\ l \notin 1 .. Len(x) /\ \A j \in 1 .. Len(x) : j \in 1 .. Len(y)
    BY <1>2
  <2>2. Before(s, p, q, o) \in Nat /\ Before(s, q, p, o) \in Nat /\ q # None
    BY <1>1, BeforeGrows, NoParty
  <2>3. ASSUME e.to = q
        PROVE  /\ Sends(p, q, s[o])
               /\ SentBy(s, o, g, x, p, q) = Before(s, p, q, o)
               /\ SentBy(s, o, g, y, p, q) = Before(s, p, q, o) + 1
    <3>1. /\ SentBy(s, o, g, y, p, q) = Before(s, p, q, o) + (1 + y[l].sent)
          /\ Sends(p, q, s[o])
          /\ \A h \in 1 .. g - 1 : ~SendsIn(p, q, s[o], h)
          /\ \A k \in 1 .. Len(y) : y[k].to = q => k = l
      BY <1>2, <1>7, <2>1, <2>3, Underway
    <3>2. \A j \in 1 .. Len(x) : x[j].to # q
      BY <1>2, <2>1, <3>1
    <3>3. SentBy(s, o, g, x, p, q) = Before(s, p, q, o) + 0
      BY <3>1, <3>2, NotUnderway
    <3>4. QED BY <1>2, <2>2, <2>3, <3>1, <3>3
  <2>4. ASSUME e.to # q
        PROVE  SentBy(s, o, g, y, p, q) = SentBy(s, o, g, x, p, q)
    <3>1. CASE \E j \in 1 .. Len(x) : x[j].to = q
      <4>1. PICK j \in 1 .. Len(x) : x[j].to = q
        BY <3>1
      <4>2. y[j] = x[j] /\ j \in 1 .. Len(y)
        BY <1>2, <2>1
      <4>3. SentBy(s, o, g, x, p, q) = Before(s, p, q, o) + (1 + x[j].sent)
        BY <4>1, Underway
      <4>4. SentBy(s, o, g, y, p, q) = Before(s, p, q, o) + (1 + y[j].sent)
        BY <1>7, <4>1, <4>2, Underway
      <4>5. y[j].sent = x[j].sent
        BY <4>2
      <4>6. QED BY <4>3, <4>4, <4>5
    <3>2. CASE \A j \in 1 .. Len(x) : x[j].to # q
      <4>1. \A j \in 1 .. Len(y) : y[j].to # q
        BY <1>2, <2>4, <3>2
      <4>2. QED BY <2>4, <3>2, <4>1, NotUnderway
    <3>3. QED BY <3>1, <3>2
  <2>5. GotBy(s, o, g, y, p, q) = GotBy(s, o, g, x, p, q)
    <3>1. CASE e.from = q
      <4>1. /\ GotBy(s, o, g, y, p, q) = Before(s, q, p, o) + Taken(y[l])
            /\ \A h \in 1 .. g - 1 : ~TakesIn(p, q, s[o], h)
            /\ \A k \in 1 .. Len(y) : y[k].from = q => k = l
        BY <1>2, <1>7, <2>1, <3>1, Underway
      <4>2. \A j \in 1 .. Len(x) : x[j].from # q
        BY <1>2, <2>1, <4>1
      <4>3. GotBy(s, o, g, x, p, q) = Before(s, q, p, o) + 0
        BY <4>1, <4>2, NotUnderway
      <4>4. QED BY <1>2, <2>2, <3>1, <4>1, <4>3
    <3>2. CASE e.from # q /\ \E j \in 1 .. Len(x) : x[j].from = q
      <4>1. PICK j \in 1 .. Len(x) : x[j].from = q
        BY <3>2
      <4>2. y[j] = x[j] /\ j \in 1 .. Len(y)
        BY <1>2, <2>1
      <4>3. GotBy(s, o, g, x, p, q) = Before(s, q, p, o) + Taken(x[j])
        BY <4>1, Underway
      <4>4. GotBy(s, o, g, y, p, q) = Before(s, q, p, o) + Taken(y[j])
        BY <1>7, <4>1, <4>2, Underway
      <4>5. QED BY <4>2, <4>3, <4>4
    <3>3. CASE e.from # q /\ \A j \in 1 .. Len(x) : x[j].from # q
      <4>1. \A j \in 1 .. Len(y) : y[j].from # q
        BY <1>2, <3>3
      <4>2. QED BY <3>3, <4>1, NotUnderway
    <3>4. QED BY <3>1, <3>2, <3>3
  <2>6. QED BY <2>3, <2>4, <2>5
<1>9. QED BY <1>7, <1>8 DEF y

\* An Exchanger goes on.
LEMMA GoesOn ==
    ASSUME NEW s \in Scripts, NEW o, NEW g, NEW x, NEW p \in Party, Local(s, o, g, x, p),
           NEW j \in 1 .. Len(x), NEW e \in Exchangers,
           WellDone(s, p, o, Parts(p, s[o])[g][j], e)
    PROVE  LET y == With(x, j, e)
           IN  /\ Local(s, o, g, y, p)
               /\ \A q \in Party :
                    /\ x[j].to = q =>
                          SentBy(s, o, g, y, p, q) = Before(s, p, q, o) + (1 + e.sent)
                    /\ x[j].to # q => SentBy(s, o, g, y, p, q) = SentBy(s, o, g, x, p, q)
                    /\ x[j].from = q =>
                          GotBy(s, o, g, y, p, q) = Before(s, q, p, o) + Taken(e)
                    /\ x[j].from # q => GotBy(s, o, g, y, p, q) = GotBy(s, o, g, x, p, q)
<1> DEFINE P == Parts(p, s[o])
           y == With(x, j, e)
<1>1. /\ o \in 1 .. Len(s) + 1 /\ g \in Nat \ {0} /\ x \in Seq(Exchangers) /\ x # <<>>
      /\ o <= Len(s) /\ g <= Len(P) /\ Len(x) <= Len(P[g])
      /\ \A k \in 1 .. Len(x) : WellDone(s, p, o, P[g][k], x[k])
  BY DEF Local
<1>2. /\ y \in Seq(Exchangers) /\ Len(y) = Len(x)
      /\ \A k \in 1 .. Len(x) : y[k] = IF k = j THEN e ELSE x[k]
  BY <1>1, ExceptSeq DEF With
<1>3. x[j].to = e.to /\ x[j].from = e.from
  BY <1>1 DEF WellDone
<1> HIDE DEF P, y
<1>4. \A k \in 1 .. Len(y) : WellDone(s, p, o, P[g][k], y[k])
  BY <1>1, <1>2 DEF P
<1>5. y # <<>>
  BY <1>2
<1>6. Local(s, o, g, y, p)
  BY <1>1, <1>2, <1>4, <1>5 DEF Local, P
<1>7. ASSUME NEW q \in Party
      PROVE  /\ x[j].to = q =>
                   SentBy(s, o, g, y, p, q) = Before(s, p, q, o) + (1 + e.sent)
             /\ x[j].to # q => SentBy(s, o, g, y, p, q) = SentBy(s, o, g, x, p, q)
             /\ x[j].from = q =>
                   GotBy(s, o, g, y, p, q) = Before(s, q, p, o) + Taken(e)
             /\ x[j].from # q => GotBy(s, o, g, y, p, q) = GotBy(s, o, g, x, p, q)
  <2>1. j \in 1 .. Len(y) /\ y[j] = e
    BY <1>2
  <2>2. ASSUME x[j].to = q
        PROVE  SentBy(s, o, g, y, p, q) = Before(s, p, q, o) + (1 + e.sent)
    <3>1. y[j].to = q
      BY <1>3, <2>1, <2>2
    <3>2. QED BY <1>6, <2>1, <3>1, Underway
  <2>3. ASSUME x[j].from = q
        PROVE  GotBy(s, o, g, y, p, q) = Before(s, q, p, o) + Taken(e)
    <3>1. y[j].from = q
      BY <1>3, <2>1, <2>3
    <3>2. QED BY <1>6, <2>1, <3>1, Underway
  <2>4. ASSUME x[j].to # q
        PROVE  SentBy(s, o, g, y, p, q) = SentBy(s, o, g, x, p, q)
    <3>1. CASE \E k \in 1 .. Len(x) : x[k].to = q
      <4>1. PICK k \in 1 .. Len(x) : x[k].to = q
        BY <3>1
      <4>2. y[k] = x[k] /\ k \in 1 .. Len(y)
        BY <1>2, <2>4, <4>1
      <4>3. SentBy(s, o, g, x, p, q) = Before(s, p, q, o) + (1 + x[k].sent)
        BY <4>1, Underway
      <4>4. SentBy(s, o, g, y, p, q) = Before(s, p, q, o) + (1 + y[k].sent)
        BY <1>6, <4>1, <4>2, Underway
      <4>5. QED BY <4>2, <4>3, <4>4
    <3>2. CASE \A k \in 1 .. Len(x) : x[k].to # q
      <4>1. \A k \in 1 .. Len(y) : y[k].to # q
        BY <1>2, <1>3, <3>2
      <4>2. QED BY <1>1, <3>2, <4>1, NotUnderway, SMTT(30)
    <3>3. QED BY <3>1, <3>2
  <2>5. ASSUME x[j].from # q
        PROVE  GotBy(s, o, g, y, p, q) = GotBy(s, o, g, x, p, q)
    <3>1. CASE \E k \in 1 .. Len(x) : x[k].from = q
      <4>1. PICK k \in 1 .. Len(x) : x[k].from = q
        BY <3>1
      <4>2. y[k] = x[k] /\ k \in 1 .. Len(y)
        BY <1>2, <2>5, <4>1
      <4>3. GotBy(s, o, g, x, p, q) = Before(s, q, p, o) + Taken(x[k])
        BY <4>1, Underway
      <4>4. GotBy(s, o, g, y, p, q) = Before(s, q, p, o) + Taken(y[k])
        BY <1>6, <4>1, <4>2, Underway
      <4>5. QED BY <4>2, <4>3, <4>4
    <3>2. CASE \A k \in 1 .. Len(x) : x[k].from # q
      <4>1. \A k \in 1 .. Len(y) : y[k].from # q
        BY <1>2, <1>3, <3>2
      <4>2. QED BY <1>1, <3>2, <4>1, NotUnderway
    <3>3. QED BY <3>1, <3>2
  <2>6. QED BY <2>2, <2>3, <2>4, <2>5
<1>8. QED BY <1>6, <1>7 DEF y

-----------------------------------------------------------------------------
\* A part is over.
LEMMA PartEnds ==
    ASSUME NEW s \in Scripts, NEW o, NEW g, NEW x, NEW p \in Party, Local(s, o, g, x, p),
           o <= Len(s), g <= Len(Parts(p, s[o])), Len(x) = Len(Parts(p, s[o])[g]),
           \A j \in 1 .. Len(x) : ~Busy(x[j])
    PROVE  /\ Local(s, o, g + 1, <<>>, p)
           /\ \A q \in Party :
                 /\ SentBy(s, o, g + 1, <<>>, p, q) = SentBy(s, o, g, x, p, q)
                 /\ GotBy(s, o, g + 1, <<>>, p, q) = GotBy(s, o, g, x, p, q)
<1> DEFINE P == Parts(p, s[o])
<1>1. /\ o \in 1 .. Len(s) + 1 /\ g \in Nat \ {0} /\ x \in Seq(Exchangers)
      /\ \A j \in 1 .. Len(x) : WellDone(s, p, o, P[g][j], x[j])
  BY DEF Local
<1>2. /\ o \in 1 .. Len(s) /\ Len(s) \in Nat /\ s[o] \in Operation
      /\ \A r \in Party : s[o].length[r] \in Nat
  BY <1>1, ScriptFacts
<1>3. Len(P) \in Nat /\ g \in 1 .. Len(P)
  BY <1>1, <1>2, PartsFew
<1>4. Local(s, o, g + 1, <<>>, p)
  <2>1. <<>> \in Seq(Exchangers) /\ Len(<<>>) = 0 /\ 1 .. 0 = {}
    OBVIOUS
  <2>2. g + 1 \in Nat \ {0} /\ g + 1 <= Len(P) + 1
    BY <1>1, <1>3
  <2>3. QED BY <1>1, <1>2, <2>1, <2>2 DEF Local
<1> HIDE DEF P
<1>5. ASSUME NEW j \in 1 .. Len(x)
      PROVE  /\ x[j].to \in Party => x[j].sent = s[o].length[p]
             /\ x[j].from \in Party => Taken(x[j]) = s[o].length[x[j].from] + 1
  <2>1. x[j] \in Exchangers /\ WellDone(s, p, o, P[g][j], x[j]) /\ ~Busy(x[j])
    BY <1>1
  <2>2. ASSUME x[j].to \in Party
        PROVE  x[j].sent = s[o].length[p]
    <3>1. x[j].len = s[o].length[p]
      BY <2>1, <2>2, NoParty DEF WellDone
    <3>2. x[j].sent <= x[j].len /\ ~(x[j].sent < x[j].len)
      BY <2>1 DEF WellDone, Busy
    <3>3. QED BY <2>1, <3>1, <3>2 DEF Exchangers
  <2>3. ASSUME x[j].from \in Party
        PROVE  Taken(x[j]) = s[o].length[x[j].from] + 1
    <3>1. x[j].known /\ ~(x[j].received < x[j].newLen) /\ x[j].received <= x[j].newLen
      BY <2>1 DEF WellDone, Busy
    <3>2. x[j].newLen = s[o].length[x[j].from]
      BY <2>1, <2>3, <3>1, NoParty DEF WellDone
    <3>3. x[j].received \in Nat /\ x[j].newLen \in Nat
      BY <2>1 DEF Exchangers
    <3>4. x[j].received = x[j].newLen
      BY <3>1, <3>3
    <3>5. Taken(x[j]) = 1 + x[j].received
      BY <3>1 DEF Taken
    <3>6. QED BY <3>2, <3>3, <3>4, <3>5
  <2>4. QED BY <2>2, <2>3
<1>6. \A h : h \in 1 .. (g + 1) - 1 <=> h \in 1 .. g - 1 \/ h = g
  BY <1>3
<1>7. ASSUME NEW q \in Party
      PROVE  /\ SentBy(s, o, g + 1, <<>>, p, q) = SentBy(s, o, g, x, p, q)
             /\ GotBy(s, o, g + 1, <<>>, p, q) = GotBy(s, o, g, x, p, q)
  <2>1. /\ SentBy(s, o, g + 1, <<>>, p, q) = Before(s, p, q, o)
              + IF \E h \in 1 .. (g + 1) - 1 : SendsIn(p, q, s[o], h)
                THEN s[o].length[p] + 1 ELSE 0
        /\ GotBy(s, o, g + 1, <<>>, p, q) = Before(s, q, p, o)
              + IF \E h \in 1 .. (g + 1) - 1 : TakesIn(p, q, s[o], h)
                THEN s[o].length[q] + 1 ELSE 0
    <3>1. \A j \in 1 .. Len(<<>>) : <<>>[j].to # q /\ <<>>[j].from # q
      OBVIOUS
    <3>2. QED BY <3>1, NotUnderway
  <2>2. Before(s, p, q, o) \in Nat /\ Before(s, q, p, o) \in Nat
    BY <1>1, BeforeGrows
  <2>3. /\ SendsIn(p, q, s[o], g) <=> \E j \in 1 .. Len(x) : x[j].to = q
        /\ TakesIn(p, q, s[o], g) <=> \E j \in 1 .. Len(x) : x[j].from = q
    <3>1. \A j \in 1 .. Len(x) : x[j].to = P[g][j].to /\ x[j].from = P[g][j].from
      BY <1>1 DEF WellDone
    <3>2. Len(x) = Len(P[g])
      BY DEF P
    <3>3. QED BY <3>1, <3>2 DEF SendsIn, TakesIn, P
  <2>4. SentBy(s, o, g + 1, <<>>, p, q) = SentBy(s, o, g, x, p, q)
    <3>1. CASE \E j \in 1 .. Len(x) : x[j].to = q
      <4>1. PICK j \in 1 .. Len(x) : x[j].to = q
        BY <3>1
      <4>2. SentBy(s, o, g, x, p, q) = Before(s, p, q, o) + (1 + x[j].sent)
        BY <4>1, Underway
      <4>3. \E h \in 1 .. (g + 1) - 1 : SendsIn(p, q, s[o], h)
        BY <1>6, <2>3, <3>1
      <4>4. SentBy(s, o, g + 1, <<>>, p, q) = Before(s, p, q, o) + (s[o].length[p] + 1)
        BY <2>1, <4>3
      <4>5. x[j].sent = s[o].length[p]
        BY <1>5, <4>1
      <4>6. QED BY <1>2, <2>2, <4>2, <4>4, <4>5
    <3>2. CASE \A j \in 1 .. Len(x) : x[j].to # q
      <4>1. (\E h \in 1 .. (g + 1) - 1 : SendsIn(p, q, s[o], h))
               <=> \E h \in 1 .. g - 1 : SendsIn(p, q, s[o], h)
        BY <1>6, <2>3, <3>2
      <4>2. QED BY <2>1, <3>2, <4>1, NotUnderway
    <3>3. QED BY <3>1, <3>2
  <2>5. GotBy(s, o, g + 1, <<>>, p, q) = GotBy(s, o, g, x, p, q)
    <3>1. CASE \E j \in 1 .. Len(x) : x[j].from = q
      <4>1. PICK j \in 1 .. Len(x) : x[j].from = q
        BY <3>1
      <4>2. GotBy(s, o, g, x, p, q) = Before(s, q, p, o) + Taken(x[j])
        BY <4>1, Underway
      <4>3. \E h \in 1 .. (g + 1) - 1 : TakesIn(p, q, s[o], h)
        BY <1>6, <2>3, <3>1
      <4>4. GotBy(s, o, g + 1, <<>>, p, q) = Before(s, q, p, o) + (s[o].length[q] + 1)
        BY <2>1, <4>3
      <4>5. Taken(x[j]) = s[o].length[q] + 1
        BY <1>5, <4>1
      <4>6. QED BY <4>2, <4>4, <4>5
    <3>2. CASE \A j \in 1 .. Len(x) : x[j].from # q
      <4>1. (\E h \in 1 .. (g + 1) - 1 : TakesIn(p, q, s[o], h))
               <=> \E h \in 1 .. g - 1 : TakesIn(p, q, s[o], h)
        BY <1>6, <2>3, <3>2
      <4>2. QED BY <2>1, <3>2, <4>1, NotUnderway
    <3>3. QED BY <3>1, <3>2
  <2>6. QED BY <2>4, <2>5
<1>8. QED BY <1>4, <1>7

\* An operation is over.
LEMMA OperationEnds ==
    ASSUME NEW s \in Scripts, NEW o, NEW g, NEW x, NEW p \in Party, Local(s, o, g, x, p),
           o <= Len(s), ~(g <= Len(Parts(p, s[o])))
    PROVE  /\ Local(s, o + 1, 1, x, p)
           /\ \A q \in Party :
                 /\ SentBy(s, o + 1, 1, x, p, q) = SentBy(s, o, g, x, p, q)
                 /\ GotBy(s, o + 1, 1, x, p, q) = GotBy(s, o, g, x, p, q)
<1> DEFINE P == Parts(p, s[o])
<1>1. /\ o \in 1 .. Len(s) + 1 /\ g \in Nat \ {0} /\ x = <<>>
      /\ g <= Len(P) + 1
  BY DEF Local
<1>2. /\ o \in 1 .. Len(s) /\ Len(s) \in Nat /\ s[o] \in Operation /\ Usable(s[o])
      /\ o + 1 \in 1 .. Len(s) + 1
  BY <1>1, ScriptFacts
<1>3. Len(P) \in Nat /\ g = Len(P) + 1 /\ 1 .. g - 1 = 1 .. Len(P)
  BY <1>1, <1>2, PartsFew
<1>4. \A j \in 1 .. Len(x) : FALSE
  BY <1>1
<1>5. Local(s, o + 1, 1, x, p)
  <2>1. ASSUME o + 1 <= Len(s)
        PROVE  1 <= Len(Parts(p, s[o + 1])) + 1
    <3>1. o + 1 \in 1 .. Len(s)
      BY <1>2, <2>1
    <3>2. Len(Parts(p, s[o + 1])) \in Nat
      BY <3>1, ScriptFacts, PartsFew
    <3>3. QED BY <3>2
  <2>2. x \in Seq(Exchangers)
    BY <1>1
  <2>3. QED BY <1>1, <1>2, <1>4, <2>1, <2>2 DEF Local
<1>6. ASSUME NEW q \in Party
      PROVE  /\ SentBy(s, o + 1, 1, x, p, q) = SentBy(s, o, g, x, p, q)
             /\ GotBy(s, o + 1, 1, x, p, q) = GotBy(s, o, g, x, p, q)
  <2>1. /\ Before(s, p, q, o + 1) = Before(s, p, q, o) + Size(s, p, q, o)
        /\ Before(s, q, p, o + 1) = Before(s, q, p, o) + Size(s, q, p, o)
        /\ Before(s, p, q, o + 1) \in Nat /\ Before(s, q, p, o + 1) \in Nat
    BY <1>2, BeforeGrows
  <2>2. /\ SentBy(s, o, g, x, p, q) = Before(s, p, q, o)
              + IF \E h \in 1 .. g - 1 : SendsIn(p, q, s[o], h)
                THEN s[o].length[p] + 1 ELSE 0
        /\ GotBy(s, o, g, x, p, q) = Before(s, q, p, o)
              + IF \E h \in 1 .. g - 1 : TakesIn(p, q, s[o], h)
                THEN s[o].length[q] + 1 ELSE 0
    BY <1>4, NotUnderway
  <2>3. /\ (\E h \in 1 .. g - 1 : SendsIn(p, q, s[o], h)) <=> Sends(p, q, s[o])
        /\ (\E h \in 1 .. g - 1 : TakesIn(p, q, s[o], h)) <=> Takes(p, q, s[o])
    BY <1>3, Zenon DEF Sends, Takes
  <2>4. Takes(p, q, s[o]) <=> Sends(q, p, s[o])
    BY <1>2, SentIsTaken
  <2>5. /\ SentBy(s, o, g, x, p, q) = Before(s, p, q, o) + Size(s, p, q, o)
        /\ GotBy(s, o, g, x, p, q) = Before(s, q, p, o) + Size(s, q, p, o)
    BY <2>2, <2>3, <2>4 DEF Size
  <2>6. /\ SentBy(s, o + 1, 1, x, p, q) = Before(s, p, q, o + 1)
        /\ GotBy(s, o + 1, 1, x, p, q) = Before(s, q, p, o + 1)
    <3>1. CASE o + 1 <= Len(s)
      <4>1. /\ SentBy(s, o + 1, 1, x, p, q) = Before(s, p, q, o + 1)
                  + IF \E h \in 1 .. 1 - 1 : SendsIn(p, q, s[o + 1], h)
                    THEN s[o + 1].length[p] + 1 ELSE 0
            /\ GotBy(s, o + 1, 1, x, p, q) = Before(s, q, p, o + 1)
                  + IF \E h \in 1 .. 1 - 1 : TakesIn(p, q, s[o + 1], h)
                    THEN s[o + 1].length[q] + 1 ELSE 0
        BY <1>4, <3>1, NotUnderway
      <4>2. 1 .. 1 - 1 = {}
        OBVIOUS
      <4>3. QED BY <2>1, <4>1, <4>2
    <3>2. CASE ~(o + 1 <= Len(s))
      BY <2>1, <3>2 DEF SentBy, GotBy
    <3>3. QED BY <3>1, <3>2
  <2>7. QED BY <2>1, <2>5, <2>6
<1>7. QED BY <1>5, <1>6

-----------------------------------------------------------------------------
(* Exchangers and messages.                                                *)

\* A message is its items behind the length.
LEMMA MessageIs ==
    ASSUME script \in Scripts, NEW p \in Party, NEW o \in 1 .. Len(script)
    PROVE  /\ Message(p, o) \in Seq(Item) /\ Len(Message(p, o)) = script[o].length[p]
           /\ \A i \in 1 .. script[o].length[p] : Message(p, o)[i] = Nth(script, p, o, i + 1)
           /\ Header(p, o) = Nth(script, p, o, 1)
<1>1. script[o].length[p] \in Nat /\ o \in Nat
  BY ScriptFacts
<1>2. \A i \in 1 .. script[o].length[p] : Octet(p, o, i) \in Item
  BY <1>1 DEF Octet, Item
<1>3. /\ Message(p, o) \in Seq(Item) /\ Len(Message(p, o)) = script[o].length[p]
      /\ \A i \in 1 .. script[o].length[p] : Message(p, o)[i] = Octet(p, o, i)
  BY <1>1, <1>2 DEF Message
<1>4. \A i \in 1 .. script[o].length[p] : Octet(p, o, i) = Nth(script, p, o, i + 1)
  BY DEF Octet, Nth
<1>5. Header(p, o) = Nth(script, p, o, 1)
  BY DEF Header, Nth
<1>6. QED BY <1>3, <1>4, <1>5

\* A new Exchanger has sent and received nothing.
LEMMA NewIsWell ==
    ASSUME script \in Scripts, NEW p \in Party, NEW o \in 1 .. Len(script), op[p] = o, NEW t,
           t.to \in Party \cup {None}, t.from \in Party \cup {None}
    PROVE  /\ NewExchanger(p, t) \in Exchangers
           /\ WellDone(script, p, o, t, NewExchanger(p, t))
           /\ NewExchanger(p, t).sent = 0
           /\ NewExchanger(p, t).from # None => Taken(NewExchanger(p, t)) = 0
           /\ NewExchanger(p, t).to = t.to
<1> DEFINE e == NewExchanger(p, t)
<1>1. script[o].length[p] \in Nat
  BY ScriptFacts
<1>2. /\ Message(p, o) \in Seq(Item) /\ Len(Message(p, o)) = script[o].length[p]
      /\ \A i \in 1 .. script[o].length[p] : Message(p, o)[i] = Nth(script, p, o, i + 1)
  BY MessageIs
<1>3. /\ e.to = t.to /\ e.from = t.from
      /\ e.len = IF t.to = None THEN 0 ELSE script[o].length[p]
      /\ e.sent = 0 /\ e.received = 0 /\ e.known = (t.from = None) /\ e.newLen = 0
      /\ e.buf = IF script[o].inPlace THEN Message(p, o) ELSE <<>>
      /\ e.freed = FALSE
  BY DEF NewExchanger, InPlace
<1>4. e.len \in Nat /\ e.buf \in Seq(Item) /\ Len(e.buf) \in Nat /\ e.known \in BOOLEAN
  BY <1>1, <1>2, <1>3
<1>5. /\ e.to \in Party \cup {None} /\ e.from \in Party \cup {None}
      /\ e.sent \in Nat /\ e.received \in Nat /\ e.newLen \in Nat /\ e.freed \in BOOLEAN
  <2> HIDE DEF e
  <2>1. 0 \in Nat /\ FALSE \in BOOLEAN
    OBVIOUS
  <2>2. e.freed \in BOOLEAN
    BY <1>3, <2>1, Zenon
  <2>3. QED BY <1>3, <2>1, <2>2
<1>6. e \in Exchangers
  <2>1. e = [to |-> e.to, from |-> e.from, len |-> e.len, sent |-> e.sent,
             received |-> e.received, known |-> e.known, newLen |-> e.newLen,
             buf |-> e.buf, freed |-> e.freed]
    BY DEF NewExchanger
  <2> HIDE DEF e
  <2>2. QED BY <1>4, <1>5, <2>1 DEF Exchangers
<1> HIDE DEF e
<1>7. ASSUME script[o].inPlace
      PROVE  /\ e.len <= Len(e.buf)
             /\ \A i \in e.sent + 1 .. e.len : e.buf[i] = Nth(script, p, o, i + 1)
  BY <1>1, <1>2, <1>3, <1>7
<1>8. WellDone(script, p, o, t, e)
  <2>1. /\ e.to = t.to /\ e.from = t.from
        /\ e.len = IF t.to = None THEN 0 ELSE script[o].length[p]
        /\ t.from = None => e.known
        /\ ~e.freed
    BY <1>3
  <2>2. e.sent <= e.len /\ e.received <= e.newLen /\ e.newLen <= Len(e.buf) /\ e.received <= e.sent
    BY <1>3, <1>4
  <2>3. e.newLen = IF e.known /\ t.from # None THEN script[o].length[t.from] ELSE 0
    BY <1>3
  <2>4. \A i \in 1 .. e.received : e.buf[i] = Nth(script, t.from, o, i + 1)
    BY <1>3
  <2>5. QED BY <1>7, <2>1, <2>2, <2>3, <2>4 DEF WellDone
<1>9. QED BY <1>3, <1>6, <1>8 DEF Taken, e

-----------------------------------------------------------------------------
(* What the halves of a round do to an Exchanger.                          *)

\* It sends the next items of its message.
LEMMA SendWell ==
    ASSUME script \in Scripts, NEW p \in Party, NEW o \in 1 .. Len(script), op[p] = o, NEW t,
           NEW e \in Exchangers, WellDone(script, p, o, t, e),
           NEW n \in Nat, n <= e.len - e.sent, NEW s \in Outgoing(p, e, n)
    PROVE  LET e1 == SentMore(e, n)
           IN  /\ e1 \in Exchangers /\ WellDone(script, p, o, t, e1)
               /\ e1.sent = e.sent + n /\ Taken(e1) = Taken(e)
               /\ e1.from = e.from /\ e1.to = e.to /\ e1.len = e.len /\ e1.known = e.known
               /\ e1.received = e.received /\ e1.newLen = e.newLen
               /\ s \in Seq(Item) /\ Len(s) = n
               /\ \A i \in 1 .. n : s[i] = Nth(script, p, o, (1 + e.sent) + i)
<1> DEFINE e1 == SentMore(e, n)
<1>1. /\ e.len \in Nat /\ e.sent \in Nat /\ e.received \in Nat /\ e.newLen \in Nat
      /\ e.buf \in Seq(Item) /\ Len(e.buf) \in Nat
  BY DEF Exchangers
<1>2. /\ e1.sent = e.sent + n /\ e1.to = e.to /\ e1.from = e.from /\ e1.len = e.len
      /\ e1.received = e.received /\ e1.known = e.known /\ e1.newLen = e.newLen
      /\ e1.buf = e.buf /\ e1.freed = e.freed
  BY DEF Exchangers, SentMore
<1>3. e1 \in Exchangers
  BY <1>1, SMTT(30) DEF Exchangers, SentMore
<1>4. e.sent + n \in Nat /\ e.sent + n <= e.len /\ (e.sent = e.len => n = 0)
  BY <1>1
<1> HIDE DEF e1
<1>5. WellDone(script, p, o, t, e1)
  <2>1. /\ e1.to = t.to /\ e1.from = t.from
        /\ e1.len = IF t.to = None THEN 0 ELSE script[o].length[p]
        /\ e1.sent <= e1.len
        /\ t.from = None => e1.known
    BY <1>2, <1>4 DEF WellDone
  <2>2. e1.freed => e1.known /\ e1.sent = e1.len
    <3>1. e.freed => e.known /\ e.sent = e.len
      BY DEF WellDone
    <3>2. QED BY <1>1, <1>2, <1>4, <3>1
  <2>3. /\ e1.newLen = IF e1.known /\ t.from # None THEN script[o].length[t.from] ELSE 0
        /\ e1.received <= e1.newLen
        /\ e1.newLen <= Len(e1.buf)
        /\ \A i \in 1 .. e1.received : e1.buf[i] = Nth(script, t.from, o, i + 1)
    BY <1>2 DEF WellDone
  <2>4. ASSUME script[o].inPlace
        PROVE  /\ e1.len <= Len(e1.buf)
               /\ e1.received <= e1.sent \/ e1.sent = e1.len
               /\ ~e1.freed => \A i \in e1.sent + 1 .. e1.len :
                                    e1.buf[i] = Nth(script, p, o, i + 1)
    <3>1. /\ e.len <= Len(e.buf)
          /\ e.received <= e.sent \/ e.sent = e.len
          /\ ~e.freed => \A i \in e.sent + 1 .. e.len : e.buf[i] = Nth(script, p, o, i + 1)
      BY <2>4 DEF WellDone
    <3>2. \A i \in (e.sent + n) + 1 .. e.len : i \in e.sent + 1 .. e.len
      BY <1>1, <1>4
    <3>3. e.received <= e.sent + n \/ e.sent + n = e.len
      BY <1>1, <1>4, <3>1
    <3>4. ASSUME ~e.freed
          PROVE  \A i \in (e.sent + n) + 1 .. e.len : e.buf[i] = Nth(script, p, o, i + 1)
      BY <3>1, <3>2, <3>4
    <3>5. QED BY <1>2, <3>1, <3>3, <3>4
  <2>5. QED BY <2>1, <2>2, <2>3, <2>4 DEF WellDone
<1>6. Taken(e1) = Taken(e)
  BY <1>2 DEF Taken
<1>7. /\ s \in Seq(Item) /\ Len(s) = n
      /\ \A i \in 1 .. n : s[i] = Nth(script, p, o, (1 + e.sent) + i)
  <2>1. CASE n = 0
    <3>1. s = <<>>
      BY <2>1 DEF Outgoing
    <3>2. QED BY <2>1, <3>1
  <2>2. CASE n # 0
    <3>1. ~e.freed
      BY <1>1, <1>4, <2>2 DEF WellDone
    <3>2. e.len = script[o].length[p]
      BY <1>1, <1>4, <2>2 DEF WellDone
    <3> DEFINE own == IF script[o].inPlace THEN e.buf ELSE Message(p, o)
    <3>3. s = [i \in 1 .. n |-> own[e.sent + i]]
      BY <3>1 DEF Outgoing, InPlace
    <3>4. ASSUME NEW i \in 1 .. n
          PROVE  own[e.sent + i] = Nth(script, p, o, (1 + e.sent) + i)
      <4>1. e.sent + i \in e.sent + 1 .. e.len /\ e.sent + i \in 1 .. script[o].length[p]
        BY <1>1, <1>4, <3>2
      <4>2. (e.sent + i) + 1 = (1 + e.sent) + i
        BY <1>1
      <4>3. CASE script[o].inPlace
        <5>1. \A k \in e.sent + 1 .. e.len : e.buf[k] = Nth(script, p, o, k + 1)
          BY <3>1, <4>3 DEF WellDone
        <5>2. QED BY <4>1, <4>2, <4>3, <5>1
      <4>4. CASE ~script[o].inPlace
        <5>1. \A k \in 1 .. script[o].length[p] : Message(p, o)[k] = Nth(script, p, o, k + 1)
          BY MessageIs
        <5>2. QED BY <4>1, <4>2, <4>4, <5>1
      <4>5. QED BY <4>3, <4>4
    <3> HIDE DEF own
    <3>5. \A i \in 1 .. n : Nth(script, p, o, (1 + e.sent) + i) \in Item
      <4>1. \A i \in 1 .. n : (1 + e.sent) + i \in Nat \ {0}
        BY <1>1
      <4>2. QED BY <4>1, NthTyped
    <3>6. QED BY <3>3, <3>4, <3>5
  <2>3. QED BY <2>1, <2>2
<1>8. QED BY <1>2, <1>3, <1>5, <1>6, <1>7 DEF e1

\* It receives the next items of the other's message.
LEMMA ReceiveWell ==
    ASSUME script \in Scripts, NEW p \in Party, NEW o \in 1 .. Len(script), NEW t,
           NEW e \in Exchangers, WellDone(script, p, o, t, e),
           NEW k \in Nat \ {0}, k <= e.newLen - e.received,
           script[o].inPlace => k <= e.sent - e.received \/ e.sent = e.len,
           NEW d \in Seq(Item), Len(d) = k,
           \A i \in 1 .. k : d[i] = Nth(script, t.from, o, (1 + e.received) + i)
    PROVE  /\ Received(e, d) \in Exchangers /\ WellDone(script, p, o, t, Received(e, d))
           /\ Received(e, d).sent = e.sent /\ Taken(Received(e, d)) = Taken(e) + k
<1> DEFINE r == e.received
           item(j) == IF j > r /\ j <= r + k THEN d[j - r] ELSE e.buf[j]
           b == [j \in 1 .. Larger(Len(e.buf), r + k) |-> item(j)]
           f == Received(e, d)
<1>1. /\ e.len \in Nat /\ e.sent \in Nat /\ r \in Nat /\ e.newLen \in Nat
      /\ e.buf \in Seq(Item) /\ Len(e.buf) \in Nat
  BY DEF Exchangers
<1>2. /\ f.received = r + k /\ f.buf = b /\ f.sent = e.sent /\ f.to = e.to /\ f.from = e.from
      /\ f.len = e.len /\ f.known = e.known /\ f.newLen = e.newLen /\ f.freed = e.freed
  BY DEF Received, Exchangers
<1>3. r + k <= e.newLen /\ e.newLen <= Len(e.buf) /\ Larger(Len(e.buf), r + k) = Len(e.buf)
  BY <1>1 DEF WellDone, Larger
<1>4. ASSUME NEW j \in 1 .. Len(e.buf)
      PROVE  /\ j > r /\ j <= r + k => j - r \in 1 .. k
             /\ e.buf[j] \in Item
  BY <1>1, SMTT(30)
<1>5. b \in Seq(Item) /\ Len(b) = Len(e.buf)
      /\ \A j \in 1 .. Len(e.buf) :
            b[j] = IF j > r /\ j <= r + k THEN d[j - r] ELSE e.buf[j]
  <2>1. \A i \in 1 .. k : d[i] \in Item
    OBVIOUS
  <2>2. \A j \in 1 .. Len(e.buf) : item(j) \in Item
    BY <1>4, <2>1
  <2>3. b = [j \in 1 .. Len(e.buf) |-> item(j)]
    BY <1>3
  <2> HIDE DEF item, b
  <2>4. b \in Seq(Item) /\ Len(b) = Len(e.buf) /\ \A j \in 1 .. Len(e.buf) : b[j] = item(j)
    BY <1>1, <2>2, <2>3
  <2>5. QED BY <2>4 DEF item
<1>6. f \in Exchangers
  <2>1. f = [e EXCEPT !.buf = b, !.received = r + k]
    BY DEF Received
  <2>2. r + k \in Nat
    BY <1>1
  <2> HIDE DEF f, b
  <2>3. QED BY <1>5, <2>1, <2>2 DEF Exchangers
<1> HIDE DEF f, b, item
<1>7. e.known
  BY <1>1, <1>3 DEF WellDone
<1>8. ASSUME NEW i \in 1 .. r + k
      PROVE  b[i] = Nth(script, t.from, o, i + 1)
  <2>1. i \in 1 .. Len(e.buf)
    BY <1>1, <1>3
  <2>2. CASE i > r
    <3>1. i - r \in 1 .. k /\ (1 + r) + (i - r) = i + 1
      BY <1>1, <2>2, SMTT(30)
    <3>2. b[i] = d[i - r]
      BY <1>1, <1>5, <2>1, <2>2
    <3>3. QED BY <3>1, <3>2
  <2>3. CASE ~(i > r)
    <3>1. b[i] = e.buf[i] /\ i \in 1 .. r
      BY <1>1, <1>5, <2>1, <2>3
    <3>2. QED BY <3>1 DEF WellDone
  <2>4. QED BY <2>2, <2>3
<1>9. WellDone(script, p, o, t, f)
  <2>1. /\ f.to = t.to /\ f.from = t.from
        /\ f.len = IF t.to = None THEN 0 ELSE script[o].length[p]
        /\ f.sent <= f.len
        /\ t.from = None => f.known
        /\ f.freed => f.known /\ f.sent = f.len
        /\ f.newLen = IF f.known /\ t.from # None THEN script[o].length[t.from] ELSE 0
    BY <1>2 DEF WellDone
  <2>2. f.received <= f.newLen /\ f.newLen <= Len(f.buf)
    BY <1>2, <1>3, <1>5
  <2>3. \A i \in 1 .. f.received : f.buf[i] = Nth(script, t.from, o, i + 1)
    BY <1>2, <1>8
  <2>4. ASSUME script[o].inPlace
        PROVE  /\ f.len <= Len(f.buf)
               /\ f.received <= f.sent \/ f.sent = f.len
               /\ ~f.freed => \A i \in f.sent + 1 .. f.len :
                                    f.buf[i] = Nth(script, p, o, i + 1)
    <3>1. /\ e.len <= Len(e.buf)
          /\ ~e.freed => \A i \in e.sent + 1 .. e.len : e.buf[i] = Nth(script, p, o, i + 1)
      BY <2>4 DEF WellDone
    <3>2. r + k <= e.sent \/ e.sent = e.len
      BY <1>1, <2>4
    <3>3. ASSUME ~e.freed, NEW i \in e.sent + 1 .. e.len
          PROVE  b[i] = Nth(script, p, o, i + 1)
      <4>1. i \in 1 .. Len(e.buf) /\ ~(i <= r + k)
        BY <1>1, <3>1, <3>2, SMTT(30)
      <4>2. b[i] = e.buf[i]
        BY <1>5, <4>1
      <4>3. QED BY <3>1, <3>3, <4>2
    <3>4. QED BY <1>2, <1>5, <3>1, <3>2, <3>3
  <2>5. QED BY <2>1, <2>2, <2>3, <2>4 DEF WellDone
<1>10. Taken(f) = Taken(e) + k
  BY <1>1, <1>2, <1>7 DEF Taken
<1>11. QED BY <1>2, <1>6, <1>9, <1>10 DEF f

\* The operations that may receive into the stream they send from have one transfer.
LEMMA OneTransfer ==
    ASSUME NEW p \in Party, NEW a \in Operation, Usable(a), a.inPlace,
           NEW g \in 1 .. Len(Parts(p, a)), NEW j \in 1 .. Len(Parts(p, a)[g])
    PROVE  /\ g = 1 /\ j = 1
           /\ Parts(p, a)[g][j].to \in Party
<1>1. a.kind \in {"exchange", "pass"}
  BY DEF Usable
<1>2. CASE a.kind = "exchange"
  <2>1. PICK q \in Party \ {p} : Parts(p, a) = << <<Transfer(q, q)>> >>
    <3>1. Parts(p, a) # <<>>
      OBVIOUS
    <3>2. QED BY <1>2, <3>1, Partners
  <2>2. Len(Parts(p, a)) = 1 /\ Len(Parts(p, a)[1]) = 1
    BY <2>1
  <2>3. g = 1 /\ j = 1
    <3>1. g = 1
      BY <2>2
    <3>2. j \in 1 .. 1
      BY <2>2, <3>1
    <3>3. QED BY <3>1, <3>2
  <2>4. QED BY <2>1, <2>3 DEF Transfer
<1>3. CASE a.kind = "pass"
  <2>1. Parts(p, a) = << <<Transfer(GetPlayer(p, a.offset), GetPlayer(p, N - a.offset))>> >>
    BY <1>3, PartsAre
  <2>2. GetPlayer(p, a.offset) \in Party
    <3>1. a.offset \in 0 .. N
      BY PartyAssumption, PartsAre
    <3>2. QED BY <3>1, Around
  <2>3. Len(Parts(p, a)) = 1 /\ Len(Parts(p, a)[1]) = 1
    BY <2>1
  <2>4. g = 1 /\ j = 1
    <3>1. g = 1
      BY <2>3
    <3>2. j \in 1 .. 1
      BY <2>3, <3>1
    <3>3. QED BY <3>1, <3>2
  <2>5. QED BY <2>1, <2>2, <2>4 DEF Transfer
<1>4. QED BY <1>1, <1>2, <1>3

\* It learns the length of what it is to receive.
LEMMA ResizeWell ==
    ASSUME script \in Scripts, NEW p \in Party, NEW o \in 1 .. Len(script), op[p] = o,
           NEW g \in 1 .. Len(Parts(p, script[o])),
           NEW j \in 1 .. Len(Parts(p, script[o])[g]),
           NEW e \in Exchangers, WellDone(script, p, o, Parts(p, script[o])[g][j], e),
           ~e.known, e.from \in Party, NEW n, n = script[o].length[e.from]
    PROVE  /\ Resized(p, e, n) \in Exchangers
           /\ WellDone(script, p, o, Parts(p, script[o])[g][j], Resized(p, e, n))
           /\ Resized(p, e, n).sent = e.sent /\ Taken(Resized(p, e, n)) = Taken(e) + 1
<1> DEFINE t == Parts(p, script[o])[g][j]
           size == Larger(n, e.len)
           item(i) == IF i <= Len(e.buf) THEN e.buf[i] ELSE Junk
           b == [i \in 1 .. Larger(Len(e.buf), size) |-> item(i)]
           free == InPlace(p) /\ size >= e.len + Spare
           f == Resized(p, e, n)
<1>1. /\ e.len \in Nat /\ e.sent \in Nat /\ e.received \in Nat /\ e.newLen \in Nat
      /\ e.buf \in Seq(Item) /\ Len(e.buf) \in Nat
  BY DEF Exchangers
<1>2. /\ script[o] \in Operation /\ Usable(script[o])
      /\ \A q \in Party : script[o].length[q] \in Nat
  BY ScriptFacts
<1>3. n \in Nat /\ size \in Nat /\ size >= n /\ size >= e.len
  BY <1>1, <1>2 DEF Larger
<1>4. /\ f.known = TRUE /\ f.newLen = n /\ f.buf = b /\ f.freed = free
      /\ f.sent = e.sent /\ f.received = e.received /\ f.len = e.len
      /\ f.to = e.to /\ f.from = e.from
  BY DEF Resized, Exchangers
<1>5. f = [e EXCEPT !.known = TRUE, !.newLen = n, !.buf = b, !.freed = free]
  BY DEF Resized
<1>6. Larger(Len(e.buf), size) \in Nat /\ Larger(Len(e.buf), size) >= Len(e.buf)
      /\ Larger(Len(e.buf), size) >= size
  BY <1>1, <1>3 DEF Larger
<1>7. /\ b \in Seq(Item) /\ Len(b) >= size /\ Len(b) \in Nat /\ Len(b) >= Len(e.buf)
      /\ \A i \in 1 .. Len(e.buf) : b[i] = e.buf[i]
  <2>1. \A i \in 1 .. Larger(Len(e.buf), size) : item(i) \in Item
    <3>1. Junk \in Item
      BY DEF Junk, Item
    <3>2. \A i \in 1 .. Larger(Len(e.buf), size) : i <= Len(e.buf) => e.buf[i] \in Item
      BY <1>1
    <3>3. QED BY <3>1, <3>2
  <2> HIDE DEF item
  <2>2. /\ b \in Seq(Item) /\ Len(b) = Larger(Len(e.buf), size)
        /\ \A i \in 1 .. Larger(Len(e.buf), size) : b[i] = item(i)
    BY <1>6, <2>1
  <2>3. \A i \in 1 .. Len(e.buf) :
           i \in 1 .. Larger(Len(e.buf), size) /\ item(i) = e.buf[i]
    BY <1>1, <1>6 DEF item
  <2> HIDE DEF b
  <2>4. QED BY <1>6, <2>2, <2>3
<1>8. free \in BOOLEAN
  OBVIOUS
<1> HIDE DEF f, b, item
<1>9. f \in Exchangers
  BY <1>3, <1>5, <1>7, <1>8 DEF Exchangers
<1>10. /\ e.from = t.from /\ e.to = t.to /\ e.received = 0 /\ ~e.freed /\ e.sent <= e.len
       /\ e.len = IF t.to = None THEN 0 ELSE script[o].length[p]
       /\ t.from # None
  <2>1. e.newLen = 0 /\ e.received <= e.newLen
    BY DEF WellDone
  <2>2. e.received = 0
    BY <1>1, <2>1
  <2>3. QED BY <2>2, NoParty DEF WellDone
<1>11. ASSUME free
       PROVE  e.sent = e.len
  <2>1. script[o].inPlace /\ size >= e.len + Spare
    BY <1>11 DEF InPlace
  <2>2. t = Parts(p, script[o])[g][1] /\ t.to # None
    <3>1. script[o] \in Operation /\ Usable(script[o]) /\ script[o].inPlace
      BY <1>2, <2>1
    <3>2. g = 1 /\ j = 1 /\ Parts(p, script[o])[g][j].to \in Party
      BY <3>1, OneTransfer
    <3>3. QED BY <3>2, NoParty
  <2>3. e.len = script[o].length[p]
    BY <1>10, <2>2
  <2>4. g \in DOMAIN Parts(p, script[o])
    BY <1>2, PartsFew
  <2>5. e.len = 0 \/ Larger(e.len, n) < e.len + Spare
    <3>1. \/ script[o].length[p] = 0
          \/ Larger(script[o].length[p], script[o].length[t.from])
                < script[o].length[p] + Spare
      BY <1>2, <2>1, <2>2, <2>4 DEF Usable
    <3>2. QED BY <1>10, <2>3, <3>1
  <2>6. Larger(e.len, n) = size
    BY <1>1, <1>3 DEF Larger
  <2>7. Spare \in Nat
    BY RoomAssumption
  <2>8. e.len = 0
    BY <1>1, <1>3, <2>1, <2>5, <2>6, <2>7
  <2>9. QED BY <1>1, <1>10, <2>8
<1> HIDE DEF t, free
<1>12. WellDone(script, p, o, t, f)
  <2>1. /\ f.to = t.to /\ f.from = t.from
        /\ f.len = IF t.to = None THEN 0 ELSE script[o].length[p]
        /\ f.sent <= f.len
        /\ t.from = None => f.known
        /\ f.freed => f.known /\ f.sent = f.len
    BY <1>4, <1>10, <1>11
  <2>2. f.newLen = IF f.known /\ t.from # None THEN script[o].length[t.from] ELSE 0
    BY <1>4, <1>10
  <2>3. f.received <= f.newLen /\ f.newLen <= Len(f.buf)
    BY <1>3, <1>4, <1>7, <1>10
  <2>4. \A i \in 1 .. f.received : f.buf[i] = Nth(script, t.from, o, i + 1)
    BY <1>4, <1>10
  <2>5. ASSUME script[o].inPlace
        PROVE  /\ f.len <= Len(f.buf)
               /\ f.received <= f.sent \/ f.sent = f.len
               /\ ~f.freed => \A i \in f.sent + 1 .. f.len :
                                    f.buf[i] = Nth(script, p, o, i + 1)
    <3>1. /\ e.len <= Len(e.buf)
          /\ \A i \in e.sent + 1 .. e.len : e.buf[i] = Nth(script, p, o, i + 1)
      BY <1>10, <2>5 DEF WellDone, t
    <3>2. \A i \in e.sent + 1 .. e.len : i \in 1 .. Len(e.buf)
      BY <1>1, <3>1, SMTT(30)
    <3>3. \A i \in e.sent + 1 .. e.len : b[i] = Nth(script, p, o, i + 1)
      BY <1>7, <3>1, <3>2
    <3>4. f.len <= Len(f.buf) /\ f.received <= f.sent
      BY <1>1, <1>3, <1>4, <1>7, <1>10
    <3>5. QED BY <1>4, <3>3, <3>4
  <2>6. QED BY <2>1, <2>2, <2>3, <2>4, <2>5 DEF WellDone
<1>13. Taken(f) = Taken(e) + 1
  BY <1>4, <1>10 DEF Taken
<1>14. QED BY <1>4, <1>9, <1>12, <1>13 DEF f, t

-----------------------------------------------------------------------------
(* The halves of a round.                                                  *)

\* What the parties have sent and received when one Exchanger of one of them has gone on.
LEMMA OneGoesOn ==
    ASSUME script \in Scripts, NEW x, NEW c, Consistent(x, c),
           NEW p \in Party, NEW j \in 1 .. Len(x[p]), NEW e \in Exchangers,
           WellDone(script, p, op[p], Parts(p, script[op[p]])[group[p]][j], e)
    PROVE  LET y == [x EXCEPT ![p][j] = e]
           IN  /\ y \in [Party -> Seq(Exchangers)] /\ Located(y)
               /\ \A q \in Party : q # p => y[q] = x[q]
               /\ Len(y[p]) = Len(x[p]) /\ y[p][j] = e
               /\ \A q \in Party :
                     /\ x[p][j].to = q => SentBy(script, op[p], group[p], y[p], p, q)
                                             = SentBy(script, op[p], group[p], x[p], p, q)
                                                  + (e.sent - x[p][j].sent)
                     /\ x[p][j].to # q => SentBy(script, op[p], group[p], y[p], p, q)
                                             = SentBy(script, op[p], group[p], x[p], p, q)
                     /\ x[p][j].from = q => GotBy(script, op[p], group[p], y[p], p, q)
                                               = GotBy(script, op[p], group[p], x[p], p, q)
                                                    + (Taken(e) - Taken(x[p][j]))
                     /\ x[p][j].from # q => GotBy(script, op[p], group[p], y[p], p, q)
                                               = GotBy(script, op[p], group[p], x[p], p, q)
<1> DEFINE o == op[p]
           g == group[p]
           z == x[p]
           w == With(z, j, e)
           y == [x EXCEPT ![p][j] = e]
<1>1. x \in [Party -> Seq(Exchangers)] /\ Local(script, o, g, z, p)
  BY DEF Consistent, Typed, Located
<1>2. j \in 1 .. Len(z) /\ WellDone(script, p, o, Parts(p, script[o])[g][j], e)
  OBVIOUS
<1> HIDE DEF z, o, g
<1>3. /\ Local(script, o, g, w, p)
      /\ \A q \in Party :
            /\ z[j].to = q =>
                  SentBy(script, o, g, w, p, q) = Before(script, p, q, o) + (1 + e.sent)
            /\ z[j].to # q => SentBy(script, o, g, w, p, q) = SentBy(script, o, g, z, p, q)
            /\ z[j].from = q =>
                  GotBy(script, o, g, w, p, q) = Before(script, q, p, o) + Taken(e)
            /\ z[j].from # q => GotBy(script, o, g, w, p, q) = GotBy(script, o, g, z, p, q)
  BY <1>1, <1>2, GoesOn
<1>4. /\ z \in Seq(Exchangers) /\ Len(z) \in Nat /\ z[j] \in Exchangers
      /\ w \in Seq(Exchangers) /\ Len(w) = Len(z) /\ w[j] = e
  <2>1. z \in Seq(Exchangers)
    BY <1>1 DEF Local
  <2>2. w \in Seq(Exchangers) /\ Len(w) = Len(z) /\ w[j] = e
    BY <1>2, <2>1, ExceptSeq DEF With
  <2>3. QED BY <1>2, <2>1, <2>2
<1>5. /\ y \in [Party -> Seq(Exchangers)] /\ y[p] = w
      /\ \A q \in Party : q # p => y[q] = x[q]
  BY <1>1, <1>4 DEF z, With
<1>6. \A q \in Party : Local(script, op[q], group[q], x[q], q)
  BY DEF Consistent, Located
<1> HIDE DEF w, y
<1>7. Located(y)
  BY <1>3, <1>5, <1>6 DEF Located, o, g
<1>8. o \in 1 .. Len(script) + 1
  BY <1>1 DEF Local
<1>9. ASSUME NEW q \in Party
      PROVE  /\ z[j].to = q => SentBy(script, o, g, w, p, q)
                                  = SentBy(script, o, g, z, p, q) + (e.sent - z[j].sent)
             /\ z[j].from = q => GotBy(script, o, g, w, p, q)
                                    = GotBy(script, o, g, z, p, q) + (Taken(e) - Taken(z[j]))
  <2>1. /\ Before(script, p, q, o) \in Nat /\ Before(script, q, p, o) \in Nat
        /\ SentBy(script, o, g, z, p, q) \in Nat /\ GotBy(script, o, g, z, p, q) \in Nat
    BY <1>1, <1>8, BeforeGrows, Within
  <2>2. \A f \in Exchangers : f.sent \in Nat /\ Taken(f) \in Nat
    BY DEF Exchangers, Taken
  <2>3. /\ e.sent \in Nat /\ z[j].sent \in Nat /\ Taken(e) \in Nat /\ Taken(z[j]) \in Nat
    BY <1>4, <2>2
  <2>4. /\ z[j].to = q =>
              SentBy(script, o, g, z, p, q) = Before(script, p, q, o) + (1 + z[j].sent)
        /\ z[j].from = q =>
              GotBy(script, o, g, z, p, q) = Before(script, q, p, o) + Taken(z[j])
    BY <1>1, <1>2, Underway
  <2>5. ASSUME z[j].to = q
        PROVE  SentBy(script, o, g, w, p, q)
                  = SentBy(script, o, g, z, p, q) + (e.sent - z[j].sent)
    <3>1. SentBy(script, o, g, w, p, q) = Before(script, p, q, o) + (1 + e.sent)
      BY <1>3, <2>5
    <3>2. QED BY <2>1, <2>4, <2>3, <2>5, <3>1, SMTT(30)
  <2>6. ASSUME z[j].from = q
        PROVE  GotBy(script, o, g, w, p, q)
                  = GotBy(script, o, g, z, p, q) + (Taken(e) - Taken(z[j]))
    <3>1. GotBy(script, o, g, w, p, q) = Before(script, q, p, o) + Taken(e)
      BY <1>3, <2>6
    <3>2. QED BY <2>1, <2>4, <2>3, <2>6, <3>1
  <2>7. QED BY <2>5, <2>6
<1>10. QED BY <1>3, <1>4, <1>5, <1>7, <1>9 DEF z, y, o, g

\* After what it sends the wires still hold what was sent and not received.
LEMMA SendingHalf ==
    ASSUME script \in Scripts, Consistent(ex, chan), NEW p \in Party,
           op[p] \in 1 .. Len(script), NEW j \in 1 .. Len(ex[p]),
           NEW n \in Nat, n <= ex[p][j].len - ex[p][j].sent,
           ex[p][j].to = None => n = 0,
           n # 0 => n <= Room - Len(chan[p][ex[p][j].to]),
           NEW s \in Outgoing(p, ex[p][j], n)
    PROVE  LET e  == ex[p][j]
               e1 == SentMore(e, n)
               c1 == IF n = 0 THEN chan ELSE [chan EXCEPT ![p][e.to] = @ \o s]
           IN  Consistent([ex EXCEPT ![p][j] = e1], c1)
<1> DEFINE e == ex[p][j]
           e1 == SentMore(e, n)
           c1 == IF n = 0 THEN chan ELSE [chan EXCEPT ![p][e.to] = @ \o s]
           y == [ex EXCEPT ![p][j] = e1]
           o == op[p]
           t == Parts(p, script[op[p]])[group[p]][j]
<1>1. /\ ex \in [Party -> Seq(Exchangers)] /\ chan \in [Party -> [Party -> Seq(Item)]]
      /\ Local(script, o, group[p], ex[p], p)
      /\ \A a \in Party, b \in Party : Len(chan[a][b]) <= Room
  BY DEF Consistent, Typed, Located
<1>2. e \in Exchangers /\ WellDone(script, p, o, t, e) /\ ex[p] # <<>>
  <2>1. ex[p] \in Seq(Exchangers) /\ \A k \in 1 .. Len(ex[p]) :
              WellDone(script, p, o, Parts(p, script[o])[group[p]][k], ex[p][k])
    BY <1>1 DEF Local
  <2>2. QED BY <2>1
<1>3. /\ n <= e.len - e.sent /\ s \in Outgoing(p, e, n)
      /\ e.to = None => n = 0
      /\ n # 0 => n <= Room - Len(chan[p][e.to])
  OBVIOUS
<1>4. /\ o \in 1 .. Len(script) /\ group[p] \in 1 .. Len(Parts(p, script[o]))
      /\ j \in 1 .. Len(Parts(p, script[o])[group[p]])
      /\ script[o] \in Operation
  BY <1>1, <1>2, Standing
<1>5. t.to \in Party \cup {None} /\ e.to = t.to
  BY <1>2, <1>4, PartsFew DEF WellDone
<1>6. /\ e1 \in Exchangers /\ WellDone(script, p, o, t, e1)
      /\ e1.sent = e.sent + n /\ Taken(e1) = Taken(e)
      /\ s \in Seq(Item) /\ Len(s) = n
      /\ \A i \in 1 .. n : s[i] = Nth(script, p, o, (1 + e.sent) + i)
  <2> HIDE DEF e, t
  <2>1. QED BY <1>2, <1>4, <1>3, SendWell
<1> HIDE DEF e, e1, t
<1>7. /\ y \in [Party -> Seq(Exchangers)] /\ Located(y)
      /\ \A q \in Party : q # p => y[q] = ex[q]
      /\ \A q \in Party :
            /\ e.to = q => SentBy(script, o, group[p], y[p], p, q)
                              = SentBy(script, o, group[p], ex[p], p, q) + (e1.sent - e.sent)
            /\ e.to # q => SentBy(script, o, group[p], y[p], p, q)
                              = SentBy(script, o, group[p], ex[p], p, q)
            /\ e.from = q => GotBy(script, o, group[p], y[p], p, q)
                                = GotBy(script, o, group[p], ex[p], p, q)
                                     + (Taken(e1) - Taken(e))
            /\ e.from # q => GotBy(script, o, group[p], y[p], p, q)
                                = GotBy(script, o, group[p], ex[p], p, q)
  BY <1>6, OneGoesOn DEF t, e
<1>8. e.sent \in Nat /\ e.len \in Nat /\ Taken(e) \in Nat
  BY <1>2 DEF Exchangers, Taken
<1> HIDE DEF y
<1>9. \A a \in Party, b \in Party :
         /\ SentBy(script, op[a], group[a], ex[a], a, b) \in Nat
         /\ GotBy(script, op[a], group[a], ex[a], a, b) \in Nat
  BY Within DEF Consistent, Located
<1>10. \A a \in Party, b \in Party :
          /\ GotBy(script, op[a], group[a], y[a], a, b)
                = GotBy(script, op[a], group[a], ex[a], a, b)
          /\ a # p \/ b # e.to => SentBy(script, op[a], group[a], y[a], a, b)
                                     = SentBy(script, op[a], group[a], ex[a], a, b)
          /\ a = p /\ b = e.to => SentBy(script, op[a], group[a], y[a], a, b)
                                     = SentBy(script, op[a], group[a], ex[a], a, b) + n
  <2> SUFFICES ASSUME NEW a \in Party, NEW b \in Party
               PROVE  /\ GotBy(script, op[a], group[a], y[a], a, b)
                            = GotBy(script, op[a], group[a], ex[a], a, b)
                      /\ a # p \/ b # e.to =>
                            SentBy(script, op[a], group[a], y[a], a, b)
                               = SentBy(script, op[a], group[a], ex[a], a, b)
                      /\ a = p /\ b = e.to =>
                            SentBy(script, op[a], group[a], y[a], a, b)
                               = SentBy(script, op[a], group[a], ex[a], a, b) + n
    OBVIOUS
  <2>1. CASE a = p
    <3>1. e1.sent - e.sent = n /\ Taken(e1) - Taken(e) = 0
      BY <1>6, <1>8
    <3>2. GotBy(script, op[p], group[p], y[p], p, b)
             = GotBy(script, op[p], group[p], ex[p], p, b)
      <4>1. GotBy(script, op[p], group[p], ex[p], p, b) \in Nat
        BY <1>9
      <4>2. QED BY <1>7, <3>1, <4>1
    <3>3. /\ b # e.to => SentBy(script, op[p], group[p], y[p], p, b)
                            = SentBy(script, op[p], group[p], ex[p], p, b)
          /\ b = e.to => SentBy(script, op[p], group[p], y[p], p, b)
                            = SentBy(script, op[p], group[p], ex[p], p, b) + n
      BY <1>7, <3>1
    <3>4. QED BY <2>1, <3>2, <3>3
  <2>2. CASE a # p
    <3>1. y[a] = ex[a]
      BY <1>7, <2>2
    <3>2. QED BY <2>2, <3>1
  <2>3. QED BY <2>1, <2>2
<1>11. ASSUME NEW a \in Party, NEW b \in Party
       PROVE  /\ c1[a][b] \in Seq(Item) /\ Len(c1[a][b]) <= Room
              /\ Holds(script, a, b, c1[a][b],
                       GotBy(script, op[b], group[b], y[b], b, a),
                       SentBy(script, op[a], group[a], y[a], a, b))
  <2>1. Holds(script, a, b, chan[a][b], GotBy(script, op[b], group[b], ex[b], b, a),
                                        SentBy(script, op[a], group[a], ex[a], a, b))
    BY DEF Consistent, Wired
  <2>2. CASE n = 0 \/ a # p \/ b # e.to
    <3>1. c1[a][b] = chan[a][b]
      BY <1>1, <2>2
    <3>2. SentBy(script, op[a], group[a], y[a], a, b)
             = SentBy(script, op[a], group[a], ex[a], a, b)
      <4>1. CASE n = 0 /\ a = p /\ b = e.to
        <5>1. SentBy(script, op[a], group[a], ex[a], a, b) \in Nat
          BY <1>9
        <5>2. QED BY <1>10, <4>1, <5>1
      <4>2. CASE a # p \/ b # e.to
        BY <1>10, <4>2
      <4>3. QED BY <2>2, <4>1, <4>2
    <3>3. GotBy(script, op[b], group[b], y[b], b, a)
             = GotBy(script, op[b], group[b], ex[b], b, a)
      BY <1>10
    <3>4. chan[a][b] \in Seq(Item) /\ Len(chan[a][b]) <= Room
      BY <1>1
    <3>5. QED BY <2>1, <3>1, <3>2, <3>3, <3>4
  <2>3. CASE n # 0 /\ a = p /\ b = e.to
    <3>1. c1[a][b] = chan[a][b] \o s /\ chan[a][b] \in Seq(Item)
      BY <1>1, <2>3
    <3> DEFINE m == SentBy(script, o, group[p], ex[p], p, b)
               v == Before(script, p, b, o)
               r == GotBy(script, op[b], group[b], ex[b], b, p)
    <3>2. m = v + (1 + e.sent) /\ Sends(p, b, script[o])
      BY <1>1, <2>3, Underway DEF e
    <3>3. Size(script, p, b, o) = script[o].length[p] + 1 /\ script[o].length[p] \in Nat
      BY <1>4, <3>2, ScriptFacts DEF Size
    <3>4. e.len = script[o].length[p]
      BY <1>2, <1>5, <2>3, NoParty DEF WellDone
    <3>5. (1 + e.sent) + Len(s) <= Size(script, p, b, o)
      BY <1>6, <1>8, <1>3, <3>3, <3>4, SMTT(30)
    <3>6. Holds(script, p, b, s, v + (1 + e.sent), v + (1 + e.sent) + Len(s))
      <4>1. \A i \in 1 .. Len(s) : s[i] = Nth(script, p, o, (1 + e.sent) + i)
        BY <1>6
      <4>2. 1 + e.sent \in Nat
        BY <1>8
      <4>3. QED BY <1>4, <1>6, <3>5, <4>1, <4>2, Piece
    <3>7. /\ m \in Nat /\ r \in Nat /\ v \in Nat
          /\ SentBy(script, op[a], group[a], y[a], a, b) = m + n
          /\ GotBy(script, op[b], group[b], y[b], b, a) = r
      <4>1. v \in Nat
        BY <1>4, BeforeGrows
      <4>2. QED BY <1>9, <1>10, <2>3, <4>1
    <3>8. Holds(script, p, b, s, m, m + n)
      BY <1>6, <3>2, <3>6
    <3>9. Holds(script, p, b, chan[a][b], r, m)
      BY <2>1, <2>3
    <3> HIDE DEF m, v, r
    <3>10. /\ Holds(script, p, b, chan[a][b] \o s, r, m + n)
           /\ chan[a][b] \o s \in Seq(Item)
      <4>1. m + n \in Nat
        BY <3>7
      <4>2. QED BY <1>6, <3>1, <3>7, <3>8, <3>9, <4>1, SendKeeps
    <3>11. Len(chan[a][b] \o s) <= Room
      <4>1. n <= Room - Len(chan[a][b])
        BY <1>3, <2>3
      <4>2. Len(chan[a][b] \o s) = Len(chan[a][b]) + Len(s) /\ Len(chan[a][b]) \in Nat
        <5>1. chan[a][b] \in Seq(Item) /\ s \in Seq(Item)
          BY <1>6, <3>1
        <5> HIDE DEF c1
        <5>2. QED BY <5>1, ConcatProperties
      <4>3. QED BY <1>6, <4>1, <4>2, RoomAssumption
    <3>12. QED BY <2>3, <3>1, <3>7, <3>10, <3>11
  <2>4. QED BY <2>2, <2>3
<1>12. c1 \in [Party -> [Party -> Seq(Item)]]
  <2>1. CASE n = 0
    BY <1>1, <2>1
  <2>2. CASE n # 0
    <3>1. \A a \in Party, b \in Party : c1[a][b] \in Seq(Item)
      BY <1>11
    <3>2. e.to \in Party
      BY <1>5, <1>3, <2>2
    <3>3. chan[p][e.to] \o s = c1[p][e.to]
      BY <1>1, <2>2, <3>2
    <3>4. chan[p][e.to] \o s \in Seq(Item)
      BY <3>1, <3>2, <3>3
    <3>5. QED BY <1>1, <2>2, <3>2, <3>4
  <2>3. QED BY <2>1, <2>2
<1> HIDE DEF c1
<1>13. QED BY <1>7, <1>11, <1>12 DEF Consistent, Typed, Wired, c1, y, e1, e

-----------------------------------------------------------------------------
\* After what it receives they do, too.
LEMMA ReceivingHalf ==
    ASSUME script \in Scripts, NEW x, NEW c, Consistent(x, c), NEW p \in Party,
           NEW j \in 1 .. Len(x[p]), NEW r \in Party, r = x[p][j].from, NEW e \in Exchangers,
           WellDone(script, p, op[p], Parts(p, script[op[p]])[group[p]][j], e),
           NEW k \in 0 .. Len(c[r][p]),
           e.sent = x[p][j].sent, Taken(e) = Taken(x[p][j]) + k
    PROVE  Consistent([x EXCEPT ![p][j] = e],
                      [c EXCEPT ![r][p] = SubSeq(@, k + 1, Len(@))])
<1> DEFINE d == x[p][j]
           y == [x EXCEPT ![p][j] = e]
           w == SubSeq(c[r][p], k + 1, Len(c[r][p]))
           c2 == [c EXCEPT ![r][p] = SubSeq(@, k + 1, Len(@))]
<1>1. /\ x \in [Party -> Seq(Exchangers)] /\ c \in [Party -> [Party -> Seq(Item)]]
      /\ \A a \in Party, b \in Party : Len(c[a][b]) <= Room
  BY DEF Consistent, Typed
<1>2. d \in Exchangers
  BY <1>1
<1>3. d.sent \in Nat /\ Taken(d) \in Nat
  <2>1. \A f \in Exchangers : f.sent \in Nat /\ Taken(f) \in Nat
    BY DEF Exchangers, Taken
  <2>2. QED BY <1>2, <2>1
<1>4. /\ d.from = r /\ e.sent = d.sent /\ Taken(e) = Taken(d) + k
  OBVIOUS
<1>5. /\ y \in [Party -> Seq(Exchangers)] /\ Located(y)
      /\ \A q \in Party : q # p => y[q] = x[q]
      /\ \A q \in Party :
            /\ d.to = q => SentBy(script, op[p], group[p], y[p], p, q)
                              = SentBy(script, op[p], group[p], x[p], p, q) + (e.sent - d.sent)
            /\ d.to # q => SentBy(script, op[p], group[p], y[p], p, q)
                              = SentBy(script, op[p], group[p], x[p], p, q)
            /\ d.from = q => GotBy(script, op[p], group[p], y[p], p, q)
                                = GotBy(script, op[p], group[p], x[p], p, q)
                                     + (Taken(e) - Taken(d))
            /\ d.from # q => GotBy(script, op[p], group[p], y[p], p, q)
                                = GotBy(script, op[p], group[p], x[p], p, q)
  BY OneGoesOn, ZenonT(40)
<1>6. /\ c2 = [c EXCEPT ![r][p] = w]
      /\ c2[r][p] = w
      /\ \A a \in Party, b \in Party : a # r \/ b # p => c2[a][b] = c[a][b]
  BY <1>1
<1>7. k \in Nat /\ k <= Len(c[r][p]) /\ Len(c[r][p]) \in Nat /\ c[r][p] \in Seq(Item)
  <2>1. c[r][p] \in Seq(Item)
    BY <1>1
  <2>2. Len(c[r][p]) \in Nat
    BY <2>1
  <2>3. QED BY <2>1, <2>2
<1> HIDE DEF d, y, w, c2
<1>8. \A a \in Party, b \in Party :
         /\ SentBy(script, op[a], group[a], x[a], a, b) \in Nat
         /\ GotBy(script, op[a], group[a], x[a], a, b) \in Nat
  BY Within DEF Consistent, Located
<1>9. \A a \in Party, b \in Party :
         /\ SentBy(script, op[a], group[a], y[a], a, b)
               = SentBy(script, op[a], group[a], x[a], a, b)
         /\ a # p \/ b # r => GotBy(script, op[a], group[a], y[a], a, b)
                                 = GotBy(script, op[a], group[a], x[a], a, b)
         /\ a = p /\ b = r => GotBy(script, op[a], group[a], y[a], a, b)
                                 = GotBy(script, op[a], group[a], x[a], a, b) + k
  <2> SUFFICES ASSUME NEW a \in Party, NEW b \in Party
               PROVE  /\ SentBy(script, op[a], group[a], y[a], a, b)
                            = SentBy(script, op[a], group[a], x[a], a, b)
                      /\ a # p \/ b # r =>
                            GotBy(script, op[a], group[a], y[a], a, b)
                               = GotBy(script, op[a], group[a], x[a], a, b)
                      /\ a = p /\ b = r =>
                            GotBy(script, op[a], group[a], y[a], a, b)
                               = GotBy(script, op[a], group[a], x[a], a, b) + k
    OBVIOUS
  <2>1. CASE a = p
    <3>1. e.sent - d.sent = 0 /\ Taken(e) - Taken(d) = k
      BY <1>3, <1>4, <1>7
    <3>2. SentBy(script, op[p], group[p], y[p], p, b)
             = SentBy(script, op[p], group[p], x[p], p, b)
      <4>1. SentBy(script, op[p], group[p], x[p], p, b) \in Nat
        BY <1>8
      <4>2. QED BY <1>5, <3>1, <4>1
    <3>3. /\ b # r => GotBy(script, op[p], group[p], y[p], p, b)
                         = GotBy(script, op[p], group[p], x[p], p, b)
          /\ b = r => GotBy(script, op[p], group[p], y[p], p, b)
                         = GotBy(script, op[p], group[p], x[p], p, b) + k
      BY <1>4, <1>5, <3>1
    <3>4. QED BY <2>1, <3>2, <3>3
  <2>2. CASE a # p
    <3>1. y[a] = x[a]
      BY <1>5, <2>2
    <3>2. QED BY <2>2, <3>1
  <2>3. QED BY <2>1, <2>2
<1>10. ASSUME NEW a \in Party, NEW b \in Party
       PROVE  /\ c2[a][b] \in Seq(Item) /\ Len(c2[a][b]) <= Room
              /\ Holds(script, a, b, c2[a][b],
                       GotBy(script, op[b], group[b], y[b], b, a),
                       SentBy(script, op[a], group[a], y[a], a, b))
  <2>1. Holds(script, a, b, c[a][b], GotBy(script, op[b], group[b], x[b], b, a),
                                     SentBy(script, op[a], group[a], x[a], a, b))
    BY DEF Consistent, Wired
  <2>2. CASE a # r \/ b # p
    <3>1. c2[a][b] = c[a][b] /\ c[a][b] \in Seq(Item) /\ Len(c[a][b]) <= Room
      BY <1>1, <1>6, <2>2
    <3>2. /\ SentBy(script, op[a], group[a], y[a], a, b)
                = SentBy(script, op[a], group[a], x[a], a, b)
          /\ GotBy(script, op[b], group[b], y[b], b, a)
                = GotBy(script, op[b], group[b], x[b], b, a)
      BY <1>9, <2>2
    <3>3. QED BY <2>1, <3>1, <3>2
  <2>3. CASE a = r /\ b = p
    <3> DEFINE u == GotBy(script, op[p], group[p], x[p], p, r)
               m == SentBy(script, op[r], group[r], x[r], r, p)
    <3>1. u \in Nat /\ m \in Nat
      BY <1>8
    <3>2. /\ SentBy(script, op[r], group[r], y[r], r, p) = m
          /\ GotBy(script, op[p], group[p], y[p], p, r) = u + k
      BY <1>9
    <3>3. Holds(script, r, p, c[r][p], u, m)
      BY <2>1, <2>3
    <3> HIDE DEF u, m
    <3>4. Holds(script, r, p, w, u + k, m) /\ w \in Seq(Item) /\ Len(w) = Len(c[r][p]) - k
      <4> DEFINE v == c[r][p]
      <4>1. v \in Seq(Item) /\ k \in 0 .. Len(v) /\ Holds(script, r, p, v, u, m)
        BY <1>7, <3>3
      <4>2. w = SubSeq(v, k + 1, Len(v))
        BY DEF w
      <4> HIDE DEF v
      <4>3. /\ Holds(script, r, p, SubSeq(v, k + 1, Len(v)), u + k, m)
            /\ SubSeq(v, k + 1, Len(v)) \in Seq(Item)
            /\ Len(SubSeq(v, k + 1, Len(v))) = Len(v) - k
        BY <3>1, <4>1, ReceiveKeeps
      <4>4. QED BY <4>2, <4>3 DEF v
    <3>5. Len(w) <= Room
      <4>1. Len(c[r][p]) <= Room /\ Room \in Nat
        BY <1>1, RoomAssumption
      <4>2. QED BY <1>7, <3>4, <4>1
    <3>6. QED BY <1>6, <2>3, <3>2, <3>4, <3>5
  <2>4. QED BY <2>2, <2>3
<1>11. c2 \in [Party -> [Party -> Seq(Item)]]
  <2>1. w \in Seq(Item)
    BY <1>6, <1>10
  <2>2. QED BY <1>1, <1>6, <2>1
<1>12. QED BY <1>5, <1>10, <1>11 DEF Consistent, Typed, Wired, c2, y

\* Who has not been sent all of an operation has sent nothing of a later one.
LEMMA NoneAhead ==
    ASSUME NEW s \in Scripts, NEW p \in Party, NEW r \in Party,
           NEW o \in 1 .. Len(s), NEW g, NEW x, Local(s, o, g, x, p),
           NEW a, NEW h, NEW y, Local(s, a, h, y, r),
           GotBy(s, a, h, y, r, p) <= SentBy(s, o, g, x, p, r),
           SentBy(s, o, g, x, p, r) < Before(s, p, r, o + 1)
    PROVE  SentBy(s, a, h, y, r, p) <= Before(s, r, p, o + 1)
<1> DEFINE B(b) == Before(s, r, p, b)
           F(b) == Before(s, p, r, b)
           sent == SentBy(s, o, g, x, p, r)
           got == GotBy(s, a, h, y, r, p)
           his == SentBy(s, a, h, y, r, p)
<1>1. a \in 1 .. Len(s) + 1 /\ Len(s) \in Nat /\ o \in Nat /\ o <= Len(s)
  BY ScriptFacts DEF Local
<1>2. /\ got \in Nat /\ his \in Nat /\ sent \in Nat /\ F(a) <= got
      /\ a <= Len(s) => his <= B(a + 1)
      /\ a = Len(s) + 1 => his = B(a)
      /\ got <= sent /\ sent < F(o + 1)
  BY Within
<1>3. /\ \A b \in 1 .. Len(s) + 1 : B(b) \in Nat /\ F(b) \in Nat
      /\ \A b \in 1 .. Len(s) + 1 : \A d \in b .. Len(s) + 1 : B(b) <= B(d) /\ F(b) <= F(d)
  BY BeforeGrows
<1> HIDE DEF B, F, sent, got, his
<1>4. a <= o
  <2> SUFFICES ASSUME ~(a <= o) PROVE FALSE
    OBVIOUS
  <2>1. a \in o + 1 .. Len(s) + 1 /\ o + 1 \in 1 .. Len(s) + 1 /\ a \in 1 .. Len(s) + 1
    BY <1>1
  <2>2. F(o + 1) <= F(a) /\ F(o + 1) \in Nat /\ F(a) \in Nat
    BY <1>3, <2>1
  <2>3. QED BY <1>2, <2>2
<1>5. a + 1 \in 1 .. Len(s) + 1 /\ o + 1 \in a + 1 .. Len(s) + 1 /\ a <= Len(s)
      /\ o + 1 \in 1 .. Len(s) + 1
  BY <1>1, <1>4
<1>6. B(a + 1) <= B(o + 1) /\ B(a + 1) \in Nat /\ B(o + 1) \in Nat
  BY <1>3, <1>5
<1>7. his <= B(o + 1)
  BY <1>2, <1>5, <1>6
<1>8. QED BY <1>7 DEF his, B

\* What is under way to an Exchanger, with one stream, that may take no more than it has
\* sent, is no more than it is to receive.
LEMMA NoOverread ==
    ASSUME script \in Scripts, NEW x, NEW c, Consistent(x, c), NEW p \in Party,
           NEW j \in 1 .. Len(x[p]), script[op[p]].inPlace,
           NEW e \in Exchangers, e = x[p][j], NEW r \in Party, r = e.from,
           e.received < e.newLen, e.sent < e.len
    PROVE  \A k \in 1 .. Len(c[r][p]) :
              k <= e.sent - e.received => k <= e.newLen - e.received
<1> DEFINE o == op[p]
           g == group[p]
           z == x[p]
           t == Parts(p, script[o])[g][j]
           own == script[o].length[p]
           other == script[o].length[r]
<1>1. Local(script, o, g, z, p) /\ Local(script, op[r], group[r], x[r], r)
  BY DEF Consistent, Located
<1>2. z \in Seq(Exchangers) /\ z # <<>> /\ e \in Exchangers /\ WellDone(script, p, o, t, e)
  <2>1. z \in Seq(Exchangers) /\ \A i \in 1 .. Len(z) :
              WellDone(script, p, o, Parts(p, script[o])[g][i], z[i])
    BY <1>1 DEF Local
  <2>2. QED BY <2>1
<1>3. /\ o \in 1 .. Len(script) /\ g \in 1 .. Len(Parts(p, script[o]))
      /\ j \in 1 .. Len(Parts(p, script[o])[g])
      /\ script[o] \in Operation /\ Usable(script[o]) /\ script[o].inPlace
      /\ own \in Nat /\ other \in Nat
  BY <1>1, <1>2, Standing, ScriptFacts
<1>4. /\ e.len \in Nat /\ e.sent \in Nat /\ e.received \in Nat /\ e.newLen \in Nat
      /\ c[r][p] \in Seq(Item) /\ Len(c[r][p]) \in Nat
  <2>1. /\ e.len \in Nat /\ e.sent \in Nat /\ e.received \in Nat /\ e.newLen \in Nat
    BY <1>2 DEF Exchangers
  <2>2. c[r][p] \in Seq(Item)
    BY DEF Consistent, Typed
  <2>3. Len(c[r][p]) \in Nat
    BY <2>2
  <2>4. QED BY <2>1, <2>2, <2>3
<1>5. e.from = r /\ e.received < e.newLen /\ e.sent < e.len
  OBVIOUS
<1> HIDE DEF t, z, o, g, own, other
<1>6. /\ e.to = t.to /\ t.from = r /\ e.known /\ e.newLen = other
      /\ t.to # None /\ e.len = own
  <2>1. e.from = t.from /\ r # None
    BY <1>2, NoParty DEF WellDone
  <2>2. e.newLen # 0 /\ e.len # 0
    BY <1>4, <1>5
  <2>3. e.newLen = IF e.known /\ t.from # None THEN script[o].length[t.from] ELSE 0
    BY <1>2 DEF WellDone
  <2>4. e.len = IF t.to = None THEN 0 ELSE script[o].length[p]
    BY <1>2 DEF WellDone
  <2>5. e.to = t.to
    BY <1>2 DEF WellDone
  <2>6. QED BY <1>5, <2>1, <2>2, <2>3, <2>4, <2>5 DEF own, other
<1>7. t = Parts(p, script[o])[g][1]
  <2>1. /\ script[o] \in Operation /\ Usable(script[o]) /\ script[o].inPlace
        /\ g \in 1 .. Len(Parts(p, script[o])) /\ j \in 1 .. Len(Parts(p, script[o])[g])
    BY <1>3
  <2>2. g = 1 /\ j = 1
    BY <2>1, OneTransfer
  <2>3. QED BY <2>2 DEF t
<1>8. CASE t.to # r
  <2>1. other = 0 \/ own <= other + 1
    <3>1. g \in DOMAIN Parts(p, script[o])
      BY <1>3, PartsFew
    <3>2. \/ t.to = t.from
          \/ script[o].length[t.from] = 0
          \/ script[o].length[p] <= script[o].length[t.from] + 1
      BY <1>3, <1>7, <3>1 DEF Usable
    <3>3. QED BY <1>6, <1>8, <3>2 DEF own, other
  <2>2. QED BY <1>3, <1>4, <1>5, <1>6, <2>1, SMTT(30)
<1>9. CASE t.to = r
  <2> DEFINE B == Before(script, r, p, o)
             F == Before(script, p, r, o)
             got == GotBy(script, o, g, z, p, r)
             sent == SentBy(script, o, g, z, p, r)
             hisGot == GotBy(script, op[r], group[r], x[r], r, p)
             hisSent == SentBy(script, op[r], group[r], x[r], r, p)
  <2>1. /\ sent = F + (1 + e.sent) /\ Sends(p, r, script[o])
        /\ got = B + Taken(e) /\ Takes(p, r, script[o])
    <3>1. j \in 1 .. Len(z) /\ z[j] = e
      BY DEF z
    <3>2. QED BY <1>1, <1>6, <1>9, <1>5, <3>1, Underway
  <2>2. Taken(e) = 1 + e.received
    BY <1>6 DEF Taken
  <2>3. /\ Size(script, p, r, o) = own + 1 /\ Size(script, r, p, o) = other + 1
    BY <1>3, <2>1, SentIsTaken DEF Size, own, other
  <2>4. Len(c[r][p]) = hisSent - got /\ Len(c[p][r]) = sent - hisGot /\ Len(c[p][r]) \in Nat
    <3>1. c[p][r] \in Seq(Item)
      BY DEF Consistent, Typed
    <3>2. /\ Holds(script, r, p, c[r][p], got, hisSent)
          /\ Holds(script, p, r, c[p][r], hisGot, sent)
      BY DEF Consistent, Wired, o, g, z
    <3>3. Len(c[p][r]) \in Nat
      BY <3>1
    <3>4. QED BY <3>2, <3>3 DEF Holds
  <2>5. hisGot \in Nat /\ hisSent \in Nat
    BY <1>1, Within
  <2>6. /\ Before(script, r, p, o + 1) = B + (other + 1)
        /\ Before(script, p, r, o + 1) = F + (own + 1)
        /\ B \in Nat /\ F \in Nat
    <3>1. o \in 1 .. Len(script) + 1
      BY <1>1 DEF Local
    <3>2. QED BY <1>3, <2>3, <3>1, BeforeGrows
  <2>7. hisGot <= sent /\ sent < Before(script, p, r, o + 1)
    <3>1. sent \in Nat /\ sent < F + (own + 1)
      <4>1. F \in Nat /\ sent = F + (1 + e.sent) /\ e.sent < own
        BY <1>5, <1>6, <2>1, <2>6
      <4>2. F + (1 + e.sent) \in Nat /\ F + (1 + e.sent) < F + (own + 1)
        <5>1. F \in Nat /\ e.sent < own /\ e.sent \in Nat /\ own \in Nat
          BY <1>3, <1>4, <4>1
        <5> HIDE DEF F
        <5>2. QED BY <5>1
      <4> HIDE DEF sent, F
      <4>3. QED BY <4>1, <4>2
    <3>2. hisGot <= sent
      BY <2>4, <2>5, <3>1
    <3>3. QED BY <2>6, <3>1, <3>2
  <2>8. hisSent <= Before(script, r, p, o + 1)
    BY <1>1, <1>3, <2>7, NoneAhead
  <2> HIDE DEF B, F, got, sent, hisGot, hisSent
  <2>9. Len(c[r][p]) <= other - e.received
    <3>1. Len(c[r][p]) = hisSent - (B + (1 + e.received))
      BY <2>1, <2>2, <2>4
    <3>2. hisSent <= B + (other + 1)
      BY <2>6, <2>8
    <3>3. hisSent \in Nat /\ B \in Nat /\ other \in Nat /\ e.received \in Nat
      BY <1>3, <1>4, <2>5, <2>6
    <3>4. hisSent - (B + (1 + e.received)) <= other - e.received
      BY <3>2, <3>3
    <3>5. QED BY <3>1, <3>4
  <2> DEFINE l == Len(c[r][p])
  <2>10. l <= e.newLen - e.received /\ l \in Nat
    BY <1>4, <1>6, <2>9
  <2> HIDE DEF l
  <2>11. \A k \in 1 .. l : k <= e.newLen - e.received
    BY <1>4, <2>10
  <2>12. QED BY <2>11 DEF l
<1>10. QED BY <1>8, <1>9

-----------------------------------------------------------------------------
(* Every step keeps Correspondence.                                        *)

\* The initial state: nothing is sent and nothing received.
LEMMA InitCorresponds == Init => Correspondence
<1> SUFFICES ASSUME Init PROVE Correspondence
  OBVIOUS
<1>1. /\ script \in Scripts /\ op = [p \in Party |-> 1] /\ group = [p \in Party |-> 1]
      /\ ex = [p \in Party |-> <<>>] /\ chan = [p \in Party |-> [q \in Party |-> <<>>]]
  BY DEF Init
<1>2. Len(script) \in Nat /\ 1 \in 1 .. Len(script) + 1
  BY <1>1, ScriptFacts
<1>3. /\ \A S : <<>> \in Seq(S)
      /\ Len(<<>>) = 0 /\ 1 .. 0 = {} /\ 0 <= Room
  BY RoomAssumption
<1>4. Typed(ex, chan)
  BY <1>1, <1>3 DEF Typed
<1>5. ASSUME NEW p \in Party
      PROVE  Local(script, 1, 1, <<>>, p)
  <2>1. ASSUME 1 <= Len(script)
        PROVE  1 <= Len(Parts(p, script[1])) + 1
    <3>1. 1 \in 1 .. Len(script)
      BY <1>2, <2>1
    <3>2. Len(Parts(p, script[1])) \in Nat
      BY <1>1, <3>1, ScriptFacts, PartsFew
    <3>3. QED BY <3>2
  <2>2. QED BY <1>2, <1>3, <2>1 DEF Local
<1>6. ASSUME NEW p \in Party, NEW q \in Party
      PROVE  /\ SentBy(script, 1, 1, <<>>, p, q) = 0
             /\ GotBy(script, 1, 1, <<>>, p, q) = 0
  <2>1. Before(script, p, q, 1) = 0 /\ Before(script, q, p, 1) = 0
    BY <1>1, BeforeGrows
  <2>2. CASE 1 <= Len(script)
    <3>1. \A j \in 1 .. Len(<<>>) : <<>>[j].to # q /\ <<>>[j].from # q
      OBVIOUS
    <3>2. 1 .. 1 - 1 = {}
      OBVIOUS
    <3>3. /\ SentBy(script, 1, 1, <<>>, p, q) = Before(script, p, q, 1)
                + IF \E h \in 1 .. 1 - 1 : SendsIn(p, q, script[1], h)
                  THEN script[1].length[p] + 1 ELSE 0
          /\ GotBy(script, 1, 1, <<>>, p, q) = Before(script, q, p, 1)
                + IF \E h \in 1 .. 1 - 1 : TakesIn(p, q, script[1], h)
                  THEN script[1].length[q] + 1 ELSE 0
      BY <2>2, <3>1, NotUnderway
    <3>4. QED BY <2>1, <3>2, <3>3
  <2>3. CASE ~(1 <= Len(script))
    BY <2>1, <2>3 DEF SentBy, GotBy
  <2>4. QED BY <2>2, <2>3
<1>7. Located(ex)
  BY <1>1, <1>5 DEF Located
<1>8. Wired(ex, chan)
  <2>1. \A p \in Party, q \in Party : Holds(script, p, q, <<>>, 0, 0)
    BY <1>3 DEF Holds
  <2>2. QED BY <1>1, <1>6, <2>1 DEF Wired
<1>9. QED BY <1>1, <1>4, <1>7, <1>8 DEF Correspondence, Consistent

\* The next Exchanger is constructed.
LEMMA ConstructCorresponds ==
    ASSUME Correspondence, NEW p \in Party, Construct(p)
    PROVE  Correspondence'
<1> DEFINE o == op[p]
           g == group[p]
           z == ex[p]
           t == Parts(p, script[o])[g][Len(z) + 1]
           e == NewExchanger(p, t)
           w == Append(z, e)
<1>1. /\ script \in Scripts /\ op \in [Party -> Nat \ {0}] /\ group \in [Party -> Nat \ {0}]
      /\ Consistent(ex, chan) /\ ex \in [Party -> Seq(Exchangers)]
      /\ chan \in [Party -> [Party -> Seq(Item)]]
      /\ \A a \in Party, b \in Party : Len(chan[a][b]) <= Room
      /\ \A a \in Party : Local(script, op[a], group[a], ex[a], a)
      /\ \A a \in Party, b \in Party :
            Holds(script, a, b, chan[a][b], GotBy(script, op[b], group[b], ex[b], b, a),
                                            SentBy(script, op[a], group[a], ex[a], a, b))
  BY DEF Correspondence, Consistent, Typed, Located, Wired
<1>2. /\ o <= Len(script) /\ g <= Len(Parts(p, script[o]))
      /\ Len(z) < Len(Parts(p, script[o])[g])
  BY DEF Construct, Active, Current
<1>3. /\ script' = script /\ op' = op /\ group' = group
      /\ ex' = [ex EXCEPT ![p] = w]
      /\ \/ t.to = None /\ chan' = chan
         \/ /\ t.to # None
            /\ Len(chan[p][t.to]) < Room
            /\ chan' = [chan EXCEPT ![p][t.to] = Append(@, Header(p, o))]
  BY DEF Construct, Active, Current
<1> HIDE DEF o, g, z
<1>4. /\ z \in Seq(Exchangers) /\ g \in Nat \ {0}
      /\ o \in 1 .. Len(script) /\ Local(script, o, g, z, p)
  <2>1. Local(script, o, g, z, p)
    BY <1>1 DEF o, g, z
  <2>2. /\ z \in Seq(Exchangers) /\ o \in 1 .. Len(script) + 1 /\ Len(script) \in Nat
        /\ g \in Nat \ {0}
    BY <1>1, <2>1, ScriptFacts DEF Local
  <2>3. QED BY <1>2, <2>1, <2>2
<1>5. script[o] \in Operation /\ script[o].length[p] \in Nat
  BY <1>1, <1>4, ScriptFacts
<1>6. t.to \in Party \cup {None} /\ t.from \in Party \cup {None}
  <2>1. g \in 1 .. Len(Parts(p, script[o]))
    <3>1. g \in Nat \ {0} /\ Len(Parts(p, script[o])) \in Nat
      BY <1>4, <1>5, PartsFew
    <3>2. QED BY <1>2, <3>1
  <2>2. Len(Parts(p, script[o])[g]) \in Nat /\ Len(z) \in Nat
    <3>1. Len(Parts(p, script[o])[g]) \in 1 .. N - 1
      BY <1>5, <2>1, PartsFew
    <3>2. QED BY <1>4, <3>1, PartyAssumption
  <2>3. Len(z) + 1 \in 1 .. Len(Parts(p, script[o])[g])
    BY <1>2, <2>2
  <2>4. QED BY <1>5, <2>1, <2>3, PartsFew
<1> HIDE DEF t
<1>7. /\ e \in Exchangers /\ WellDone(script, p, o, t, e) /\ e.sent = 0
      /\ e.from # None => Taken(e) = 0
      /\ e.to = t.to
  BY <1>1, <1>4, <1>6, NewIsWell DEF o
<1> HIDE DEF e
<1>8. /\ Local(script, o, g, w, p)
      /\ \A q \in Party :
            /\ e.to = q => /\ Sends(p, q, script[o])
                           /\ SentBy(script, o, g, z, p, q) = Before(script, p, q, o)
                           /\ SentBy(script, o, g, w, p, q) = Before(script, p, q, o) + 1
            /\ e.to # q => SentBy(script, o, g, w, p, q) = SentBy(script, o, g, z, p, q)
            /\ GotBy(script, o, g, w, p, q) = GotBy(script, o, g, z, p, q)
  <2>1. /\ script \in Scripts /\ Local(script, o, g, z, p)
        /\ o <= Len(script) /\ g <= Len(Parts(p, script[o]))
        /\ Len(z) < Len(Parts(p, script[o])[g])
        /\ e \in Exchangers /\ WellDone(script, p, o, Parts(p, script[o])[g][Len(z) + 1], e)
        /\ e.sent = 0 /\ (e.from # None => Taken(e) = 0)
    BY <1>1, <1>2, <1>4, <1>7 DEF t
  <2>2. QED BY <2>1, Begins
<1>9. w \in Seq(Exchangers)
  BY <1>8 DEF Local
<1> HIDE DEF w
<1>10. /\ ex' \in [Party -> Seq(Exchangers)] /\ ex'[p] = w
       /\ \A q \in Party : q # p => ex'[q] = ex[q]
  BY <1>1, <1>9, <1>3
<1>11. \A a \in Party : Local(script, op[a], group[a], ex'[a], a)
  BY <1>1, <1>8, <1>10 DEF o, g
<1>12. ASSUME NEW a \in Party, NEW b \in Party
       PROVE  /\ chan'[a][b] \in Seq(Item) /\ Len(chan'[a][b]) <= Room
              /\ Holds(script, a, b, chan'[a][b],
                       GotBy(script, op[b], group[b], ex'[b], b, a),
                       SentBy(script, op[a], group[a], ex'[a], a, b))
  <2>1. GotBy(script, op[b], group[b], ex'[b], b, a) = GotBy(script, op[b], group[b], ex[b], b, a)
    <3>1. CASE b = p
      BY <1>8, <1>10, <3>1 DEF o, g, z
    <3>2. CASE b # p
      BY <1>10, <3>2
    <3>3. QED BY <3>1, <3>2
  <2>2. CASE a # p \/ b # t.to
    <3>1. SentBy(script, op[a], group[a], ex'[a], a, b)
             = SentBy(script, op[a], group[a], ex[a], a, b)
      <4>1. CASE a = p
        BY <1>7, <1>8, <1>10, <2>2, <4>1 DEF o, g, z
      <4>2. CASE a # p
        BY <1>10, <4>2
      <4>3. QED BY <4>1, <4>2
    <3>2. chan'[a][b] = chan[a][b]
      <4>1. CASE chan' = chan
        BY <4>1
      <4>2. CASE chan' = [chan EXCEPT ![p][t.to] = Append(@, Header(p, o))]
        BY <1>1, <2>2, <4>2
      <4>3. QED BY <1>3, <4>1, <4>2
    <3>3. QED BY <1>1, <2>1, <3>1, <3>2
  <2>3. CASE a = p /\ b = t.to
    <3> DEFINE f == Before(script, p, b, o)
               r == GotBy(script, op[b], group[b], ex[b], b, p)
               h == <<Header(p, o)>>
               v == chan[p][b]
    <3>1. /\ SentBy(script, o, g, z, p, b) = f
          /\ SentBy(script, o, g, ex'[p], p, b) = f + 1
          /\ Sends(p, b, script[o])
      BY <1>7, <1>8, <1>10, <2>3
    <3>2. f \in Nat /\ r \in Nat /\ f + 1 \in Nat
      <4>1. f \in Nat /\ r \in Nat
        <5>1. o \in 1 .. Len(script) + 1
          BY <1>4 DEF Local
        <5>2. QED BY <1>1, <5>1, BeforeGrows, Within
      <4> HIDE DEF f, r
      <4>2. QED BY <4>1
    <3>3. Header(p, o) = Nth(script, p, o, 1) /\ Header(p, o) \in Item
      BY <1>1, <1>4, MessageIs, NthTyped
    <3>4. h \in Seq(Item) /\ Len(h) = 1 /\ \A i \in 1 .. Len(h) : h[i] = Nth(script, p, o, 0 + i)
      BY <3>3
    <3>5. Size(script, p, b, o) = script[o].length[p] + 1
      BY <3>1 DEF Size
    <3>6. 0 + Len(h) <= Size(script, p, b, o)
      BY <1>5, <3>4, <3>5
    <3> HIDE DEF h
    <3>7. Holds(script, p, b, h, f + 0, f + 0 + Len(h))
      BY <1>1, <1>4, <3>4, <3>6, Piece
    <3>8. Holds(script, p, b, v, r, f)
      BY <1>1, <2>3, <3>1 DEF o, g, z
    <3>9. v \in Seq(Item) /\ Len(v) < Room
      BY <1>1, <1>3, <2>3, NoParty
    <3>10. chan'[p][b] = Append(v, Header(p, o))
      BY <1>1, <1>3, <2>3, NoParty
    <3> HIDE DEF f, r, v
    <3>11. Holds(script, p, b, h, f, f + 1)
      <4>1. f + 0 = f /\ f + 0 + Len(h) = f + 1
        BY <3>2, <3>4
      <4>2. QED BY <3>7, <4>1
    <3>12. Holds(script, p, b, v \o h, r, f + 1) /\ v \o h \in Seq(Item)
      BY <1>1, <3>2, <3>4, <3>8, <3>9, <3>11, SendKeeps
    <3>13. Append(v, Header(p, o)) = v \o h
      BY <3>3, <3>9 DEF h
    <3>14. Len(v \o h) <= Room
      <4>1. Len(v \o h) = Len(v) + 1 /\ Len(v) \in Nat
        BY <3>4, <3>9, ConcatProperties
      <4>2. QED BY <3>9, <4>1, RoomAssumption
    <3>15. QED BY <2>1, <2>3, <3>1, <3>10, <3>12, <3>13, <3>14 DEF r, o, g
  <2>4. QED BY <2>2, <2>3
<1>13. chan' \in [Party -> [Party -> Seq(Item)]]
  <2>1. CASE chan' = chan
    BY <1>1, <2>1
  <2>2. CASE chan' = [chan EXCEPT ![p][t.to] = Append(@, Header(p, o))] /\ t.to \in Party
    <3>1. chan'[p][t.to] = Append(chan[p][t.to], Header(p, o))
      BY <1>1, <2>2
    <3>2. Append(chan[p][t.to], Header(p, o)) \in Seq(Item)
      BY <1>12, <2>2, <3>1
    <3>3. QED BY <1>1, <2>2, <3>2
  <2>3. QED BY <1>6, <1>3, <2>1, <2>2
<1>14. QED
  BY <1>1, <1>10, <1>3, <1>11, <1>12, <1>13 DEF Correspondence, Consistent, Typed, Located, Wired

-----------------------------------------------------------------------------
\* A step of one party that neither sends nor receives.
LEMMA MovesOn ==
    ASSUME Correspondence, NEW p \in Party, NEW o \in Nat \ {0}, NEW g \in Nat \ {0},
           NEW x \in Seq(Exchangers), Local(script, o, g, x, p),
           script' = script, chan' = chan, op' = [op EXCEPT ![p] = o],
           group' = [group EXCEPT ![p] = g], ex' = [ex EXCEPT ![p] = x],
           \A q \in Party :
              /\ SentBy(script, o, g, x, p, q) = SentBy(script, op[p], group[p], ex[p], p, q)
              /\ GotBy(script, o, g, x, p, q) = GotBy(script, op[p], group[p], ex[p], p, q)
    PROVE  Correspondence'
<1>1. /\ script \in Scripts /\ op \in [Party -> Nat \ {0}] /\ group \in [Party -> Nat \ {0}]
      /\ ex \in [Party -> Seq(Exchangers)]
      /\ chan \in [Party -> [Party -> Seq(Item)]]
      /\ \A a \in Party, b \in Party : Len(chan[a][b]) <= Room
      /\ \A a \in Party : Local(script, op[a], group[a], ex[a], a)
      /\ \A a \in Party, b \in Party :
            Holds(script, a, b, chan[a][b], GotBy(script, op[b], group[b], ex[b], b, a),
                                            SentBy(script, op[a], group[a], ex[a], a, b))
  BY DEF Correspondence, Consistent, Typed, Located, Wired
<1>2. /\ op' \in [Party -> Nat \ {0}] /\ group' \in [Party -> Nat \ {0}]
      /\ ex' \in [Party -> Seq(Exchangers)]
      /\ op'[p] = o /\ group'[p] = g /\ ex'[p] = x
      /\ \A q \in Party : q # p => op'[q] = op[q] /\ group'[q] = group[q] /\ ex'[q] = ex[q]
  BY <1>1
<1>3. \A a \in Party : Local(script, op'[a], group'[a], ex'[a], a)
  BY <1>1, <1>2
<1>4. \A a \in Party, b \in Party :
         /\ SentBy(script, op'[a], group'[a], ex'[a], a, b)
               = SentBy(script, op[a], group[a], ex[a], a, b)
         /\ GotBy(script, op'[a], group'[a], ex'[a], a, b)
               = GotBy(script, op[a], group[a], ex[a], a, b)
  BY <1>2
<1>5. \A a \in Party, b \in Party :
         Holds(script, a, b, chan[a][b], GotBy(script, op'[b], group'[b], ex'[b], b, a),
                                         SentBy(script, op'[a], group'[a], ex'[a], a, b))
  BY <1>1, <1>4
<1>6. QED
  BY <1>1, <1>2, <1>3, <1>5 DEF Correspondence, Consistent, Typed, Located, Wired

\* A part is over.
LEMMA FinishCorresponds ==
    ASSUME Correspondence, NEW p \in Party, Finish(p)
    PROVE  Correspondence'
<1> DEFINE o == op[p]
           g == group[p]
           z == ex[p]
<1>1. /\ script \in Scripts /\ Local(script, o, g, z, p) /\ o \in Nat \ {0} /\ g \in Nat \ {0}
      /\ op \in [Party -> Nat \ {0}] /\ group \in [Party -> Nat \ {0}]
      /\ ex \in [Party -> Seq(Exchangers)]
  BY DEF Correspondence, Consistent, Typed, Located
<1>2. /\ o <= Len(script) /\ g <= Len(Parts(p, script[o]))
      /\ Len(z) = Len(Parts(p, script[o])[g])
      /\ \A j \in DOMAIN z : ~Busy(z[j])
  BY DEF Finish, Active, Current
<1>3. /\ ex' = [ex EXCEPT ![p] = <<>>] /\ group' = [group EXCEPT ![p] = g + 1]
      /\ op' = op /\ script' = script /\ chan' = chan
  BY DEF Finish
<1>4. DOMAIN z = 1 .. Len(z)
  BY <1>1
<1>5. g + 1 \in Nat \ {0} /\ <<>> \in Seq(Exchangers) /\ op' = [op EXCEPT ![p] = o]
  BY <1>1, <1>3
<1> HIDE DEF o, g, z
<1>6. /\ Local(script, o, g + 1, <<>>, p)
      /\ \A q \in Party :
            /\ SentBy(script, o, g + 1, <<>>, p, q) = SentBy(script, o, g, z, p, q)
            /\ GotBy(script, o, g + 1, <<>>, p, q) = GotBy(script, o, g, z, p, q)
  <2>1. \A j \in 1 .. Len(z) : ~Busy(z[j])
    BY <1>2, <1>4
  <2>2. script \in Scripts /\ Local(script, o, g, z, p)
    BY <1>1
  <2>3. /\ o <= Len(script) /\ g <= Len(Parts(p, script[o]))
        /\ Len(z) = Len(Parts(p, script[o])[g])
    BY <1>2
  <2>4. QED BY <2>1, <2>2, <2>3, PartEnds
<1>7. \A q \in Party :
         /\ SentBy(script, o, g + 1, <<>>, p, q) = SentBy(script, op[p], group[p], ex[p], p, q)
         /\ GotBy(script, o, g + 1, <<>>, p, q) = GotBy(script, op[p], group[p], ex[p], p, q)
  BY <1>6 DEF o, g, z
<1> DEFINE h == g + 1
           x == <<>>
<1>8. /\ h \in Nat \ {0} /\ x \in Seq(Exchangers) /\ Local(script, o, h, x, p)
      /\ ex' = [ex EXCEPT ![p] = x] /\ group' = [group EXCEPT ![p] = h]
      /\ \A q \in Party :
            /\ SentBy(script, o, h, x, p, q) = SentBy(script, op[p], group[p], ex[p], p, q)
            /\ GotBy(script, o, h, x, p, q) = GotBy(script, op[p], group[p], ex[p], p, q)
  BY <1>3, <1>5, <1>6, <1>7
<1> HIDE DEF h, x
<1>9. o \in Nat \ {0} /\ script' = script /\ chan' = chan /\ op' = [op EXCEPT ![p] = o]
  BY <1>1, <1>3, <1>5
<1>10. QED BY <1>8, <1>9, MovesOn

\* An operation is over.
LEMMA NextOperationCorresponds ==
    ASSUME Correspondence, NEW p \in Party, NextOperation(p)
    PROVE  Correspondence'
<1> DEFINE o == op[p]
           g == group[p]
           z == ex[p]
<1>1. /\ script \in Scripts /\ Local(script, o, g, z, p) /\ o \in Nat \ {0}
      /\ z \in Seq(Exchangers) /\ ex \in [Party -> Seq(Exchangers)]
  BY DEF Correspondence, Consistent, Typed, Located
<1>2. o <= Len(script) /\ ~(g <= Len(Parts(p, script[o])))
  BY DEF NextOperation, Active
<1>3. /\ op' = [op EXCEPT ![p] = o + 1] /\ group' = [group EXCEPT ![p] = 1]
      /\ ex' = ex /\ script' = script /\ chan' = chan
  BY DEF NextOperation
<1>4. o + 1 \in Nat \ {0} /\ 1 \in Nat \ {0} /\ ex' = [ex EXCEPT ![p] = z]
  BY <1>1, <1>3
<1> HIDE DEF o, g, z
<1>5. /\ Local(script, o + 1, 1, z, p)
      /\ \A q \in Party :
            /\ SentBy(script, o + 1, 1, z, p, q) = SentBy(script, o, g, z, p, q)
            /\ GotBy(script, o + 1, 1, z, p, q) = GotBy(script, o, g, z, p, q)
  BY <1>1, <1>2, OperationEnds
<1>6. \A q \in Party :
         /\ SentBy(script, o + 1, 1, z, p, q) = SentBy(script, op[p], group[p], ex[p], p, q)
         /\ GotBy(script, o + 1, 1, z, p, q) = GotBy(script, op[p], group[p], ex[p], p, q)
  BY <1>5 DEF o, g, z
<1> DEFINE a == o + 1
           h == 1
<1>7. /\ a \in Nat \ {0} /\ h \in Nat \ {0} /\ z \in Seq(Exchangers) /\ Local(script, a, h, z, p)
      /\ op' = [op EXCEPT ![p] = a] /\ group' = [group EXCEPT ![p] = h]
      /\ \A q \in Party :
            /\ SentBy(script, a, h, z, p, q) = SentBy(script, op[p], group[p], ex[p], p, q)
            /\ GotBy(script, a, h, z, p, q) = GotBy(script, op[p], group[p], ex[p], p, q)
  BY <1>1, <1>3, <1>4, <1>5, <1>6
<1> HIDE DEF a, h
<1>8. script' = script /\ chan' = chan /\ ex' = [ex EXCEPT ![p] = z]
  BY <1>3, <1>4
<1>9. QED BY <1>7, <1>8, MovesOn

-----------------------------------------------------------------------------
\* Exchangers and wires that are Consistent are so in the next state.
LEMMA StaysConsistent ==
    ASSUME Correspondence, NEW x, NEW c, Consistent(x, c),
           script' = script, op' = op, group' = group, ex' = x, chan' = c
    PROVE  Correspondence'
  BY DEF Correspondence, Consistent, Typed, Located, Wired

\* What an Exchanger is in, and what it finds in its wire.
LEMMA NextThere ==
    ASSUME script \in Scripts, NEW x, NEW c, Consistent(x, c), NEW p \in Party,
           NEW j \in 1 .. Len(x[p]), NEW e, e = x[p][j]
    PROVE  /\ e \in Exchangers /\ Taken(e) \in Nat
           /\ op[p] \in 1 .. Len(script) /\ Usable(script[op[p]])
           /\ script[op[p]] \in Operation
           /\ group[p] \in 1 .. Len(Parts(p, script[op[p]]))
           /\ j \in 1 .. Len(Parts(p, script[op[p]])[group[p]])
           /\ WellDone(script, p, op[p], Parts(p, script[op[p]])[group[p]][j], e)
           /\ e.from \in Party \cup {None}
           /\ \A q \in Party : e.from = q => Continues(script, q, op[p], c[q][p], Taken(e))
<1> DEFINE o == op[p]
           g == group[p]
           z == x[p]
<1>1. Local(script, o, g, z, p)
  BY DEF Consistent, Located
<1>2. j \in 1 .. Len(z) /\ z[j] = e
  OBVIOUS
<1> HIDE DEF o, g, z
<1>3. z # <<>> /\ z \in Seq(Exchangers) /\ WellDone(script, p, o, Parts(p, script[o])[g][j], e)
  BY <1>1, <1>2 DEF Local
<1>4. /\ o \in 1 .. Len(script) /\ script[o] \in Operation /\ Usable(script[o])
      /\ g \in 1 .. Len(Parts(p, script[o])) /\ j \in 1 .. Len(Parts(p, script[o])[g])
      /\ e \in Exchangers
  BY <1>1, <1>2, <1>3, Standing
<1>5. Taken(e) \in Nat /\ e.from \in Party \cup {None}
  BY <1>4, SMTT(30) DEF Exchangers, Taken
<1>6. ASSUME NEW q \in Party, e.from = q
      PROVE  Continues(script, q, o, c[q][p], Taken(e))
  <2> DEFINE v == c[q][p]
             from == GotBy(script, o, g, z, p, q)
             to == SentBy(script, op[q], group[q], x[q], q, p)
  <2>1. v \in Seq(Item) /\ Holds(script, q, p, v, from, to)
    BY DEF Consistent, Typed, Wired, o, g, z
  <2>2. from = Before(script, q, p, o) + Taken(e) /\ Takes(p, q, script[o])
    BY <1>1, <1>2, <1>6, Underway
  <2>3. from \in Nat
    BY <1>1, Within
  <2>4. to \in Nat
    <3>1. Local(script, op[q], group[q], x[q], q)
      BY DEF Consistent, Located
    <3>2. QED BY <3>1, Within
  <2>5. Size(script, q, p, o) = script[o].length[q] + 1
    BY <1>4, <2>2, SentIsTaken DEF Size
  <2> HIDE DEF v, from, to
  <2>6. \A i \in 1 .. Len(v) :
           Taken(e) + i <= Size(script, q, p, o) => v[i] = Nth(script, q, o, Taken(e) + i)
    <3> DEFINE r == Taken(e)
    <3>1. r \in Nat /\ from = Before(script, q, p, o) + r
      BY <1>5, <2>2
    <3> HIDE DEF r
    <3>2. ASSUME NEW i \in 1 .. Len(v), r + i <= Size(script, q, p, o)
          PROVE  v[i] = Nth(script, q, o, r + i)
      BY <1>4, <2>1, <2>3, <2>4, <3>1, <3>2, NextOnWire, SMTT(30)
    <3>3. QED BY <3>2 DEF r
  <2>7. QED BY <2>1, <2>5, <2>6 DEF v, Continues
<1>7. QED BY <1>3, <1>4, <1>5, <1>6 DEF o, g

\* An Exchanger receives k items that it asks for.
LEMMA ItemsCorrespond ==
    ASSUME script \in Scripts, NEW x, NEW c, Consistent(x, c), NEW p \in Party,
           NEW j \in 1 .. Len(x[p]), NEW e, e = x[p][j], NEW q \in Party, e.from = q,
           e.received < e.newLen,
           NEW k \in 1 .. Smaller(ToReceive(p, e), Len(c[q][p]))
    PROVE  Consistent([x EXCEPT ![p][j] = Received(e, SubSeq(c[q][p], 1, k))],
                      [c EXCEPT ![q][p] = SubSeq(@, k + 1, Len(@))])
<1> DEFINE o == op[p]
           t == Parts(p, script[op[p]])[group[p]][j]
           v == c[q][p]
           d == SubSeq(c[q][p], 1, k)
           f == Received(e, d)
<1>1. /\ e \in Exchangers /\ Taken(e) \in Nat
      /\ o \in 1 .. Len(script) /\ script[o] \in Operation
      /\ WellDone(script, p, o, t, e)
      /\ v \in Seq(Item)
      /\ \A i \in 1 .. Len(v) :
            Taken(e) + i <= script[o].length[q] + 1 => v[i] = Nth(script, q, o, Taken(e) + i)
  <2>1. /\ e \in Exchangers /\ Taken(e) \in Nat
        /\ op[p] \in 1 .. Len(script) /\ Usable(script[op[p]])
        /\ script[op[p]] \in Operation
        /\ group[p] \in 1 .. Len(Parts(p, script[op[p]]))
        /\ j \in 1 .. Len(Parts(p, script[op[p]])[group[p]])
        /\ WellDone(script, p, op[p], Parts(p, script[op[p]])[group[p]][j], e)
        /\ e.from \in Party \cup {None}
        /\ Continues(script, q, op[p], c[q][p], Taken(e))
    BY NextThere
  <2>2. QED BY <2>1 DEF Continues
<1>2. k \in 1 .. Smaller(ToReceive(p, e), Len(v))
  OBVIOUS
<1>3. \A i \in 1 .. Len(v) : script[o].inPlace /\ e.sent < e.len /\ i <= e.sent - e.received
                                => i <= e.newLen - e.received
  <2> SUFFICES ASSUME script[o].inPlace, e.sent < e.len
               PROVE  \A i \in 1 .. Len(v) : i <= e.sent - e.received
                                                => i <= e.newLen - e.received
    BY Zenon
  <2>1. QED BY <1>1, NoOverread
<1> HIDE DEF o, t, v
<1>4. /\ e.len \in Nat /\ e.sent \in Nat /\ e.received \in Nat /\ e.newLen \in Nat
      /\ Len(v) \in Nat
  BY <1>1 DEF Exchangers
<1>5. t.from = q /\ q # None /\ e.sent <= e.len
  BY <1>1, NoParty DEF WellDone
<1>6. e.known /\ e.newLen = script[o].length[q]
  <2>1. e.newLen # 0
    BY <1>4
  <2>2. QED BY <1>1, <1>5, <2>1 DEF WellDone
<1>7. /\ k \in Nat \ {0} /\ k <= Len(v) /\ k <= e.newLen - e.received
      /\ script[o].inPlace => k <= e.sent - e.received \/ e.sent = e.len
  <2>1. ToReceive(p, e) \in Int
    BY <1>4 DEF ToReceive
  <2>2. k \in Nat \ {0} /\ k <= Len(v) /\ k <= ToReceive(p, e)
    BY <1>2, <1>4, <2>1 DEF Smaller
  <2>3. CASE e.sent = e.len \/ ~script[o].inPlace
    <3>1. ToReceive(p, e) = e.newLen - e.received
      BY <2>3 DEF ToReceive, InPlace, o
    <3>2. QED BY <2>2, <2>3, <3>1
  <2>4. CASE e.sent # e.len /\ script[o].inPlace
    <3>1. ToReceive(p, e) = IF e.sent > e.received THEN e.sent - e.received ELSE 0
      BY <2>4 DEF ToReceive, InPlace, o
    <3>2. k <= e.sent - e.received /\ e.sent < e.len
      BY <1>4, <1>5, <2>2, <2>4, <3>1
    <3>3. k \in 1 .. Len(v)
      BY <1>4, <2>2
    <3>4. QED BY <1>3, <2>2, <2>4, <3>2, <3>3
  <2>5. QED BY <2>3, <2>4
<1>8. Taken(e) = 1 + e.received
  BY <1>6 DEF Taken
<1>9. d \in Seq(Item) /\ Len(d) = k /\ \A i \in 1 .. k : d[i] = v[i]
  <2>1. d = SubSeq(v, 1, k)
    BY DEF v
  <2>2. \A i \in 1 .. k : v[i] \in Item
    BY <1>1, <1>4, <1>7
  <2> HIDE DEF d
  <2>3. QED BY <1>1, <1>4, <1>7, <2>1, <2>2
<1>10. \A i \in 1 .. k : d[i] = Nth(script, t.from, o, (1 + e.received) + i)
  <2> SUFFICES ASSUME NEW i \in 1 .. k
               PROVE  d[i] = Nth(script, t.from, o, (1 + e.received) + i)
    OBVIOUS
  <2>1. i \in 1 .. Len(v) /\ (1 + e.received) + i <= e.newLen + 1
    BY <1>4, <1>7, SMTT(30)
  <2>2. v[i] = Nth(script, q, o, Taken(e) + i)
    BY <1>1, <1>6, <1>8, <2>1
  <2> HIDE DEF d
  <2>3. QED BY <1>5, <1>8, <1>9, <2>2
<1> HIDE DEF d
<1>11. /\ f \in Exchangers /\ WellDone(script, p, o, t, f)
       /\ f.sent = e.sent /\ Taken(f) = Taken(e) + k
  BY <1>1, <1>7, <1>9, <1>10, ReceiveWell
<1> HIDE DEF f
<1>12. k \in 0 .. Len(c[q][p])
  BY <1>4, <1>7 DEF v
<1>13. Consistent([x EXCEPT ![p][j] = f], [c EXCEPT ![q][p] = SubSeq(@, k + 1, Len(@))])
  BY <1>11, <1>12, ReceivingHalf DEF o, t
<1>14. QED BY <1>13 DEF f, d

\* An Exchanger receives the length.
LEMMA LengthCorresponds ==
    ASSUME script \in Scripts, NEW x, NEW c, Consistent(x, c), NEW p \in Party,
           NEW j \in 1 .. Len(x[p]), NEW e, e = x[p][j], NEW q \in Party, e.from = q,
           ~e.known, c[q][p] # <<>>
    PROVE  Consistent([x EXCEPT ![p][j] = Resized(p, e, Decoded(Head(c[q][p])))],
                      [c EXCEPT ![q][p] = Tail(@)])
<1> DEFINE o == op[p]
           g == group[p]
           t == Parts(p, script[o])[g][j]
           v == c[q][p]
           n == Decoded(Head(c[q][p]))
           f == Resized(p, e, n)
<1>1. /\ e \in Exchangers /\ Taken(e) \in Nat
      /\ o \in 1 .. Len(script) /\ script[o] \in Operation
      /\ g \in 1 .. Len(Parts(p, script[o])) /\ j \in 1 .. Len(Parts(p, script[o])[g])
      /\ WellDone(script, p, o, t, e)
      /\ v \in Seq(Item)
      /\ \A i \in 1 .. Len(v) :
            Taken(e) + i <= script[o].length[q] + 1 => v[i] = Nth(script, q, o, Taken(e) + i)
  <2>1. /\ e \in Exchangers /\ Taken(e) \in Nat
        /\ op[p] \in 1 .. Len(script) /\ Usable(script[op[p]])
        /\ script[op[p]] \in Operation
        /\ group[p] \in 1 .. Len(Parts(p, script[op[p]]))
        /\ j \in 1 .. Len(Parts(p, script[op[p]])[group[p]])
        /\ WellDone(script, p, op[p], Parts(p, script[op[p]])[group[p]][j], e)
        /\ e.from \in Party \cup {None}
        /\ Continues(script, q, op[p], c[q][p], Taken(e))
    BY NextThere
  <2>2. QED BY <2>1 DEF Continues
<1>2. v # <<>> /\ op[p] = o
  OBVIOUS
<1> HIDE DEF o, g, v
<1>3. Taken(e) = 0 /\ script[o].length[q] \in Nat
  BY <1>1, ScriptFacts DEF Taken
<1>4. Len(v) \in Nat /\ 1 \in 1 .. Len(v) /\ Head(v) = v[1]
      /\ Tail(v) = SubSeq(v, 1 + 1, Len(v))
  BY <1>1, <1>2
<1>5. Head(v) = Nth(script, q, o, 0 + 1)
  BY <1>1, <1>3, <1>4
<1>6. n = script[o].length[q]
  BY <1>5 DEF Decoded, Nth, v
<1> HIDE DEF n
<1>7. /\ f \in Exchangers /\ WellDone(script, p, o, t, f)
      /\ f.sent = e.sent /\ Taken(f) = Taken(e) + 1
  <2>1. /\ script \in Scripts /\ p \in Party /\ op[p] = o /\ ~e.known /\ e.from \in Party
        /\ n = script[o].length[e.from]
    BY <1>2, <1>6
  <2>2. WellDone(script, p, o, Parts(p, script[o])[g][j], e)
    BY <1>1
  <2>3. QED BY <1>1, <2>1, <2>2, ResizeWell, SMTT(30)
<1> HIDE DEF f, t
<1>8. 1 \in 0 .. Len(c[q][p])
  BY <1>4 DEF v
<1>9. Consistent([x EXCEPT ![p][j] = f], [c EXCEPT ![q][p] = SubSeq(@, 1 + 1, Len(@))])
  BY <1>7, <1>8, ReceivingHalf DEF o, g, t
<1>10. [c EXCEPT ![q][p] = Tail(@)] = [c EXCEPT ![q][p] = SubSeq(@, 1 + 1, Len(@))]
  BY <1>4 DEF v
<1>11. QED BY <1>9, <1>10 DEF f, n

-----------------------------------------------------------------------------
\* A round: what is sent, then what is received.
LEMMA ExchangingCorresponds ==
    ASSUME Correspondence, NEW p \in Party, NEW j, Exchanging(p, j)
    PROVE  Correspondence'
<1> DEFINE e == ex[p][j]
           room == IF e.to = None THEN 0 ELSE Room - Len(chan[p][e.to])
           most == Smaller(e.len - e.sent, room)
           least == IF most > 0 THEN 1 ELSE 0
           Rest(n, s) == \/ ReceiveOctets(p, j, SentMore(e, n), Wires(p, e, n, s))
                         \/ ReceiveLength(p, j, SentMore(e, n), Wires(p, e, n, s))
                         \/ ReceiveNothing(p, j, SentMore(e, n), Wires(p, e, n, s))
<1>1. /\ script \in Scripts /\ Consistent(ex, chan) /\ ex \in [Party -> Seq(Exchangers)]
      /\ chan \in [Party -> [Party -> Seq(Item)]] /\ op \in [Party -> Nat \ {0}]
      /\ \A a \in Party, b \in Party : Len(chan[a][b]) <= Room
  BY DEF Correspondence, Consistent, Typed
<1>2. /\ op[p] <= Len(script) /\ j \in DOMAIN ex[p]
      /\ script' = script /\ op' = op /\ group' = group
  BY DEF Exchanging, Active
<1>3. \E n \in least .. most : \E s \in Outgoing(p, e, n) : Rest(n, s)
  BY DEF Exchanging, Round
<1>4. /\ j \in 1 .. Len(ex[p]) /\ e \in Exchangers
  <2>1. ex[p] \in Seq(Exchangers)
    BY <1>1
  <2>2. QED BY <1>2, <2>1
<1>5. /\ op[p] \in 1 .. Len(script)
      /\ WellDone(script, p, op[p], Parts(p, script[op[p]])[group[p]][j], e)
      /\ Parts(p, script[op[p]])[group[p]][j].to \in Party \cup {None}
      /\ e.from \in Party \cup {None}
      /\ group[p] \in 1 .. Len(Parts(p, script[op[p]]))
  <2>1. /\ op[p] \in 1 .. Len(script) /\ script[op[p]] \in Operation
        /\ group[p] \in 1 .. Len(Parts(p, script[op[p]]))
        /\ j \in 1 .. Len(Parts(p, script[op[p]])[group[p]])
        /\ WellDone(script, p, op[p], Parts(p, script[op[p]])[group[p]][j], e)
        /\ e.from \in Party \cup {None}
    BY <1>1, <1>4, NextThere
  <2>2. QED BY <2>1, PartsFew
<1>6. e.len \in Nat /\ e.sent \in Nat /\ e.sent <= e.len /\ e.to \in Party \cup {None}
  <2>1. e.len \in Nat /\ e.sent \in Nat
    BY <1>4 DEF Exchangers
  <2>2. QED BY <1>5, <2>1 DEF WellDone
<1>7. room \in Nat /\ (e.to = None => room = 0)
      /\ (e.to # None => room = Room - Len(chan[p][e.to]))
  <2>1. CASE e.to = None
    BY <2>1
  <2>2. CASE e.to # None
    <3>1. e.to \in Party
      BY <1>6, <2>2
    <3> DEFINE l == Len(chan[p][e.to])
    <3>2. l \in Nat /\ l <= Room
      BY <1>1, <3>1
    <3> HIDE DEF l
    <3>3. Room - l \in Nat
      BY <3>2, RoomAssumption
    <3>4. QED BY <2>2, <3>3 DEF l
  <2>3. QED BY <2>1, <2>2
<1> HIDE DEF room, Rest
<1>8. \A n \in least .. most : n \in Nat /\ n <= e.len - e.sent /\ n <= room
  <2> DEFINE left == e.len - e.sent
  <2>1. left \in Nat
    BY <1>6
  <2> HIDE DEF left
  <2>2. most \in Nat /\ most <= left /\ most <= room
    BY <1>7, <2>1 DEF Smaller, left
  <2>3. QED BY <1>7, <2>1, <2>2 DEF left
<1>9. PICK n \in least .. most : \E s \in Outgoing(p, e, n) : Rest(n, s)
  BY <1>3
<1>10. PICK s \in Outgoing(p, e, n) : Rest(n, s)
  BY <1>9
<1>11. /\ n \in Nat /\ n <= e.len - e.sent /\ (e.to = None => n = 0)
       /\ n # 0 => n <= Room - Len(chan[p][e.to])
  <2>1. n \in Nat /\ n <= e.len - e.sent /\ n <= room
    BY <1>8
  <2>2. QED BY <1>7, <2>1
<1> DEFINE e1 == SentMore(e, n)
           x == [ex EXCEPT ![p][j] = e1]
           c == Wires(p, e, n, s)
<1>12. Consistent(x, c)
  BY <1>1, <1>4, <1>5, <1>11, SendingHalf DEF Wires
<1>13. /\ e1.from = e.from /\ e1.known = e.known
       /\ e1.received = e.received /\ e1.newLen = e.newLen
  BY <1>4 DEF SentMore, Exchangers
<1> HIDE DEF e1, c
<1>14. /\ Len(x[p]) = Len(ex[p]) /\ x[p][j] = e1 /\ j \in 1 .. Len(x[p])
       /\ \A f : [x EXCEPT ![p][j] = f] = [ex EXCEPT ![p][j] = f]
  <2>1. ex[p] \in Seq(Exchangers) /\ DOMAIN ex[p] = 1 .. Len(ex[p])
    BY <1>1
  <2>2. x[p] = [ex[p] EXCEPT ![j] = e1]
    BY <1>1
  <2>3. /\ Len(x[p]) = Len(ex[p]) /\ x[p][j] = e1
    BY <1>4, <2>1, <2>2
  <2>4. \A f : [[ex[p] EXCEPT ![j] = e1] EXCEPT ![j] = f] = [ex[p] EXCEPT ![j] = f]
    BY <1>4, <2>1
  <2>5. QED BY <1>1, <1>4, <2>2, <2>3, <2>4
<1> HIDE DEF x
<1>15. CASE ReceiveOctets(p, j, e1, c)
  <2>1. e1.received < e1.newLen
    BY <1>15 DEF ReceiveOctets
  <2>2. e.from # None
    <3>1. e.received \in Nat /\ e.newLen \in Nat
      BY <1>4 DEF Exchangers
    <3>2. e.newLen # 0
      BY <1>13, <2>1, <3>1
    <3>3. e.from = None => e.newLen = 0
      BY <1>5 DEF WellDone
    <3>4. QED BY <3>2, <3>3
  <2> DEFINE q == e.from
  <2>3. q \in Party /\ e1.from = q /\ There(p, e1, c) = c[q][p]
    BY <1>5, <1>13, <2>2 DEF There
  <2> HIDE DEF q
  <2>4. PICK k \in 1 .. Ask(p, e1, c) :
           /\ ex' = [ex EXCEPT ![p][j] = Received(e1, SubSeq(There(p, e1, c), 1, k))]
           /\ chan' = [c EXCEPT ![q][p] = SubSeq(@, k + 1, Len(@))]
    BY <1>15, <2>3 DEF ReceiveOctets
  <2>5. k \in 1 .. Smaller(ToReceive(p, e1), Len(c[q][p]))
    BY <2>3, <2>4 DEF Ask
  <2>6. /\ ex' = [x EXCEPT ![p][j] = Received(e1, SubSeq(c[q][p], 1, k))]
        /\ chan' = [c EXCEPT ![q][p] = SubSeq(@, k + 1, Len(@))]
    BY <1>14, <2>3, <2>4
  <2>7. Consistent([x EXCEPT ![p][j] = Received(e1, SubSeq(c[q][p], 1, k))],
                   [c EXCEPT ![q][p] = SubSeq(@, k + 1, Len(@))])
    BY <1>1, <1>12, <1>14, <2>1, <2>3, <2>5, ItemsCorrespond
  <2>8. Consistent(ex', chan')
    BY <2>6, <2>7
  <2>9. QED BY <1>2, <2>8, StaysConsistent
<1>16. CASE ReceiveLength(p, j, e1, c)
  <2> DEFINE q == e.from
  <2>1. q \in Party /\ e1.from = q /\ There(p, e1, c) = c[q][p]
    BY <1>5, <1>13, <1>16 DEF ReceiveLength, There
  <2> HIDE DEF q
  <2>2. /\ ~e1.known /\ c[q][p] # <<>>
        /\ ex' = [x EXCEPT ![p][j] = Resized(p, e1, Decoded(Head(c[q][p])))]
        /\ chan' = [c EXCEPT ![q][p] = Tail(@)]
    BY <1>14, <1>16, <2>1 DEF ReceiveLength
  <2>3. Consistent([x EXCEPT ![p][j] = Resized(p, e1, Decoded(Head(c[q][p])))],
                   [c EXCEPT ![q][p] = Tail(@)])
    BY <1>1, <1>12, <1>14, <2>1, <2>2, LengthCorresponds
  <2>4. Consistent(ex', chan')
    BY <2>2, <2>3
  <2>5. QED BY <1>2, <2>4, StaysConsistent
<1>17. CASE ReceiveNothing(p, j, e1, c)
  <2>1. ex' = x /\ chan' = c
    BY <1>17 DEF ReceiveNothing, x
  <2>2. QED BY <1>2, <1>12, <2>1, StaysConsistent
<1>18. QED BY <1>10, <1>15, <1>16, <1>17 DEF Rest, e1, c

\* The invariant is inductive.
LEMMA StepCorresponds == Correspondence /\ [Next]_vars => Correspondence'
<1> SUFFICES ASSUME Correspondence, [Next]_vars PROVE Correspondence'
  OBVIOUS
<1>1. CASE UNCHANGED vars
  BY <1>1 DEF vars, Correspondence, Consistent, Typed, Located, Wired
<1>2. ASSUME NEW p \in Party, PartyStep(p)
      PROVE  Correspondence'
  <2>1. CASE Construct(p)
    BY <2>1, ConstructCorresponds
  <2>2. CASE \E j \in 1 .. N - 1 : Exchanging(p, j)
    BY <2>2, ExchangingCorresponds
  <2>3. CASE Finish(p)
    BY <2>3, FinishCorresponds
  <2>4. CASE NextOperation(p)
    BY <2>4, NextOperationCorresponds
  <2>5. QED BY <1>2, <2>1, <2>2, <2>3, <2>4 DEF PartyStep
<1>3. QED BY <1>1, <1>2 DEF Next

(* What it says.                                                           *)

\* The invariant says that messages are delivered whole, framed and used up.
LEMMA CorrespondenceTransfers == Correspondence => Transferred
<1> SUFFICES ASSUME Correspondence PROVE Transferred
  OBVIOUS
<1>1. /\ script \in Scripts /\ Consistent(ex, chan)
      /\ op \in [Party -> Nat \ {0}] /\ group \in [Party -> Nat \ {0}]
      /\ ex \in [Party -> Seq(Exchangers)] /\ chan \in [Party -> [Party -> Seq(Item)]]
      /\ \A a \in Party, b \in Party : Len(chan[a][b]) <= Room
      /\ \A a \in Party : Local(script, op[a], group[a], ex[a], a)
      /\ Wired(ex, chan)
  BY DEF Correspondence, Consistent, Typed, Located
<1>2. Len(script) \in Nat /\ script \in Seq(Operation)
  BY <1>1, ScriptFacts, ScriptAssumption
<1>3. ASSUME NEW p \in Party, NEW j \in DOMAIN ex[p]
      PROVE  /\ j \in 1 .. Len(ex[p]) /\ ex[p][j] \in Exchangers
             /\ op[p] \in 1 .. Len(script)
             /\ WellDone(script, p, op[p], Parts(p, script[op[p]])[group[p]][j], ex[p][j])
             /\ ex[p][j].from \in Party \cup {None}
             /\ \A q \in Party : ex[p][j].from = q =>
                   Continues(script, q, op[p], chan[q][p], Taken(ex[p][j]))
  <2>1. j \in 1 .. Len(ex[p])
    <3>1. ex[p] \in Seq(Exchangers)
      BY <1>1
    <3>2. QED BY <3>1
  <2>2. QED BY <1>1, <2>1, NextThere
<1>4. TypeOK
  <2>1. op \in [Party -> 1 .. Len(script) + 1]
    <3>1. \A p \in Party : op[p] \in 1 .. Len(script) + 1
      BY <1>1 DEF Local
    <3>2. QED BY <1>1, <3>1
  <2>2. group \in [Party -> 1 .. N]
    <3>1. ASSUME NEW p \in Party
          PROVE  group[p] \in 1 .. N
      <4> DEFINE o == op[p]
                 g == group[p]
      <4>1. /\ o \in 1 .. Len(script) + 1 /\ g \in Nat \ {0}
            /\ IF o <= Len(script) THEN g <= Len(Parts(p, script[o])) + 1 ELSE g = 1
        BY <1>1 DEF Local
      <4> HIDE DEF o, g
      <4>2. CASE o <= Len(script)
        <5>1. o \in 1 .. Len(script)
          BY <1>2, <4>1, <4>2
        <5>2. script[o] \in Operation
          BY <1>1, <5>1, ScriptFacts
        <5>3. Len(Parts(p, script[o])) \in 0 .. N - 1
          BY <5>2, PartsFew
        <5>4. QED BY <4>1, <4>2, <5>3, PartyAssumption DEF g
      <4>3. CASE ~(o <= Len(script))
        BY <4>1, <4>3, PartyAssumption DEF g
      <4>4. QED BY <4>2, <4>3
    <3>2. QED BY <1>1, <3>1
  <2>3. ASSUME NEW p \in Party, NEW j \in DOMAIN ex[p]
        PROVE  ex[p][j].sent \in 0 .. ex[p][j].len /\ ex[p][j].buf \in Seq(Item)
    <3> DEFINE e == ex[p][j]
    <3>1. e \in Exchangers /\ e.sent <= e.len
      BY <1>3, <2>3 DEF WellDone
    <3> HIDE DEF e
    <3>2. e.sent \in 0 .. e.len /\ e.buf \in Seq(Item)
      BY <3>1 DEF Exchangers
    <3>3. QED BY <3>2 DEF e
  <2>4. \A p \in Party, q \in Party : chan[p][q] \in Seq(Item) /\ Len(chan[p][q]) <= Room
    BY <1>1
  <2>5. QED BY <1>2, <2>1, <2>2, <2>3, <2>4 DEF TypeOK
<1>5. Delivered
  <2> SUFFICES ASSUME NEW p \in Party, NEW j \in DOMAIN ex[p],
                      ~Busy(ex[p][j]), ex[p][j].from # None
               PROVE  SubSeq(ex[p][j].buf, 1, ex[p][j].newLen) = Message(ex[p][j].from, op[p])
    BY DEF Delivered
  <2> DEFINE e == ex[p][j]
             o == op[p]
             q == ex[p][j].from
             m == script[op[p]].length[ex[p][j].from]
  <2>1. /\ e \in Exchangers /\ q \in Party /\ o \in 1 .. Len(script)
        /\ WellDone(script, p, o, Parts(p, script[op[p]])[group[p]][j], e)
        /\ e.from = q /\ ~Busy(e) /\ q # None
    BY <1>3
  <2> HIDE DEF e, o, q, m
  <2>2. /\ e.received \in Nat /\ e.newLen \in Nat /\ e.buf \in Seq(Item) /\ Len(e.buf) \in Nat
    BY <2>1 DEF Exchangers
  <2>3. e.known /\ ~(e.received < e.newLen)
    BY <2>1 DEF Busy
  <2>4. /\ e.received <= e.newLen /\ e.newLen <= Len(e.buf)
        /\ e.newLen = script[o].length[q]
        /\ \A i \in 1 .. e.received : e.buf[i] = Nth(script, q, o, i + 1)
    BY <2>1, <2>3 DEF WellDone
  <2>5. e.received = e.newLen
    BY <2>2, <2>3, <2>4
  <2>6. Message(q, o) = [i \in 1 .. e.newLen |-> Octet(q, o, i)]
    BY <2>4 DEF Message
  <2>7. \A i \in 1 .. e.newLen : e.buf[i] = Octet(q, o, i)
    <3>1. \A i \in 1 .. e.newLen : Octet(q, o, i) = Nth(script, q, o, i + 1)
      BY <2>2 DEF Octet, Nth
    <3>2. QED BY <2>4, <2>5, <3>1
  <2>8. SubSeq(e.buf, 1, e.newLen) = [i \in 1 .. e.newLen |-> e.buf[i]]
    <3> DEFINE l == e.newLen
               b == e.buf
    <3>1. l \in Nat /\ b \in Seq(Item) /\ l <= Len(b)
      BY <2>2, <2>4
    <3> HIDE DEF l, b
    <3>2. SubSeq(b, 1, l) = [i \in 1 .. l |-> b[i]]
      BY <3>1
    <3>3. QED BY <3>2 DEF l, b
  <2>9. SubSeq(e.buf, 1, e.newLen) = Message(q, o)
    BY <2>6, <2>7, <2>8
  <2>10. QED BY <2>9 DEF e, q, o
<1>6. Framed
  <2> SUFFICES ASSUME NEW p \in Party, NEW j \in DOMAIN ex[p],
                      ex[p][j].from # None, chan[ex[p][j].from][p] # <<>>
               PROVE  LET e == ex[p][j]
                      IN  /\ ~e.known => Head(chan[e.from][p]) = Header(e.from, op[p])
                          /\ e.known /\ e.received < e.newLen =>
                                Head(chan[e.from][p]) = Octet(e.from, op[p], e.received + 1)
    BY DEF Framed
  <2> DEFINE e == ex[p][j]
             o == op[p]
             q == ex[p][j].from
             v == chan[ex[p][j].from][p]
  <2>1. /\ e \in Exchangers /\ q \in Party /\ o \in 1 .. Len(script)
        /\ WellDone(script, p, o, Parts(p, script[op[p]])[group[p]][j], e)
        /\ Continues(script, q, o, v, Taken(e))
        /\ e.from = q /\ q # None /\ v # <<>>
    BY <1>3
  <2> HIDE DEF e, o, q, v
  <2>2. /\ v \in Seq(Item)
        /\ \A i \in 1 .. Len(v) :
              Taken(e) + i <= script[o].length[q] + 1 => v[i] = Nth(script, q, o, Taken(e) + i)
    BY <2>1 DEF Continues
  <2>3. 1 \in 1 .. Len(v) /\ Head(v) = v[1]
    BY <2>1, <2>2
  <2>4. script[o].length[q] \in Nat
    BY <1>1, <2>1, ScriptFacts
  <2>5. ASSUME ~e.known
        PROVE  Head(v) = Header(q, o)
    <3>1. Taken(e) = 0
      BY <2>5 DEF Taken
    <3>2. Head(v) = Nth(script, q, o, 0 + 1)
      BY <2>2, <2>3, <2>4, <3>1
    <3>3. QED BY <3>2 DEF Nth, Header
  <2>6. ASSUME e.known, e.received < e.newLen
        PROVE  Head(v) = Octet(q, o, e.received + 1)
    <3>1. e.received \in Nat /\ e.newLen = script[o].length[q]
      BY <2>1, <2>6 DEF WellDone, Exchangers
    <3>2. Taken(e) = 1 + e.received
      BY <2>6 DEF Taken
    <3>3. (1 + e.received) + 1 <= script[o].length[q] + 1
      BY <2>4, <2>6, <3>1
    <3>4. Head(v) = Nth(script, q, o, (1 + e.received) + 1)
      BY <2>2, <2>3, <3>2, <3>3
    <3>5. Nth(script, q, o, (1 + e.received) + 1) = Octet(q, o, e.received + 1)
      BY <3>1 DEF Nth, Octet
    <3>6. QED BY <3>4, <3>5
  <2>7. QED BY <2>5, <2>6 DEF e, o, q, v
<1>7. Drained
  <2> SUFFICES ASSUME Done, NEW p \in Party, NEW q \in Party
               PROVE  chan[p][q] = <<>>
    BY DEF Drained
  <2>1. op[p] = Len(script) + 1 /\ op[q] = Len(script) + 1
    <3>1. \A a \in Party : op[a] \in 1 .. Len(script) + 1 /\ op[a] > Len(script)
      BY <1>1 DEF Local, Done
    <3>2. QED BY <1>2, <3>1
  <2>2. /\ SentBy(script, op[p], group[p], ex[p], p, q) = Before(script, p, q, op[p])
        /\ GotBy(script, op[q], group[q], ex[q], q, p) = Before(script, p, q, op[q])
    BY <1>1, <2>1, Within
  <2>3. Before(script, p, q, Len(script) + 1) \in Nat
    <3>1. Len(script) + 1 \in 1 .. Len(script) + 1
      BY <1>2
    <3>2. QED BY <1>1, <3>1, BeforeGrows
  <2>4. Len(chan[p][q]) = Before(script, p, q, op[p]) - Before(script, p, q, op[q])
    BY <1>1, <2>2 DEF Wired, Holds
  <2>5. Len(chan[p][q]) = 0 /\ chan[p][q] \in Seq(Item)
    BY <1>1, <2>1, <2>3, <2>4
  <2>6. QED BY <2>5
<1>8. QED BY <1>4, <1>5, <1>6, <1>7 DEF Transferred

\* Whatever the room of the sockets and the order of rounds and operations, everyone
\* gets the other's message in every operation, and no item of it is read by
\* another operation or left over (Exchanger.h:42-133, Player.cpp:400-466);
\* for operations that are Usable, as ScriptAssumption demands.
THEOREM AlwaysTransferred == Spec => []Transferred
<1>1. Init => Correspondence
  BY InitCorresponds
<1>2. Correspondence /\ [Next]_vars => Correspondence'
  BY StepCorresponds
<1>3. Correspondence => Transferred
  BY CorrespondenceTransfers
<1>4. QED BY <1>1, <1>2, <1>3, PTL DEF Spec
=============================================================================
