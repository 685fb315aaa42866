---------------------------- MODULE StartupProofs ---------------------------
(***************************************************************************)
(* Theorems about Connect for every team (any parties and threads,         *)
(* coordinated or not, encrypted or not, with any number of timeouts) and  *)
(* about ThreadedPlayer for every team and every sequence of operations.   *)
(***************************************************************************)
EXTENDS ThreadedPlayer, TLAPS, NaturalsInduction, WellFoundedInduction

-----------------------------------------------------------------------------
(* What is of which type, and facts about teams.                           *)

Places == [step : {"idle", "dial", "hello", "names", "listen", "connect", "ident",
                   "accept", "shake", "up", "failed"}, ch : Nat, k : Nat]
TypeInv ==
    /\ team \in Teams
    /\ pc \in [Threads -> Places]
    /\ DOMAIN clients = Parties \cup {S}
    /\ DOMAIN used = Parties \cup {S}
    /\ sockets \in [Threads -> [Channels -> [Parties -> Conns \cup {None}]]]
    /\ timeouts \in Nat

\* What a team is.
LEMMA TeamFacts ==
    ASSUME team \in Teams
    PROVE  /\ team.n \in Nat /\ team.n >= 1 /\ team.threads \in Nat /\ team.threads >= 1
           /\ team.timeouts \in Nat /\ 2 * team.n <= 65536
           /\ Parties \subseteq Nat /\ S \notin Parties /\ 0 \in Parties
           /\ \A i \in Parties : i < team.n /\ Main(i) \in Threads
           /\ \A p \in Threads : /\ p = <<p[1], p[2]>> /\ p[1] \in Parties
                                 /\ p[2] \in Nat /\ p[2] < team.threads
           /\ 0 \in Channels /\ Channels \subseteq {0, 1}
<1>1. /\ team.n \in Nat \ {0} /\ team.threads \in Nat \ {0} /\ team.timeouts \in Nat
      /\ 2 * team.n <= 65536
  BY TeamsAssumption DEF Shift
<1>2. Parties \subseteq Nat /\ S \notin Parties /\ 0 \in Parties /\ \A i \in Parties : i < team.n
  BY <1>1 DEF Parties, S
<1>3. \A p \in Threads : /\ p = <<p[1], p[2]>> /\ p[1] \in Parties
                         /\ p[2] \in Nat /\ p[2] < team.threads
  BY <1>1 DEF Threads
<1>4. \A i \in Parties : Main(i) \in Threads
  BY <1>1 DEF Threads, Main
<1>5. 0 \in Channels /\ Channels \subseteq {0, 1}
  BY DEF Channels
<1>6. QED BY <1>1, <1>2, <1>3, <1>4, <1>5

\* The connection of an entry, part by part.
LEMMA ConnParts ==
    ASSUME NEW c \in Conns
    PROVE  \/ /\ c[1] \in Threads /\ c[2] \in Channels /\ c[3] \in Parties
              /\ c = <<c[1], c[2], c[3]>>
           \/ \E i \in Parties : c = NamesConn(i)
  BY DEF Conns, NamesConn

\* The numbers of two players meet only if they are the same.
LEMMA IdsDiffer ==
    ASSUME team \in Teams, NEW t \in Nat, NEW u \in Nat, NEW c \in Channels, NEW d \in Channels,
           NEW i \in Parties, NEW j \in Parties, IdBase(t, c) + i = IdBase(u, d) + j
    PROVE  t = u /\ c = d /\ i = j
<1>a. /\ team.n \in Nat /\ 2 * team.n <= 65536 /\ i \in Nat /\ j \in Nat
      /\ i < team.n /\ j < team.n /\ c \in {0, 1} /\ d \in {0, 1}
  BY TeamFacts
<1>b. 65536 * t + c * team.n + i = 65536 * u + d * team.n + j
  BY DEF IdBase, Shift
<1>1. CASE c = 0 /\ d = 0
  <2>1. 65536 * t + i = 65536 * u + j
    BY <1>a, <1>b, <1>1
  <2>2. QED BY <1>a, <1>1, <2>1
<1>2. CASE c = 0 /\ d = 1
  <2>1. 65536 * t + i = 65536 * u + team.n + j
    BY <1>a, <1>b, <1>2
  <2>2. QED BY <1>a, <2>1
<1>3. CASE c = 1 /\ d = 0
  <2>1. 65536 * t + team.n + i = 65536 * u + j
    BY <1>a, <1>b, <1>3
  <2>2. QED BY <1>a, <2>1
<1>4. CASE c = 1 /\ d = 1
  <2>1. 65536 * t + team.n + i = 65536 * u + team.n + j
    BY <1>a, <1>b, <1>4
  <2>2. QED BY <1>a, <1>4, <2>1
<1>5. QED BY <1>a, <1>1, <1>2, <1>3, <1>4

\* Everything that is fixed with the team stays.
LEMMA TeamStays ==
    ASSUME UNCHANGED team
    PROVE  /\ Parties' = Parties /\ Threads' = Threads /\ Channels' = Channels /\ Conns' = Conns
           /\ \A c : Id(c)' = Id(c)
           /\ \A t, ch : IdBase(t, ch)' = IdBase(t, ch)
  BY DEF Parties, Threads, Channels, Conns, Id, IdBase, Main

-----------------------------------------------------------------------------
(* The invariant.                                                          *)

\* Before a party's players are made.
Early == {"dial", "hello", "names", "listen"}

\* Where a thread may be.
CourseOK(p) ==
    /\ pc[p].step \in Early => p = Main(p[1])
    /\ pc[p].step = "idle" => p # Main(p[1])
    /\ pc[p].step \in {"connect", "ident"} =>
           pc[p].ch \in Channels /\ pc[p].k \in p[1] .. team.n - 1
    /\ pc[p].step = "accept" => pc[p].ch \in Channels /\ pc[p].k \in 0 .. p[1]

\* No thread of party i has begun to set up its player.
NotBegun(i) ==
    \A p \in Threads : p[1] = i =>
        pc[p].step \in Early \cup {"idle", "failed"}

\* Party p[1] is through with connecting to peer k on channel ch, with waiting for it.
Dialled(p, ch, k) ==
    \/ pc[p].step \in {"shake", "up"}
    \/ pc[p].step = "connect" /\ (ch < pc[p].ch \/ (ch = pc[p].ch /\ k < pc[p].k))
    \/ pc[p].step = "ident" /\ (ch < pc[p].ch \/ (ch = pc[p].ch /\ k <= pc[p].k))
    \/ pc[p].step = "accept" /\ ch <= pc[p].ch
Accepted(p, ch, k) ==
    \/ pc[p].step \in {"shake", "up"}
    \/ pc[p].step \in {"connect", "ident"} /\ ch < pc[p].ch
    \/ pc[p].step = "accept" /\ (ch < pc[p].ch \/ (ch = pc[p].ch /\ k < pc[p].k))

\* The connection between thread p and peer k on channel ch: the lower party's.
Link(p, ch, k) == IF k < p[1] THEN <<<<k, p[2]>>, ch, p[1]>> ELSE <<p, ch, k>>
SocketOK(p, ch, k) ==
    /\ sockets[p][ch][k] \in {None, Link(p, ch, k)}
    /\ p[1] < k /\ Dialled(p, ch, k) => sockets[p][ch][k] = Link(p, ch, k)
    /\ k <= p[1] /\ Accepted(p, ch, k) => sockets[p][ch][k] = Link(p, ch, k)

\* The entries of a server socket are connections to it, under their ids.
EntriesOK ==
    \A i \in Parties \cup {S} : \A e \in clients[i] :
        e.c \in Conns /\ e.c \in sent /\ e.c[3] = i /\ e.id = Id(e.c)

\* Who has reported to the server, and whom the server has answered.
Reported(i) == pc[Main(i)].step \notin {"dial", "hello"}
Told(i) == pc[Main(i)].step \notin {"dial", "hello", "names"}
ReportsOK == \A i \in Parties : NamesConn(i) \in sent => Reported(i)

\* Without a timeout: an id asked for is that of a connection accepted, and the
\* server closes only when it has told everybody.
UsedOK ==
    \A i \in Parties : \A id \in used[i] :
        \E p \in Threads, ch \in Channels, k \in 0 .. i :
            p[1] = i /\ Accepted(p, ch, k) /\ id = IdBase(p[2], ch) + k
ServerOK ==
    /\ server.step \in {"new", "wait", "send", "closed"} /\ server.k \in Nat
    /\ server.step = "wait" => \A i \in Parties : i < server.k => Reported(i)
    /\ server.step = "send" => \A i \in Parties : Reported(i) /\ (i < server.k => Told(i))
    /\ server.step = "closed" => \A i \in Parties : Told(i)
Smooth ==
    timeouts = 0 => NoFailure /\ UsedOK /\ ServerOK

StartInv ==
    /\ TypeInv
    /\ \A p \in Threads : CourseOK(p)
    /\ \A i \in Parties : pc[Main(i)].step \in Early => NotBegun(i)
    /\ \A p \in Threads, ch \in Channels, k \in Parties : SocketOK(p, ch, k)
    /\ EntriesOK /\ ReportsOK /\ Smooth

-----------------------------------------------------------------------------
(* A step that takes the threads D further.                                *)

Further(q) ==
    /\ pc'[q] \in Places /\ pc'[q].step # "failed" /\ CourseOK(q)'
    /\ \A ch \in Channels, k \in Nat : Accepted(q, ch, k) => Accepted(q, ch, k)'
    /\ pc'[q].step \in {"dial", "hello"} => pc[q].step \in {"dial", "hello"}
    /\ pc'[q].step \in {"dial", "hello", "names"} => pc[q].step \in {"dial", "hello", "names"}
    /\ pc'[q].step \in Early => pc[q].step \in Early
    /\ pc'[Main(q[1])].step \in Early => pc[q].step \notin {"idle", "failed"}
Moves(D) ==
    /\ UNCHANGED team
    /\ \A q \in Threads \ D : pc'[q] = pc[q]
    /\ \A q \in D : Further(q)

\* What is said of a thread that has not moved.
LEMMA Unmoved ==
    ASSUME UNCHANGED team, NEW q \in Threads, pc'[q] = pc[q]
    PROVE  /\ CourseOK(q)' <=> CourseOK(q)
           /\ \A ch, k : /\ Accepted(q, ch, k)' <=> Accepted(q, ch, k)
                         /\ Dialled(q, ch, k)' <=> Dialled(q, ch, k)
<1>1. Channels' = Channels
  BY TeamStays
<1>2. CourseOK(q)' <=> CourseOK(q)
  BY <1>1 DEF CourseOK, Early, Main
<1>3. \A ch, k : Accepted(q, ch, k)' <=> Accepted(q, ch, k)
  BY DEF Accepted
<1>4. \A ch, k : Dialled(q, ch, k)' <=> Dialled(q, ch, k)
  BY DEF Dialled
<1>5. QED BY <1>2, <1>3, <1>4

\* The places stay in order.
LEMMA CourseKept ==
    ASSUME StartInv, NEW D \in SUBSET Threads, Moves(D)
    PROVE  /\ \A q \in Threads : CourseOK(q)'
           /\ \A i \in Parties : pc'[Main(i)].step \in Early => NotBegun(i)'
<1>a. /\ team \in Teams /\ UNCHANGED team /\ Parties' = Parties /\ Threads' = Threads
      /\ \A q \in Threads : CourseOK(q)
      /\ \A i \in Parties : pc[Main(i)].step \in Early => NotBegun(i)
  BY TeamStays DEF StartInv, TypeInv, Moves
<1>1. ASSUME NEW q \in Threads PROVE CourseOK(q)'
  <2>1. CASE q \in D
    BY <2>1 DEF Moves, Further
  <2>2. CASE q \notin D
    <3>1. pc'[q] = pc[q]
      BY <2>2 DEF Moves
    <3>2. QED BY <1>a, <3>1, Unmoved
  <2>3. QED BY <2>1, <2>2
<1>2. ASSUME NEW i \in Parties, pc'[Main(i)].step \in Early PROVE NotBegun(i)'
  <2>1. Main(i) \in Threads
    BY <1>a, TeamFacts
  <2>2. pc[Main(i)].step \in Early
    BY <1>2, <2>1 DEF Moves, Further
  <2>3. NotBegun(i)
    BY <1>a, <2>2
  <2>4. ASSUME NEW q \in Threads, q[1] = i PROVE pc'[q].step \in Early \cup {"idle", "failed"}
    <3>1. CASE q = Main(i)
      BY <1>2, <3>1
    <3>2. CASE q # Main(i) /\ q \in D
      <4>1. pc[q].step \notin {"idle", "failed"}
        BY <1>2, <2>4, <3>2 DEF Moves, Further
      <4>2. pc[q].step \in Early
        BY <2>3, <2>4, <4>1 DEF NotBegun
      <4>3. q = Main(i)
        BY <1>a, <2>4, <4>2 DEF CourseOK
      <4>4. QED BY <3>2, <4>3
    <3>3. CASE q \notin D
      <4>1. pc'[q] = pc[q]
        BY <3>3 DEF Moves
      <4>2. QED BY <2>3, <2>4, <4>1 DEF NotBegun
    <3>4. QED BY <3>1, <3>2, <3>3
  <2>5. QED BY <1>a, <2>4 DEF NotBegun
<1>3. QED BY <1>1, <1>2

\* What holds without a timeout goes on to hold, and no report is taken back.
LEMMA SmoothKept ==
    ASSUME StartInv, NEW D \in SUBSET Threads, Moves(D), UNCHANGED timeouts
    PROVE  /\ timeouts = 0 => NoFailure'
           /\ UsedOK => \A i \in Parties : \A id \in used[i] :
                 \E p \in Threads, ch \in Channels, k \in 0 .. i :
                     p[1] = i /\ Accepted(p, ch, k)' /\ id = IdBase(p[2], ch) + k
           /\ \A i \in Parties : (Reported(i) => Reported(i)') /\ (Told(i) => Told(i)')
           /\ UNCHANGED sent => ReportsOK'
<1>a. /\ team \in Teams /\ UNCHANGED team /\ Parties' = Parties /\ Threads' = Threads
      /\ \A i \in Parties : Main(i) \in Threads
  BY TeamStays, TeamFacts DEF StartInv, TypeInv, Moves
<1>1. ASSUME timeouts = 0 PROVE NoFailure'
  <2>1. \A q \in Threads : pc[q] # Failed
    BY <1>1 DEF StartInv, Smooth, NoFailure
  <2>2. ASSUME NEW q \in Threads, pc'[q] = Failed PROVE FALSE
    <3>1. pc'[q].step = "failed"
      BY <2>2 DEF Failed, At
    <3>2. q \notin D
      BY <3>1 DEF Moves, Further
    <3>3. QED BY <2>1, <2>2, <3>2 DEF Moves
  <2>3. QED BY <1>a, <2>2 DEF NoFailure, Failed, At
<1>2. ASSUME NEW q \in Threads, NEW ch \in Channels, NEW k \in Nat, Accepted(q, ch, k)
      PROVE  Accepted(q, ch, k)'
  <2>1. CASE q \in D
    BY <1>2, <2>1 DEF Moves, Further
  <2>2. CASE q \notin D
    <3>1. pc'[q] = pc[q]
      BY <2>2 DEF Moves
    <3>2. QED BY <1>a, <1>2, <3>1, Unmoved
  <2>3. QED BY <2>1, <2>2
<1>3. ASSUME UsedOK, NEW i \in Parties, NEW id \in used[i]
      PROVE  \E p \in Threads, ch \in Channels, k \in 0 .. i :
                     p[1] = i /\ Accepted(p, ch, k)' /\ id = IdBase(p[2], ch) + k
  <2>1. PICK p \in Threads, ch \in Channels, k \in 0 .. i :
            p[1] = i /\ Accepted(p, ch, k) /\ id = IdBase(p[2], ch) + k
    BY <1>3 DEF UsedOK
  <2>2. k \in Nat
    BY <1>a, TeamFacts
  <2>3. Accepted(p, ch, k)'
    BY <1>2, <2>1, <2>2
  <2>4. QED BY <2>1, <2>3
<1>4. ASSUME NEW i \in Parties PROVE (Reported(i) => Reported(i)') /\ (Told(i) => Told(i)')
  <2>1. Main(i) \in Threads /\ Main(i)' = Main(i)
    BY <1>a DEF Main
  <2>2. CASE Main(i) \in D
    BY <2>1, <2>2 DEF Moves, Further, Reported, Told
  <2>3. CASE Main(i) \notin D
    BY <2>1, <2>3 DEF Moves, Reported, Told
  <2>4. QED BY <2>2, <2>3
<1>5. ASSUME UNCHANGED sent PROVE ReportsOK'
  BY <1>a, <1>4, <1>5 DEF StartInv, ReportsOK, NamesConn, Main
<1>6. QED BY <1>1, <1>3, <1>4, <1>5

\* The sockets of a thread that is not further than before.
LEMMA SocketStays ==
    ASSUME UNCHANGED team, NEW q \in Threads, NEW ch \in Channels, NEW k \in Parties,
           sockets'[q] = sockets[q], SocketOK(q, ch, k),
           q[1] < k /\ Dialled(q, ch, k)' => Dialled(q, ch, k),
           k <= q[1] /\ Accepted(q, ch, k)' => Accepted(q, ch, k)
    PROVE  SocketOK(q, ch, k)'
  BY DEF SocketOK, Link

\* The entries of the server sockets stay what they are.
LEMMA EntriesKept ==
    ASSUME StartInv, UNCHANGED <<team, clients>>, sent \subseteq sent'
    PROVE  EntriesOK'
<1>1. /\ EntriesOK /\ Parties' = Parties /\ Conns' = Conns /\ \A c : Id(c)' = Id(c)
      /\ clients' = clients /\ sent \subseteq sent'
  BY TeamStays DEF StartInv
<1>2. QED BY <1>1 DEF EntriesOK, S

\* A step that takes threads further and may send, but changes no entries.
LEMMA Move ==
    ASSUME StartInv, NEW D \in SUBSET Threads, Moves(D), TypeInv',
           UNCHANGED <<clients, timeouts>>, sent \subseteq sent',
           \A i \in Parties : NamesConn(i) \in sent' => NamesConn(i) \in sent \/ Reported(i)',
           \A q \in Threads \ D : sockets'[q] = sockets[q],
           \A q \in D, ch \in Channels, k \in Parties : SocketOK(q, ch, k)',
           timeouts = 0 => UsedOK' /\ ServerOK'
    PROVE  StartInv'
<1>a. /\ team \in Teams /\ UNCHANGED team /\ Parties' = Parties /\ Threads' = Threads
      /\ Channels' = Channels
      /\ \A i \in Parties : Main(i)' = Main(i) /\ NamesConn(i)' = NamesConn(i)
  BY TeamStays DEF StartInv, TypeInv, Moves, Main, NamesConn
<1>1. (\A q \in Threads : CourseOK(q))'
  BY <1>a, CourseKept
<1>2. (\A i \in Parties : pc[Main(i)].step \in Early => NotBegun(i))'
  BY <1>a, CourseKept DEF Early
<1>3. ASSUME NEW q \in Threads, NEW ch \in Channels, NEW k \in Parties
      PROVE  SocketOK(q, ch, k)'
  <2>1. CASE q \in D
    BY <2>1
  <2>2. CASE q \notin D
    <3>1. pc'[q] = pc[q] /\ sockets'[q] = sockets[q]
      BY <2>2 DEF Moves
    <3>2. SocketOK(q, ch, k)
      BY DEF StartInv
    <3>3. QED BY <1>a, <3>1, <3>2, Unmoved, SocketStays
  <2>3. QED BY <2>1, <2>2
<1>4. (\A q \in Threads, ch \in Channels, k \in Parties : SocketOK(q, ch, k))'
  BY <1>a, <1>3
<1>5. EntriesOK'
  BY <1>a, EntriesKept
<1>6. ReportsOK'
  <2>1. \A i \in Parties : NamesConn(i) \in sent => Reported(i)
    BY DEF StartInv, ReportsOK
  <2>2. \A i \in Parties : Reported(i) => Reported(i)'
    BY SmoothKept
  <2>3. QED BY <1>a, <2>1, <2>2 DEF ReportsOK
<1>7. Smooth'
  <2>1. timeouts = 0 => NoFailure'
    BY SmoothKept
  <2>2. timeouts' = timeouts
    OBVIOUS
  <2>3. QED BY <2>1, <2>2 DEF Smooth
<1>8. QED BY <1>1, <1>2, <1>4, <1>5, <1>6, <1>7 DEF StartInv

\* What was used stays used by an accepted connection, ...
LEMMA UsedKept ==
    ASSUME StartInv, NEW D \in SUBSET Threads, Moves(D), UNCHANGED <<timeouts, used>>,
           timeouts = 0
    PROVE  UsedOK'
<1>a. /\ UNCHANGED team /\ Parties' = Parties /\ Threads' = Threads /\ Channels' = Channels
      /\ UsedOK /\ \A t, ch : IdBase(t, ch)' = IdBase(t, ch)
  BY TeamStays DEF StartInv, TypeInv, Moves, Smooth
<1>1. \A i \in Parties : \A id \in used[i] :
          \E p \in Threads, ch \in Channels, k \in 0 .. i :
              p[1] = i /\ Accepted(p, ch, k)' /\ id = IdBase(p[2], ch) + k
  BY <1>a, SmoothKept
<1>2. QED BY <1>a, <1>1 DEF UsedOK

\* ... and the server as far as it was.
LEMMA ServerKept ==
    ASSUME StartInv, NEW D \in SUBSET Threads, Moves(D), UNCHANGED <<timeouts, server>>,
           timeouts = 0
    PROVE  ServerOK'
<1>a. UNCHANGED team /\ Parties' = Parties /\ ServerOK
  BY TeamStays DEF StartInv, Moves, Smooth
<1>1. \A i \in Parties : (Reported(i) => Reported(i)') /\ (Told(i) => Told(i)')
  BY SmoothKept
<1>2. QED BY <1>a, <1>1 DEF ServerOK

-----------------------------------------------------------------------------
(* The actions.                                                            *)

\* Replacing the place of one thread.
LEMMA GoFacts ==
    ASSUME TypeInv, UNCHANGED team, NEW p \in Threads, NEW next \in Places, Go(p, next)
    PROVE  /\ pc' \in [Threads -> Places] /\ pc'[p] = next
           /\ \A q \in Threads \ {p} : pc'[q] = pc[q]
  BY DEF TypeInv, Go

\* Connecting to the server (Names::setup_names).
LEMMA DialServerKeeps ==
    ASSUME StartInv, NEW i \in Parties, DialServer(i)
    PROVE  StartInv'
<1>a. /\ TypeInv /\ UNCHANGED <<team, server, sent, clients, used, sockets, timeouts>>
      /\ Threads' = Threads /\ Channels' = Channels /\ Parties' = Parties /\ Conns' = Conns
      /\ pc[Main(i)].step = "dial"
  BY TeamStays DEF StartInv, DialServer
<1>b. Main(i) \in Threads /\ Main(i)[1] = i
  BY <1>a, TeamFacts DEF TypeInv, Main
<1>c. pc' \in [Threads -> Places] /\ pc'[Main(i)] = At("hello", 0, 0)
      /\ \A q \in Threads \ {Main(i)} : pc'[q] = pc[q]
  BY <1>a, <1>b, GoFacts DEF DialServer, At, Places
<1>1. TypeInv'
  BY <1>a, <1>c DEF TypeInv
<1>2. Further(Main(i))
  BY <1>a, <1>b, <1>c DEF Further, CourseOK, Accepted, At, Early, Main
<1>3. Moves({Main(i)})
  BY <1>a, <1>c, <1>2 DEF Moves
<1>4. ASSUME NEW ch \in Channels, NEW k \in Parties PROVE SocketOK(Main(i), ch, k)'
  <2>1. SocketOK(Main(i), ch, k)
    BY <1>b DEF StartInv
  <2>2. ~Dialled(Main(i), ch, k)' /\ ~Accepted(Main(i), ch, k)'
    BY <1>c DEF Dialled, Accepted, At
  <2>3. QED BY <1>a, <1>b, <2>1, <2>2, SocketStays
<1>5. timeouts = 0 => UsedOK' /\ ServerOK'
  BY <1>a, <1>b, <1>3, UsedKept, ServerKept
<1>6. QED BY <1>a, <1>b, <1>1, <1>3, <1>4, <1>5, Move

\* Reporting to the server: from here on its id counts.
LEMMA SendHelloKeeps ==
    ASSUME StartInv, NEW i \in Parties, SendHello(i)
    PROVE  StartInv'
<1>a. /\ TypeInv /\ UNCHANGED <<team, server, clients, used, sockets, timeouts>>
      /\ Threads' = Threads /\ Channels' = Channels /\ Parties' = Parties /\ Conns' = Conns
      /\ pc[Main(i)].step = "hello" /\ sent' = sent \cup {NamesConn(i)}
  BY TeamStays DEF StartInv, SendHello
<1>b. Main(i) \in Threads /\ Main(i)[1] = i
  BY <1>a, TeamFacts DEF TypeInv, Main
<1>c. pc' \in [Threads -> Places] /\ pc'[Main(i)] = At("names", 0, 0)
      /\ \A q \in Threads \ {Main(i)} : pc'[q] = pc[q]
  BY <1>a, <1>b, GoFacts DEF SendHello, At, Places
<1>1. TypeInv'
  BY <1>a, <1>c DEF TypeInv
<1>2. Further(Main(i))
  BY <1>a, <1>b, <1>c DEF Further, CourseOK, Accepted, At, Early, Main
<1>3. Moves({Main(i)})
  BY <1>a, <1>c, <1>2 DEF Moves
<1>4. ASSUME NEW ch \in Channels, NEW k \in Parties PROVE SocketOK(Main(i), ch, k)'
  <2>1. SocketOK(Main(i), ch, k)
    BY <1>b DEF StartInv
  <2>2. ~Dialled(Main(i), ch, k)' /\ ~Accepted(Main(i), ch, k)'
    BY <1>c DEF Dialled, Accepted, At
  <2>3. QED BY <1>a, <1>b, <2>1, <2>2, SocketStays
<1>5. timeouts = 0 => UsedOK' /\ ServerOK'
  BY <1>a, <1>b, <1>3, UsedKept, ServerKept
<1>6. ASSUME NEW j \in Parties, NamesConn(j) \in sent'
      PROVE  NamesConn(j) \in sent \/ Reported(j)'
  <2>1. NamesConn(j) = NamesConn(i) => j = i
    BY DEF NamesConn, Main
  <2>2. Reported(i)'
    BY <1>c DEF Reported, At, Main
  <2>3. QED BY <1>a, <1>6, <2>1, <2>2
<1>7. QED BY <1>a, <1>b, <1>1, <1>3, <1>4, <1>5, <1>6, Move

\* Every party's threads begin with themselves.
LEMMA ListenKeeps ==
    ASSUME StartInv, NEW i \in Parties, Listen(i)
    PROVE  StartInv'
<1> DEFINE D == {p \in Threads : p[1] = i}
<1>a. /\ TypeInv /\ UNCHANGED <<team, server, conn, sent, clients, used, sockets, timeouts>>
      /\ Threads' = Threads /\ Channels' = Channels /\ Parties' = Parties /\ Conns' = Conns
      /\ pc[Main(i)].step = "listen"
      /\ pc' = [p \in Threads |-> IF p[1] = i THEN At("connect", 0, i) ELSE pc[p]]
  BY TeamStays DEF StartInv, Listen
<1>b. /\ i \in Nat /\ i < team.n /\ team.n \in Nat /\ 0 \in Channels
      /\ Main(i) \in Threads /\ Main(i)[1] = i
  BY <1>a, TeamFacts DEF TypeInv, Main
<1>c. NotBegun(i)
  BY <1>a DEF StartInv, Early
<1>d. At("connect", 0, i) \in Places
  BY <1>b DEF Places, At
<1>1. TypeInv'
  BY <1>a, <1>d DEF TypeInv
<1>2. ASSUME NEW p \in D PROVE Further(p)
  <2>1. pc'[p] = At("connect", 0, i) /\ pc'[Main(p[1])] = At("connect", 0, i)
    BY <1>a, <1>b
  <2>2. CourseOK(p)'
    BY <1>a, <1>b, <2>1 DEF CourseOK, At, Early
  <2>3. \A ch \in Channels, k \in Nat : ~Accepted(p, ch, k)
    BY <1>c DEF NotBegun, Accepted, Early
  <2>4. QED BY <1>d, <2>1, <2>2, <2>3 DEF Further, At, Early
<1>3. Moves(D)
  BY <1>a, <1>2 DEF Moves
<1>4. ASSUME NEW q \in D, NEW ch \in Channels, NEW k \in Parties PROVE SocketOK(q, ch, k)'
  <2>1. SocketOK(q, ch, k) /\ pc'[q] = At("connect", 0, i) /\ k \in Nat
    BY <1>a, TeamFacts DEF StartInv, TypeInv
  <2>2. ~Accepted(q, ch, k)'
    <3>1. ch \in {0, 1}
      BY <1>a, TeamFacts DEF TypeInv
    <3>2. QED BY <2>1, <3>1 DEF Accepted, At
  <2>3. q[1] < k => ~Dialled(q, ch, k)'
    <3>1. ch \in {0, 1}
      BY <1>a, TeamFacts DEF TypeInv
    <3>2. QED BY <1>b, <2>1, <3>1 DEF Dialled, At
  <2>4. QED BY <1>a, <2>1, <2>2, <2>3, SocketStays
<1>5. timeouts = 0 => UsedOK' /\ ServerOK'
  BY <1>a, <1>3, UsedKept, ServerKept
<1>6. QED BY <1>a, <1>1, <1>3, <1>4, <1>5, Move

\* Connecting to a peer sets the socket for it.
LEMMA ConnectToKeeps ==
    ASSUME StartInv, NEW p \in Threads, ConnectTo(p)
    PROVE  StartInv'
<1>a. PICK ch, k, c : ch = pc[p].ch /\ k = pc[p].k /\ c = <<p, ch, k>>
  OBVIOUS
<1>b. /\ TypeInv /\ UNCHANGED <<team, server, sent, clients, used, timeouts>>
      /\ Threads' = Threads /\ Channels' = Channels /\ Parties' = Parties /\ Conns' = Conns
      /\ pc[p].step = "connect" /\ sockets' = [sockets EXCEPT ![p][ch][k] = c]
      /\ Go(p, At("ident", ch, k))
  BY <1>a, TeamStays DEF StartInv, ConnectTo
<1>c. /\ p[1] \in Parties /\ team.n \in Nat /\ p[1] \in Nat /\ ch \in Channels /\ ch \in {0, 1}
      /\ k \in p[1] .. team.n - 1 /\ k \in Nat /\ k \in Parties
  <2>1. CourseOK(p) /\ team \in Teams
    BY DEF StartInv, TypeInv
  <2>2. ch \in Channels /\ k \in p[1] .. team.n - 1
    BY <1>a, <1>b, <2>1 DEF CourseOK
  <2>3. /\ p[1] \in Parties /\ team.n \in Nat /\ p[1] \in Nat /\ Channels \subseteq {0, 1}
    BY <2>1, TeamFacts
  <2>4. QED BY <2>2, <2>3 DEF Parties
<1>d. At("ident", ch, k) \in Places
  BY <1>c DEF Places, At
<1>e. pc' \in [Threads -> Places] /\ pc'[p] = At("ident", ch, k)
      /\ \A q \in Threads \ {p} : pc'[q] = pc[q]
  BY <1>b, <1>d, GoFacts
<1>f. c \in Conns /\ c = Link(p, ch, k)
  BY <1>a, <1>c DEF Conns, Link
<1>g. /\ sockets' \in [Threads -> [Channels -> [Parties -> Conns \cup {None}]]]
      /\ sockets'[p][ch][k] = c
      /\ \A d \in Channels, l \in Parties :
            <<d, l>> # <<ch, k>> => sockets'[p][d][l] = sockets[p][d][l]
      /\ \A q \in Threads \ {p} : sockets'[q] = sockets[q]
  BY <1>b, <1>c, <1>f DEF TypeInv
<1>1. TypeInv'
  BY <1>b, <1>e, <1>g DEF TypeInv
<1>2. Further(p)
  <2>1. CourseOK(p)'
    BY <1>b, <1>c, <1>e DEF CourseOK, At, Early
  <2>2. \A d \in Channels, l \in Nat : Accepted(p, d, l) => Accepted(p, d, l)'
    BY <1>a, <1>b, <1>e DEF Accepted, At
  <2>3. pc'[Main(p[1])].step \in Early => pc[p].step \notin {"idle", "failed"}
    BY <1>b
  <2>4. QED BY <1>d, <1>e, <2>1, <2>2, <2>3 DEF Further, At, Early
<1>3. Moves({p})
  BY <1>b, <1>e, <1>2 DEF Moves
<1>4. ASSUME NEW d \in Channels, NEW l \in Parties PROVE SocketOK(p, d, l)'
  <2>1. SocketOK(p, d, l) /\ d \in {0, 1} /\ l \in Nat
    BY <1>b, TeamFacts DEF StartInv, TypeInv
  <2>2. CASE <<d, l>> = <<ch, k>>
    BY <1>f, <1>g, <2>2 DEF SocketOK, Link
  <2>3. CASE <<d, l>> # <<ch, k>>
    <3>1. sockets'[p][d][l] = sockets[p][d][l]
      BY <1>g, <2>3
    <3>2. Accepted(p, d, l)' => Accepted(p, d, l)
      BY <1>a, <1>b, <1>e DEF Accepted, At
    <3>3. Dialled(p, d, l)' => Dialled(p, d, l)
      BY <1>a, <1>b, <1>c, <1>e, <2>1, <2>3 DEF Dialled, At
    <3>4. QED BY <2>1, <3>1, <3>2, <3>3 DEF SocketOK, Link
  <2>4. QED BY <2>2, <2>3
<1>5. timeouts = 0 => UsedOK' /\ ServerOK'
  BY <1>b, <1>3, UsedKept, ServerKept
<1>6. QED BY <1>b, <1>1, <1>3, <1>4, <1>5, <1>g, Move

\* Sending the id, and on to the next peer or to waiting.
LEMMA SendIdKeeps ==
    ASSUME StartInv, NEW p \in Threads, SendId(p)
    PROVE  StartInv'
<1>a. PICK ch, k : ch = pc[p].ch /\ k = pc[p].k
  OBVIOUS
<1>b. PICK next : next = IF k < team.n - 1 THEN At("connect", ch, k + 1) ELSE At("accept", ch, 0)
  OBVIOUS
<1>c. /\ TypeInv /\ UNCHANGED <<team, server, clients, used, sockets, timeouts>>
      /\ Threads' = Threads /\ Channels' = Channels /\ Parties' = Parties /\ Conns' = Conns
      /\ pc[p].step = "ident" /\ sent' = sent \cup {<<p, ch, k>>} /\ Go(p, next)
  BY <1>a, <1>b, TeamStays DEF StartInv, SendId
<1>d. /\ p[1] \in Parties /\ team.n \in Nat /\ p[1] \in Nat /\ ch \in Channels /\ ch \in {0, 1}
      /\ k \in p[1] .. team.n - 1 /\ k \in Nat /\ Channels \subseteq {0, 1} /\ Parties \subseteq Nat
      /\ \A l \in Parties : l < team.n
  <2>1. CourseOK(p) /\ team \in Teams
    BY DEF StartInv, TypeInv
  <2>2. ch \in Channels /\ k \in p[1] .. team.n - 1
    BY <1>a, <1>c, <2>1 DEF CourseOK
  <2>3. /\ p[1] \in Parties /\ team.n \in Nat /\ p[1] \in Nat /\ Channels \subseteq {0, 1}
        /\ Parties \subseteq Nat /\ \A l \in Parties : l < team.n
    BY <2>1, TeamFacts
  <2>4. QED BY <2>2, <2>3
<1>e. next \in Places
  BY <1>b, <1>d DEF Places, At
<1>f. pc' \in [Threads -> Places] /\ pc'[p] = next
      /\ \A q \in Threads \ {p} : pc'[q] = pc[q]
  BY <1>c, <1>e, GoFacts
<1>1. TypeInv'
  BY <1>c, <1>f DEF TypeInv
<1>g. \/ k < team.n - 1 /\ pc'[p].step = "connect" /\ pc'[p].ch = ch /\ pc'[p].k = k + 1
      \/ k = team.n - 1 /\ pc'[p].step = "accept" /\ pc'[p].ch = ch /\ pc'[p].k = 0
  BY <1>b, <1>d, <1>f DEF At
<1>2. Further(p)
  <2>1. CourseOK(p)'
    BY <1>c, <1>d, <1>g DEF CourseOK, Early
  <2>2. \A d \in Channels, l \in Nat : Accepted(p, d, l) => Accepted(p, d, l)'
    BY <1>a, <1>c, <1>g DEF Accepted
  <2>3. pc'[Main(p[1])].step \in Early => pc[p].step \notin {"idle", "failed"}
    BY <1>c
  <2>4. pc'[p].step \in {"connect", "accept"}
    BY <1>g
  <2>5. QED BY <1>e, <1>f, <2>1, <2>2, <2>3, <2>4 DEF Further, Early
<1>3. Moves({p})
  BY <1>c, <1>f, <1>2 DEF Moves
<1>4. ASSUME NEW d \in Channels, NEW l \in Parties PROVE SocketOK(p, d, l)'
  <2>1. SocketOK(p, d, l) /\ d \in {0, 1} /\ l \in Nat /\ l < team.n
    BY <1>d DEF StartInv
  <2>2. Accepted(p, d, l)' => Accepted(p, d, l)
    BY <1>a, <1>c, <1>g, <2>1 DEF Accepted
  <2>3. Dialled(p, d, l)' => Dialled(p, d, l)
    BY <1>a, <1>c, <1>d, <1>g, <2>1 DEF Dialled
  <2>4. QED BY <1>c, <2>1, <2>2, <2>3, SocketStays
<1>5. timeouts = 0 => UsedOK' /\ ServerOK'
  BY <1>c, <1>3, UsedKept, ServerKept
<1>6. ASSUME NEW j \in Parties, NamesConn(j) \in sent' PROVE NamesConn(j) \in sent
  <2>1. NamesConn(j) # <<p, ch, k>>
    BY <1>d DEF NamesConn
  <2>2. QED BY <1>c, <1>6, <2>1
<1>7. QED BY <1>c, <1>1, <1>3, <1>4, <1>5, <1>6, Move

\* Every set of numbers has a least element.
LEMMA LeastNumber ==
    ASSUME NEW T, T \subseteq Nat, T # {}
    PROVE  \E x \in T : \A y \in T : x <= y
<1>1. IsWellFoundedOn(OpToRel(<, Nat), Nat)
  BY NatLessThanWellFounded
<1>2. PICK x \in T : \A y \in T : ~(<<y, x>> \in OpToRel(<, Nat))
  BY <1>1, WFMin
<1>3. \A y \in T : ~(y < x)
  BY <1>2 DEF OpToRel
<1>4. QED BY <1>3

\* What follows a handshake.
LEMMA ShakeFacts ==
    ASSUME StartInv, NEW p \in Threads
    PROVE  NextShake(p) \in Places /\ NextShake(p).step \in {"shake", "up"}
<1>a. pc[p].k \in Nat /\ Parties \subseteq Nat
  BY TeamFacts DEF StartInv, TypeInv, Places
<1>1. CASE pc[p].ch = 0
  BY <1>a, <1>1 DEF NextShake, At, Places
<1>2. CASE pc[p].ch # 0
  <2>1. PICK next : next = {k \in Parties : k > pc[p].k /\ k # p[1]}
    OBVIOUS
  <2>2. NextShake(p) = IF next = {} THEN Up
                       ELSE At("shake", 0, CHOOSE k \in next : \A l \in next : k <= l)
    BY <1>2, <2>1 DEF NextShake
  <2>3. CASE next = {}
    BY <2>2, <2>3 DEF Up, At, Places
  <2>4. CASE next # {}
    <3>1. \E k \in next : \A l \in next : k <= l
      BY <1>a, <2>1, <2>4, LeastNumber
    <3>2. PICK m \in next : m = CHOOSE k \in next : \A l \in next : k <= l
      BY <3>1
    <3>3. m \in Nat
      BY <1>a, <2>1
    <3>4. NextShake(p) = At("shake", 0, m)
      BY <2>2, <2>4, <3>2
    <3>5. QED BY <3>3, <3>4 DEF At, Places
  <2>5. QED BY <2>3, <2>4
<1>3. QED BY <1>1, <1>2

\* A handshake takes two threads further, both with all connections made.
LEMMA HandshakeKeeps ==
    ASSUME StartInv, NEW p \in Threads, NEW q \in Threads, Handshake(p, q)
    PROVE  StartInv'
<1>a. /\ TypeInv /\ UNCHANGED <<team, server, conn, sent, clients, used, sockets, timeouts>>
      /\ Threads' = Threads /\ Channels' = Channels /\ Parties' = Parties /\ Conns' = Conns
      /\ pc[p].step = "shake" /\ pc[q].step = "shake" /\ p # q
      /\ pc' = [pc EXCEPT ![p] = NextShake(p), ![q] = NextShake(q)]
  <2>1. UNCHANGED team
    BY DEF Handshake
  <2>2. p[1] < q[1] /\ p[1] \in Nat /\ team \in Teams
    BY TeamFacts DEF Handshake, StartInv, TypeInv
  <2>3. p # q
    BY <2>2
  <2>4. QED BY <2>1, <2>3, TeamStays DEF StartInv, Handshake
<1>b. /\ NextShake(p) \in Places /\ NextShake(p).step \in {"shake", "up"}
      /\ NextShake(q) \in Places /\ NextShake(q).step \in {"shake", "up"}
  BY ShakeFacts
<1>c. /\ pc' \in [Threads -> Places] /\ pc'[p] = NextShake(p) /\ pc'[q] = NextShake(q)
      /\ \A r \in Threads \ {p, q} : pc'[r] = pc[r]
  BY <1>a, <1>b DEF TypeInv
<1>1. TypeInv'
  BY <1>a, <1>c DEF TypeInv
<1>2. ASSUME NEW r \in {p, q} PROVE Further(r)
  <2>1. pc'[r] \in Places /\ pc'[r].step \in {"shake", "up"} /\ pc[r].step = "shake"
    BY <1>a, <1>b, <1>c
  <2>2. CourseOK(r)'
    BY <2>1 DEF CourseOK, Early
  <2>3. \A ch \in Channels, k \in Nat : Accepted(r, ch, k)'
    BY <2>1 DEF Accepted
  <2>4. QED BY <2>1, <2>2, <2>3 DEF Further, Early
<1>3. Moves({p, q})
  BY <1>a, <1>c, <1>2 DEF Moves
<1>4. ASSUME NEW r \in {p, q}, NEW ch \in Channels, NEW k \in Parties PROVE SocketOK(r, ch, k)'
  <2>1. SocketOK(r, ch, k) /\ pc[r].step = "shake"
    BY <1>a DEF StartInv
  <2>2. Accepted(r, ch, k) /\ Dialled(r, ch, k)
    BY <2>1 DEF Accepted, Dialled
  <2>3. QED BY <1>a, <2>1, <2>2, SocketStays
<1>5. timeouts = 0 => UsedOK' /\ ServerOK'
  BY <1>a, <1>3, UsedKept, ServerKept
<1>6. QED BY <1>a, <1>1, <1>3, <1>4, <1>5, Move

\* A new entry is that of a connection whose id has been read.
LEMMA RegisterKeeps ==
    ASSUME StartInv, NEW c \in Conns, c \in sent, Register(c),
           UNCHANGED <<team, pc, server, listening, sent, used, sockets, timeouts>>
    PROVE  StartInv'
<1>a. /\ TypeInv /\ EntriesOK /\ ReportsOK /\ Smooth
      /\ Threads' = Threads /\ Channels' = Channels /\ Parties' = Parties /\ Conns' = Conns
      /\ \A d : Id(d)' = Id(d)
      /\ \A t, ch : IdBase(t, ch)' = IdBase(t, ch)
  BY TeamStays DEF StartInv
<1>b. Moves({})
  BY DEF Moves
<1>1. TypeInv'
  BY <1>a DEF TypeInv, Register, S
<1>2. EntriesOK'
  <2>1. ASSUME NEW i \in Parties \cup {S}, NEW e \in clients'[i]
        PROVE  e.c \in Conns /\ e.c \in sent /\ e.c[3] = i /\ e.id = Id(e.c)
    <3>1. CASE i # c[3]
      <4>1. clients'[i] = clients[i]
        BY <1>a, <3>1 DEF Register, TypeInv
      <4>2. QED BY <1>a, <2>1, <4>1 DEF EntriesOK
    <3>2. CASE i = c[3]
      <4>1. clients'[i] = {x \in clients[i] : x.id # Id(c)} \cup {[id |-> Id(c), c |-> c]}
        BY <1>a, <3>2 DEF Register, TypeInv
      <4>2. e \in clients[i] \/ e = [id |-> Id(c), c |-> c]
        BY <2>1, <4>1
      <4>3. CASE e \in clients[i]
        BY <1>a, <4>3 DEF EntriesOK
      <4>4. CASE e = [id |-> Id(c), c |-> c]
        BY <3>2, <4>4
      <4>5. QED BY <4>2, <4>3, <4>4
    <3>3. QED BY <3>1, <3>2
  <2>2. QED BY <1>a, <2>1 DEF EntriesOK, S
<1>3. ReportsOK'
  BY <1>a DEF ReportsOK, NamesConn, Reported, Main
<1>4. Smooth'
  <2>1. CASE timeouts # 0
    BY <2>1 DEF Smooth
  <2>2. CASE timeouts = 0
    <3>1. NoFailure'
      BY <2>2, <1>b, SmoothKept
    <3>2. UsedOK'
      BY <2>2, <1>b, UsedKept
    <3>3. ServerOK'
      BY <2>2, <1>b, ServerKept
    <3>4. QED BY <3>1, <3>2, <3>3 DEF Smooth
  <2>3. QED BY <2>1, <2>2
<1>5. \A q \in Threads : CourseOK(q)'
  BY <1>b, CourseKept
<1>6. (\A i \in Parties : pc[Main(i)].step \in Early => NotBegun(i))'
  BY <1>a, <1>b, CourseKept DEF Early, Main
<1>7. ASSUME NEW q \in Threads, NEW ch \in Channels, NEW k \in Parties PROVE SocketOK(q, ch, k)'
  <2>1. SocketOK(q, ch, k)
    BY DEF StartInv
  <2>2. QED BY <2>1, Unmoved, SocketStays
<1>8. QED BY <1>a, <1>1, <1>2, <1>3, <1>4, <1>5, <1>6, <1>7 DEF StartInv

\* A step that changes nothing of the above.
LEMMA QuietKeeps ==
    ASSUME StartInv, UNCHANGED <<team, pc, server, sent, clients, used, sockets, timeouts>>
    PROVE  StartInv'
<1>a. /\ Moves({}) /\ TypeInv
      /\ Threads' = Threads /\ Channels' = Channels /\ Parties' = Parties /\ Conns' = Conns
  BY TeamStays DEF Moves, StartInv
<1>1. TypeInv'
  BY <1>a DEF TypeInv, S
<1>2. timeouts = 0 => UsedOK' /\ ServerOK'
  BY <1>a, UsedKept, ServerKept
<1>3. QED BY <1>a, <1>1, <1>2, Move

\* The accept thread and the threads that wait for an id.
LEMMA AcceptKeeps ==
    ASSUME StartInv, NEW c \in Conns, Accept(c) \/ Identify(c)
    PROVE  StartInv'
<1>1. CASE c \in sent
  BY <1>1, RegisterKeeps DEF Accept, Identify
<1>2. CASE c \notin sent
  <2>1. UNCHANGED <<team, pc, server, listening, sent, clients, used, sockets, timeouts>>
    BY <1>2 DEF Accept, Identify
  <2>2. QED BY <2>1, QuietKeeps
<1>3. QED BY <1>1, <1>2

\* The server starts listening.
LEMMA StartServerKeeps ==
    ASSUME StartInv, StartServer
    PROVE  StartInv'
<1>a. /\ TypeInv /\ team \in Teams
      /\ UNCHANGED <<team, pc, conn, sent, clients, used, sockets, timeouts>>
      /\ Threads' = Threads /\ Channels' = Channels /\ Parties' = Parties /\ Conns' = Conns
  BY TeamStays DEF StartInv, StartServer, TypeInv
<1>b. Moves({})
  BY <1>a DEF Moves
<1>1. TypeInv'
  BY <1>a DEF TypeInv, S
<1>2. timeouts = 0 => UsedOK'
  BY <1>a, <1>b, UsedKept
<1>3. ServerOK'
  <2>1. server'.step = "wait" /\ server'.k = 0
    BY DEF StartServer
  <2>2. \A i \in Parties : ~(i < 0)
    BY <1>a, TeamFacts
  <2>3. QED BY <1>a, <2>1, <2>2 DEF ServerOK
<1>4. QED BY <1>a, <1>b, <1>1, <1>2, <1>3, Move

\* The server takes the next name once its party has reported.
LEMMA ServerGetKeeps ==
    ASSUME StartInv, ServerGet
    PROVE  StartInv'
<1>a. /\ TypeInv /\ EntriesOK /\ ReportsOK /\ team \in Teams
      /\ UNCHANGED <<team, pc, listening, conn, sent, clients, sockets, timeouts>>
      /\ Threads' = Threads /\ Channels' = Channels /\ Parties' = Parties /\ Conns' = Conns
      /\ \A t, ch : IdBase(t, ch)' = IdBase(t, ch)
  BY TeamStays DEF StartInv, ServerGet, TypeInv
<1>b. Moves({})
  BY <1>a DEF Moves
<1>1. TypeInv'
  BY <1>a DEF TypeInv, ServerGet, S
<1>2. ASSUME timeouts = 0 PROVE UsedOK'
  <2>1. UsedOK /\ \A i \in Parties : used'[i] = used[i]
    <3>1. UsedOK
      BY <1>2 DEF StartInv, Smooth
    <3>2. ASSUME NEW i \in Parties PROVE used'[i] = used[i]
      <4>1. i # S
        BY <1>a, TeamFacts
      <4>2. QED BY <4>1, <1>a DEF ServerGet, TypeInv
    <3>3. QED BY <3>1, <3>2
  <2>2. \A p, ch, k : Accepted(p, ch, k)' <=> Accepted(p, ch, k)
    BY <1>a DEF Accepted
  <2>3. QED BY <1>a, <2>1, <2>2 DEF UsedOK
<1>3. ASSUME timeouts = 0 PROVE ServerOK'
  <2>1. ServerOK /\ server.k \in Nat /\ server.step = "wait"
    BY <1>3 DEF StartInv, Smooth, ServerOK, ServerGet
  <2>2. \A i \in Parties : i < server.k => Reported(i)
    BY <2>1 DEF ServerOK
  <2>3. server.k \in Parties => Reported(server.k)
    <3> SUFFICES ASSUME server.k \in Parties PROVE Reported(server.k)
      OBVIOUS
    <3>1. PICK e \in clients[S] : e.id = server.k
      BY DEF ServerGet, Offered
    <3>2. e.c \in Conns /\ e.c \in sent /\ e.c[3] = S /\ e.id = Id(e.c)
      BY <1>a, <3>1 DEF EntriesOK
    <3>3. S \notin Parties
      BY <1>a, TeamFacts
    <3>4. PICK i \in Parties : e.c = NamesConn(i)
      BY <3>2, <3>3, ConnParts
    <3>5. Id(e.c) = i
      BY <3>4 DEF NamesConn, Id, Main
    <3>6. i = server.k
      BY <3>1, <3>2, <3>5
    <3>7. QED BY <1>a, <3>2, <3>4, <3>6 DEF ReportsOK
  <2>4. \A i \in Parties : Reported(i)' = Reported(i) /\ Told(i)' = Told(i)
    BY <1>a DEF Reported, Told, Main
  <2>5. /\ team.n \in Nat /\ \A i \in Parties : i \in Nat /\ i < team.n
    BY <1>a, TeamFacts
  <2>6. CASE server.k = team.n - 1
    <3>1. server'.step = "send" /\ server'.k = 0
      BY <2>6 DEF ServerGet
    <3>2. \A i \in Parties : Reported(i)
      BY <2>2, <2>3, <2>5, <2>6
    <3>3. \A i \in Parties : ~(i < 0)
      BY <2>5
    <3>4. QED BY <1>a, <2>4, <3>1, <3>2, <3>3 DEF ServerOK
  <2>7. CASE server.k # team.n - 1
    <3>1. server'.step = "wait" /\ server'.k = server.k + 1
      BY <2>7 DEF ServerGet
    <3>2. \A i \in Parties : i < server.k + 1 => Reported(i)
      BY <2>1, <2>2, <2>3, <2>5
    <3>3. QED BY <1>a, <2>1, <2>4, <3>1, <3>2 DEF ServerOK
  <2>8. QED BY <2>6, <2>7
<1>4. QED BY <1>a, <1>b, <1>1, <1>2, <1>3, Move

\* The server tells the next party, which goes on to listen.
LEMMA ServerSendKeeps ==
    ASSUME StartInv, ServerSend
    PROVE  StartInv'
<1>a. /\ TypeInv /\ team \in Teams
      /\ UNCHANGED <<team, conn, sent, clients, used, sockets, timeouts>>
      /\ Threads' = Threads /\ Channels' = Channels /\ Parties' = Parties /\ Conns' = Conns
  BY TeamStays DEF StartInv, ServerSend, TypeInv
<1>b. PICK m, s : m = Main(s) /\ s = server.k
  OBVIOUS
<1>c. pc' = IF pc[m].step = "names" THEN [pc EXCEPT ![m] = At("listen", 0, 0)] ELSE pc
  BY <1>b DEF ServerSend
<1>d. pc' \in [Threads -> Places] /\ \A q \in Threads \ {m} : pc'[q] = pc[q]
  <2>1. At("listen", 0, 0) \in Places
    BY DEF At, Places
  <2>2. QED BY <1>a, <1>c, <2>1 DEF TypeInv
<1>e. PICK D \in SUBSET Threads : D = {q \in Threads : q = m /\ pc[q].step = "names"}
  OBVIOUS
<1>f. \A q \in D : q = m /\ pc[q].step = "names" /\ pc'[q] = At("listen", 0, 0)
  BY <1>a, <1>c, <1>e DEF TypeInv
<1>g. \A q \in Threads \ D : pc'[q] = pc[q]
  BY <1>a, <1>c, <1>d, <1>e
<1>1. TypeInv'
  BY <1>a, <1>d DEF TypeInv
<1>2. ASSUME NEW q \in D PROVE Further(q)
  <2>1. CourseOK(q) /\ pc[q].step = "names" /\ pc'[q] = At("listen", 0, 0)
    BY <1>f DEF StartInv
  <2>2. q = Main(q[1])
    BY <2>1 DEF CourseOK, Early
  <2>3. CourseOK(q)'
    BY <2>1, <2>2 DEF CourseOK, At, Early, Main
  <2>4. \A ch \in Channels, k \in Nat : ~Accepted(q, ch, k)
    BY <2>1 DEF Accepted
  <2>5. QED BY <1>d, <2>1, <2>3, <2>4 DEF Further, At, Early
<1>3. Moves(D)
  BY <1>a, <1>g, <1>2 DEF Moves
<1>4. ASSUME NEW q \in D, NEW ch \in Channels, NEW k \in Parties PROVE SocketOK(q, ch, k)'
  <2>1. SocketOK(q, ch, k)
    BY DEF StartInv
  <2>2. ~Dialled(q, ch, k)' /\ ~Accepted(q, ch, k)'
    BY <1>f DEF Dialled, Accepted, At
  <2>3. QED BY <1>a, <2>1, <2>2, SocketStays
<1>5. ASSUME timeouts = 0 PROVE UsedOK'
  BY <1>a, <1>3, <1>5, UsedKept
<1>6. ASSUME timeouts = 0 PROVE ServerOK'
  <2>1. ServerOK /\ s \in Nat /\ server.k = s /\ server.step = "send"
    BY <1>b, <1>6 DEF StartInv, Smooth, ServerOK, ServerSend
  <2>2. \A i \in Parties : (Reported(i) => Reported(i)') /\ (Told(i) => Told(i)')
    BY <1>a, <1>3, SmoothKept
  <2>3. \A i \in Parties : Reported(i)' /\ (i < s => Told(i)')
    BY <2>1, <2>2 DEF ServerOK
  <2>4. s \in Parties => Told(s)'
    <3> SUFFICES ASSUME s \in Parties PROVE Told(s)'
      OBVIOUS
    <3>1. m \in Threads /\ m = Main(s) /\ Reported(s)
      BY <1>a, <1>b, <2>1, TeamFacts DEF ServerOK
    <3>2. CASE pc[m].step = "names"
      <4>1. pc'[m] = At("listen", 0, 0)
        BY <1>e, <1>f, <3>1, <3>2
      <4>2. pc'[Main(s)].step = "listen"
        BY <3>1, <4>1 DEF At
      <4>3. QED BY <4>2 DEF Told, Main
    <3>3. CASE pc[m].step # "names"
      <4>1. Told(s)
        BY <3>1, <3>3 DEF Reported, Told
      <4>2. QED BY <2>2, <4>1
    <3>4. QED BY <3>2, <3>3
  <2>5. team.n \in Nat /\ \A i \in Parties : i \in Nat /\ i < team.n
    BY <1>a, TeamFacts
  <2>6. CASE s = team.n - 1
    <3>1. server'.step = "closed" /\ server'.k = 0
      BY <1>b, <2>6 DEF ServerSend
    <3>2. \A i \in Parties : Told(i)'
      BY <2>3, <2>4, <2>5, <2>6
    <3>3. QED BY <1>a, <3>1, <3>2 DEF ServerOK
  <2>7. CASE s # team.n - 1
    <3>1. server'.step = "send" /\ server'.k = s + 1
      BY <1>b, <2>7 DEF ServerSend
    <3>2. \A i \in Parties : i < s + 1 => Told(i)'
      BY <2>1, <2>3, <2>4, <2>5
    <3>3. QED BY <1>a, <2>1, <2>3, <3>1, <3>2 DEF ServerOK
  <2>8. QED BY <2>6, <2>7
<1>7. QED BY <1>a, <1>1, <1>3, <1>4, <1>5, <1>6, Move

\* The connection offered under an id is the one that the id is of.
LEMMA OfferedIs ==
    ASSUME StartInv, NEW p \in Threads, NEW ch \in Channels, NEW k \in Parties,
           NEW c \in Offered(p[1], IdBase(p[2], ch) + k)
    PROVE  c = <<<<k, p[2]>>, ch, p[1]>> /\ c \in Conns
<1>a. /\ team \in Teams /\ S \notin Parties /\ p[1] \in Parties /\ p[2] \in Nat
      /\ Parties \subseteq Nat /\ Channels \subseteq {0, 1}
  BY TeamFacts DEF StartInv, TypeInv
<1>1. PICK e \in clients[p[1]] : e.id = IdBase(p[2], ch) + k /\ e.c = c
  BY DEF Offered
<1>2. c \in Conns /\ c[3] = p[1] /\ e.id = Id(c)
  BY <1>a, <1>1 DEF StartInv, EntriesOK
<1>3. c[3] # S
  BY <1>a, <1>2
<1>4. c[1] \in Threads /\ c[2] \in Channels /\ c = <<c[1], c[2], c[3]>>
  <2>1. \A i \in Parties : NamesConn(i)[3] = S
    BY DEF NamesConn
  <2>2. QED BY <1>2, <1>3, <2>1, ConnParts
<1>5. PICK q \in Threads : q = c[1]
  BY <1>4
<1>6. q = <<q[1], q[2]>> /\ q[1] \in Parties /\ q[2] \in Nat
  BY <1>a, TeamFacts
<1>7. IdBase(q[2], c[2]) + q[1] = IdBase(p[2], ch) + k
  BY <1>1, <1>2, <1>3, <1>5 DEF Id
<1>8. q[2] = p[2] /\ c[2] = ch /\ q[1] = k
  BY <1>a, <1>4, <1>6, <1>7, IdsDiffer
<1>9. QED BY <1>2, <1>4, <1>5, <1>6, <1>8

\* Where a thread that waits for a lower party is.
LEMMA WaitsAt ==
    ASSUME StartInv, NEW p \in Threads, pc[p].step = "accept"
    PROVE  /\ pc[p].ch \in Channels /\ pc[p].k \in 0 .. p[1] /\ pc[p].k \in Parties
           /\ p[1] \in Parties /\ p[1] \in Nat /\ 0 .. p[1] \subseteq Parties
<1>1. CourseOK(p) /\ team \in Teams
  BY DEF StartInv, TypeInv
<1>2. pc[p].ch \in Channels /\ pc[p].k \in 0 .. p[1]
  BY <1>1 DEF CourseOK
<1>3. p[1] \in Parties /\ p[1] \in Nat /\ p[1] < team.n /\ team.n \in Nat
  BY <1>1, TeamFacts
<1>4. 0 .. p[1] \subseteq Parties
  BY <1>3 DEF Parties
<1>5. QED BY <1>2, <1>3, <1>4

\* No id is asked for twice.
LEMMA AskedOnce ==
    ASSUME StartInv, NEW p \in Threads, pc[p].step = "accept", UsedOK,
           IdBase(p[2], pc[p].ch) + pc[p].k \in used[p[1]]
    PROVE  FALSE
<1>a. PICK ch, k : ch = pc[p].ch /\ k = pc[p].k
  OBVIOUS
<1>b. /\ ch \in Channels /\ k \in Parties /\ p[1] \in Parties /\ 0 .. p[1] \subseteq Parties
  BY <1>a, WaitsAt
<1>1. PICK q \in Threads, d \in Channels, l \in 0 .. p[1] :
          /\ q[1] = p[1] /\ Accepted(q, d, l)
          /\ IdBase(p[2], ch) + k = IdBase(q[2], d) + l
  BY <1>a, <1>b DEF UsedOK
<1>2. /\ team \in Teams /\ p = <<p[1], p[2]>> /\ p[2] \in Nat /\ q = <<q[1], q[2]>> /\ q[2] \in Nat
      /\ Parties \subseteq Nat /\ Channels \subseteq {0, 1} /\ l \in Parties
  BY <1>b, TeamFacts DEF StartInv, TypeInv
<1>3. q[2] = p[2] /\ d = ch /\ l = k
  BY <1>b, <1>1, <1>2, IdsDiffer
<1>4. q = p /\ Accepted(p, ch, k)
  BY <1>1, <1>2, <1>3
<1>5. QED BY <1>a, <1>b, <1>2, <1>4 DEF Accepted

\* Waiting for a lower party gives the connection that party has made.
LEMMA GetConnectionKeeps ==
    ASSUME StartInv, NEW p \in Threads, GetConnection(p),
           ~AlreadyUsed(p[1], IdBase(p[2], pc[p].ch) + pc[p].k)
    PROVE  StartInv'
<1>a. PICK ch, k, i : ch = pc[p].ch /\ k = pc[p].k /\ i = p[1]
  OBVIOUS
<1>b. PICK id : id = IdBase(p[2], ch) + k
  OBVIOUS
<1>c. PICK next : next = IF k < i THEN At("accept", ch, k + 1) ELSE AfterAccept(p, ch)
  OBVIOUS
<1>d. /\ TypeInv /\ team \in Teams
      /\ UNCHANGED <<team, conn, sent, clients, timeouts, server>>
      /\ Threads' = Threads /\ Channels' = Channels /\ Parties' = Parties /\ Conns' = Conns
      /\ \A t, d : IdBase(t, d)' = IdBase(t, d)
      /\ pc[p].step = "accept"
  BY TeamStays DEF StartInv, GetConnection, TypeInv
<1>e. PICK c \in Offered(i, id) :
          /\ sockets' = [sockets EXCEPT ![p][ch][k] = c]
          /\ used' = [used EXCEPT ![i] = @ \cup {id}] /\ Go(p, next)
  BY <1>a, <1>b, <1>c DEF GetConnection
<1>f. /\ ch \in Channels /\ k \in 0 .. i /\ k \in Parties /\ i \in Parties /\ i \in Nat
      /\ p = <<i, p[2]>> /\ team.n \in Nat /\ Channels \subseteq {0, 1} /\ Parties \subseteq Nat
      /\ (ch + 1 \notin Channels => \A d \in Channels : d <= ch)
  <2>1. ch \in Channels /\ k \in 0 .. i /\ k \in Parties /\ i \in Parties /\ i \in Nat
    BY <1>a, <1>d, WaitsAt
  <2>2. p = <<i, p[2]>> /\ team.n \in Nat /\ Channels \subseteq {0, 1} /\ Parties \subseteq Nat
    BY <1>a, <1>d, TeamFacts
  <2>3. ch + 1 \notin Channels => \A d \in Channels : d <= ch
    BY <2>1, <2>2 DEF Channels
  <2>4. QED BY <2>1, <2>2, <2>3
<1>g. \/ k < i /\ next.step = "accept" /\ next.ch = ch /\ next.k = k + 1
      \/ k = i /\ ch + 1 \in Channels /\ next.step = "connect" /\ next.ch = ch + 1 /\ next.k = i
      \/ k = i /\ ch + 1 \notin Channels /\ next.step \in {"shake", "up"}
  BY <1>a, <1>c, <1>f DEF AfterAccept, At, Up
<1>h. next \in Places
  BY <1>a, <1>c, <1>f DEF AfterAccept, At, Up, Places, FirstPeer
<1>i. pc' \in [Threads -> Places] /\ pc'[p] = next
      /\ \A q \in Threads \ {p} : pc'[q] = pc[q]
  BY <1>d, <1>e, <1>h, GoFacts
<1>j. c = Link(p, ch, k) /\ c \in Conns
  <2>5. c = <<<<k, p[2]>>, ch, i>> /\ c \in Conns
    BY <1>a, <1>b, <1>e, <1>f, OfferedIs
  <2>6. k < i \/ k = i
    BY <1>f
  <2>7. QED BY <1>a, <1>f, <2>5, <2>6 DEF Link
<1>k. /\ sockets' \in [Threads -> [Channels -> [Parties -> Conns \cup {None}]]]
      /\ sockets'[p][ch][k] = c
      /\ \A d \in Channels, l \in Parties :
            <<d, l>> # <<ch, k>> => sockets'[p][d][l] = sockets[p][d][l]
      /\ \A q \in Threads \ {p} : sockets'[q] = sockets[q]
  BY <1>d, <1>e, <1>f, <1>j DEF TypeInv
<1>1. TypeInv'
  BY <1>d, <1>e, <1>i, <1>k DEF TypeInv, S
<1>2. Further(p)
  <2>1. CourseOK(p)'
    <3>1. team'.n = team.n /\ i < team.n
      BY <1>d, <1>f, TeamFacts
    <3>2. QED BY <1>a, <1>d, <1>f, <1>g, <1>i, <3>1 DEF CourseOK, Early
  <2>2. \A d \in Channels, l \in Nat : Accepted(p, d, l) => Accepted(p, d, l)'
    BY <1>a, <1>d, <1>f, <1>g, <1>i DEF Accepted
  <2>3. pc'[p].step \in {"accept", "connect", "shake", "up"}
    BY <1>g, <1>i
  <2>4. QED BY <1>d, <1>h, <1>i, <2>1, <2>2, <2>3 DEF Further, Early
<1>3. Moves({p})
  BY <1>d, <1>i, <1>2 DEF Moves
<1>4. ASSUME NEW d \in Channels, NEW l \in Parties PROVE SocketOK(p, d, l)'
  <2>1. SocketOK(p, d, l) /\ d \in {0, 1} /\ l \in Nat
    BY <1>f DEF StartInv
  <2>2. CASE <<d, l>> = <<ch, k>>
    BY <1>j, <1>k, <2>2 DEF SocketOK, Link
  <2>3. CASE <<d, l>> # <<ch, k>>
    <3>1. sockets'[p][d][l] = sockets[p][d][l]
      BY <1>k, <2>3
    <3>2. l <= p[1] /\ Accepted(p, d, l)' => Accepted(p, d, l)
      BY <1>a, <1>d, <1>f, <1>g, <1>i, <2>1, <2>3 DEF Accepted
    <3>3. p[1] < l /\ Dialled(p, d, l)' => Dialled(p, d, l)
      BY <1>a, <1>d, <1>f, <1>g, <1>i, <2>1 DEF Dialled
    <3>4. QED BY <2>1, <3>1, <3>2, <3>3 DEF SocketOK, Link
  <2>4. QED BY <2>2, <2>3
<1>5. ASSUME timeouts = 0 PROVE UsedOK'
  <2>1. UsedOK
    BY <1>5 DEF StartInv, Smooth
  <2>2. \A j \in Parties : \A x \in used[j] :
            \E q \in Threads, d \in Channels, l \in 0 .. j :
                q[1] = j /\ Accepted(q, d, l)' /\ x = IdBase(q[2], d) + l
    BY <1>d, <1>3, <2>1, SmoothKept
  <2>3. Accepted(p, ch, k)'
    BY <1>f, <1>g, <1>i DEF Accepted
  <2>4. ASSUME NEW j \in Parties, NEW x \in used'[j]
        PROVE  \E q \in Threads, d \in Channels, l \in 0 .. j :
                   q[1] = j /\ Accepted(q, d, l)' /\ x = IdBase(q[2], d) + l
    <3>1. x \in used[j] \/ (j = i /\ x = id)
      BY <1>d, <1>e, <2>4 DEF TypeInv
    <3>2. CASE x \in used[j]
      BY <2>2, <3>2
    <3>3. CASE j = i /\ x = id
      BY <1>a, <1>b, <1>f, <2>3, <3>3
    <3>4. QED BY <3>1, <3>2, <3>3
  <2>5. QED BY <1>d, <2>4 DEF UsedOK
<1>6. timeouts = 0 => ServerOK'
  BY <1>d, <1>3, ServerKept
<1>7. QED BY <1>d, <1>1, <1>3, <1>4, <1>5, <1>6, <1>k, Move

-----------------------------------------------------------------------------
(* Failures.                                                               *)

\* The end of a process, if it is one with a timeout before.
LEMMA DieKeeps ==
    ASSUME StartInv, NEW i \in Parties, Die(i), UNCHANGED <<team, sent, clients, used, sockets>>,
           timeouts' \in Nat, timeouts' # 0
    PROVE  StartInv'
<1>a. /\ TypeInv /\ Threads' = Threads /\ Channels' = Channels /\ Parties' = Parties
      /\ Conns' = Conns
      /\ \A j \in Parties : Main(j) \in Threads /\ Main(j)[1] = j
  BY TeamStays, TeamFacts DEF StartInv, TypeInv, Main
<1>b. /\ Failed \in Places /\ Failed.step = "failed"
      /\ pc' = [p \in Threads |-> IF p[1] = i THEN Failed ELSE pc[p]]
  BY DEF Failed, At, Places, Die
<1>c. \A q \in Threads : pc'[q] = IF q[1] = i THEN Failed ELSE pc[q]
  BY <1>b
<1>1. TypeInv'
  BY <1>a, <1>b DEF TypeInv, S
<1>2. ASSUME NEW q \in Threads PROVE CourseOK(q)'
  <2>1. CASE q[1] = i
    BY <1>b, <1>c, <2>1 DEF CourseOK, Early
  <2>2. CASE q[1] # i
    <3>1. CourseOK(q) /\ pc'[q] = pc[q]
      BY <1>c, <2>2 DEF StartInv
    <3>2. QED BY <3>1, Unmoved
  <2>3. QED BY <2>1, <2>2
<1>3. ASSUME NEW j \in Parties, pc'[Main(j)].step \in Early PROVE NotBegun(j)'
  <2>1. Main(j) \in Threads /\ Main(j)[1] = j
    BY <1>a
  <2>2. j # i
    BY <1>b, <1>c, <1>3, <2>1 DEF Early
  <2>3. pc'[Main(j)] = pc[Main(j)]
    BY <1>c, <2>1, <2>2
  <2>4. NotBegun(j)
    BY <1>3, <2>3 DEF StartInv
  <2>5. \A q \in Threads : q[1] = j => pc'[q] = pc[q]
    BY <1>c, <2>2
  <2>6. QED BY <1>a, <2>4, <2>5 DEF NotBegun
<1>4. ASSUME NEW q \in Threads, NEW ch \in Channels, NEW k \in Parties PROVE SocketOK(q, ch, k)'
  <2>1. SocketOK(q, ch, k)
    BY DEF StartInv
  <2>2. CASE q[1] = i
    <3>1. ~Dialled(q, ch, k)' /\ ~Accepted(q, ch, k)'
      BY <1>b, <1>c, <2>2 DEF Dialled, Accepted
    <3>2. QED BY <2>1, <3>1, SocketStays
  <2>3. CASE q[1] # i
    <3>1. pc'[q] = pc[q]
      BY <1>c, <2>3
    <3>2. QED BY <2>1, <3>1, Unmoved, SocketStays
  <2>4. QED BY <2>2, <2>3
<1>5. EntriesOK'
  BY EntriesKept
<1>6. ReportsOK'
  <2>1. ASSUME NEW j \in Parties, NamesConn(j) \in sent PROVE Reported(j)'
    <3>1. Reported(j)
      BY <2>1 DEF StartInv, ReportsOK
    <3>2. Main(j) \in Threads /\ Main(j)' = Main(j)
      BY <1>a DEF Main
    <3>3. pc'[Main(j)].step \in {"failed", pc[Main(j)].step}
      BY <1>b, <1>c, <3>2
    <3>4. QED BY <3>1, <3>2, <3>3 DEF Reported
  <2>2. QED BY <1>a, <2>1 DEF ReportsOK, NamesConn, Main
<1>7. Smooth'
  BY DEF Smooth
<1>8. QED BY <1>a, <1>1, <1>2, <1>3, <1>4, <1>5, <1>6, <1>7 DEF StartInv, Early, Main

\* Without a timeout all are alive, and nobody waits for a server that is closed.
LEMMA AllWell ==
    ASSUME StartInv, timeouts = 0
    PROVE  /\ \A k : Alive(k)
           /\ \A i \in Parties : server.step = "closed" =>
                  pc[Main(i)].step \notin {"dial", "hello", "names"}
           /\ \A p \in Threads : pc[p].step = "dial" => server.step # "closed"
<1>1. NoFailure /\ ServerOK /\ team \in Teams /\ \A p \in Threads : CourseOK(p)
  BY DEF StartInv, Smooth, TypeInv
<1>2. \A k : Alive(k)
  BY <1>1 DEF NoFailure, Alive
<1>3. \A i \in Parties : server.step = "closed" => Told(i)
  BY <1>1 DEF ServerOK
<1>4. \A i \in Parties : server.step = "closed" =>
          pc[Main(i)].step \notin {"dial", "hello", "names"}
  BY <1>3 DEF Told
<1>5. ASSUME NEW p \in Threads, pc[p].step = "dial" PROVE server.step # "closed"
  <2>1. p = Main(p[1]) /\ p[1] \in Parties
    BY <1>1, <1>5, TeamFacts DEF CourseOK, Early
  <2>2. QED BY <1>4, <1>5, <2>1
<1>6. QED BY <1>2, <1>4, <1>5

\* Giving up counts as a timeout, as nothing is hopeless before the first.
LEMMA GiveUpKeeps ==
    ASSUME StartInv, NEW i \in Parties, GiveUp(i)
    PROVE  StartInv'
<1>a. timeouts \in Nat /\ team.timeouts \in Nat
  BY TeamFacts DEF StartInv, TypeInv
<1>1. CASE timeouts < team.timeouts
  <2>1. timeouts' = timeouts + 1
    BY <1>1 DEF GiveUp
  <2>2. timeouts' \in Nat /\ timeouts' # 0
    BY <1>a, <2>1
  <2>3. QED BY <2>2, DieKeeps DEF GiveUp
<1>2. CASE ~(timeouts < team.timeouts)
  <2>1. timeouts' = timeouts
    BY <1>2 DEF GiveUp
  <2>2. CASE timeouts = 0
    <3>1. \/ \E p \in Threads : p[1] = i /\ Hopeless(p)
          \/ ~Alive(server.k)
      BY <1>2 DEF GiveUp
    <3>2. QED BY <2>2, <3>1, AllWell DEF Hopeless
  <2>3. CASE timeouts # 0
    BY <1>a, <2>1, <2>3, DieKeeps DEF GiveUp
  <2>4. QED BY <2>2, <2>3
<1>3. QED BY <1>1, <1>2

\* A peer is gone only after a timeout.
LEMMA PeerGoneKeeps ==
    ASSUME StartInv, NEW i \in Parties, PeerGone(i)
    PROVE  StartInv'
<1>1. CASE timeouts = 0
  BY <1>1, AllWell DEF PeerGone
<1>2. CASE timeouts # 0
  <2>1. timeouts' = timeouts /\ timeouts \in Nat
    BY DEF PeerGone, StartInv, TypeInv
  <2>2. QED BY <1>2, <2>1, DieKeeps DEF PeerGone
<1>3. QED BY <1>1, <1>2

\* A second request for an id ends the process; it takes a failure before.
LEMMA AskingKeeps ==
    ASSUME StartInv, NEW p \in Threads, GetConnection(p)
    PROVE  StartInv'
<1>1. CASE ~AlreadyUsed(p[1], IdBase(p[2], pc[p].ch) + pc[p].k)
  BY <1>1, GetConnectionKeeps
<1>2. CASE AlreadyUsed(p[1], IdBase(p[2], pc[p].ch) + pc[p].k)
  <2>1. CASE timeouts = 0
    <3>1. UsedOK
      BY <2>1 DEF StartInv, Smooth
    <3>2. QED BY <1>2, <3>1, AskedOnce DEF GetConnection, AlreadyUsed
  <2>2. CASE timeouts # 0
    <3>1. /\ Die(p[1]) /\ UNCHANGED <<team, sent, clients, used, sockets>>
          /\ timeouts' = timeouts /\ timeouts \in Nat
      BY <1>2 DEF GetConnection, StartInv, TypeInv
    <3>2. p[1] \in Parties
      BY TeamFacts DEF StartInv, TypeInv
    <3>3. QED BY <2>2, <3>1, <3>2, DieKeeps
  <2>3. QED BY <2>1, <2>2
<1>3. QED BY <1>1, <1>2

-----------------------------------------------------------------------------
(* The invariant holds.                                                    *)

\* The invariant holds at the beginning.
LEMMA InitStart == Init => StartInv
<1> SUFFICES ASSUME Init PROVE StartInv
  OBVIOUS
<1>a. team \in Teams
  BY DEF Init
<1>b. \A p \in Threads : /\ pc[p] = IF p[2] # 0 THEN At("idle", 0, 0)
                                    ELSE IF team.coordinated THEN At("dial", 0, 0)
                                    ELSE At("listen", 0, 0)
                         /\ p = <<p[1], p[2]>> /\ p[1] \in Parties /\ Main(p[1]) = <<p[1], 0>>
  BY <1>a, TeamFacts DEF Init, Main
<1>c. \A p \in Threads : pc[p].step \in {"idle", "dial", "listen"}
  BY <1>b DEF At
<1>d. \A p \in Threads : pc[p].step = "idle" <=> p[2] # 0
  BY <1>b DEF At
<1>1. TypeInv
  <2>1. /\ At("idle", 0, 0) \in Places /\ At("dial", 0, 0) \in Places
        /\ At("listen", 0, 0) \in Places
    BY DEF At, Places
  <2>2. pc \in [Threads -> Places]
    BY <2>1 DEF Init
  <2>3. sockets \in [Threads -> [Channels -> [Parties -> Conns \cup {None}]]]
    BY DEF Init
  <2>4. QED BY <2>2, <2>3 DEF Init, TypeInv
<1>2. \A p \in Threads : CourseOK(p)
  <2>1. ASSUME NEW p \in Threads PROVE p = Main(p[1]) <=> p[2] = 0
    BY <1>b DEF Main
  <2>2. QED BY <1>c, <1>d, <2>1 DEF CourseOK, Early
<1>3. \A i \in Parties : NotBegun(i)
  BY <1>c DEF NotBegun, Early
<1>4. ASSUME NEW p \in Threads, NEW ch \in Channels, NEW k \in Parties PROVE SocketOK(p, ch, k)
  <2>1. sockets[p][ch][k] = None
    BY DEF Init
  <2>2. ~Dialled(p, ch, k) /\ ~Accepted(p, ch, k)
    BY <1>c DEF Dialled, Accepted
  <2>3. QED BY <2>1, <2>2 DEF SocketOK
<1>5. EntriesOK /\ ReportsOK
  BY DEF Init, EntriesOK, ReportsOK
<1>6. Smooth
  <2>1. NoFailure
    BY <1>c DEF NoFailure, Failed, At
  <2>2. UsedOK
    BY DEF Init, UsedOK
  <2>3. ServerOK
    <3>1. server.step = "new" /\ server.k = 0
      BY DEF Init
    <3>2. \A i \in Parties : ~(i < 0)
      BY <1>a, TeamFacts
    <3>3. QED BY <3>1, <3>2 DEF ServerOK
  <2>4. QED BY <2>1, <2>2, <2>3 DEF Smooth
<1>7. QED BY <1>1, <1>2, <1>3, <1>4, <1>5, <1>6 DEF StartInv

\* The invariant is kept by every step.
LEMMA NextStart == StartInv /\ [Next]_vars => StartInv'
<1> SUFFICES ASSUME StartInv, [Next]_vars PROVE StartInv'
  OBVIOUS
<1>1. ASSUME NEW i \in Parties, PartyStep(i) PROVE StartInv'
  BY <1>1, DialServerKeeps, SendHelloKeeps, ListenKeeps, GiveUpKeeps, PeerGoneKeeps DEF PartyStep
<1>2. ASSUME NEW p \in Threads, ThreadStep(p) PROVE StartInv'
  BY <1>2, ConnectToKeeps, SendIdKeeps, AskingKeeps, HandshakeKeeps DEF ThreadStep
<1>3. ASSUME NEW i \in Parties \cup {S}, AcceptStep(i) PROVE StartInv'
  BY <1>3, AcceptKeeps DEF AcceptStep
<1>4. ASSUME UNCHANGED vars PROVE StartInv'
  BY <1>4, QuietKeeps DEF vars
<1>5. QED BY <1>1, <1>2, <1>3, <1>4, StartServerKeeps, ServerGetKeeps, ServerSendKeeps
            DEF Next, Settled

\* Players that are up have the two ends of the same connections.
LEMMA LinksMatch == StartInv => Matched
<1> SUFFICES ASSUME StartInv, NEW p \in Threads, NEW q \in Threads, pc[p] = Up, pc[q] = Up,
                    p[2] = q[2], p[1] < q[1], NEW ch \in Channels
             PROVE  /\ sockets[p][ch][q[1]] = <<p, ch, q[1]>>
                    /\ sockets[q][ch][p[1]] = <<p, ch, q[1]>>
  BY DEF Matched
<1>1. /\ p[1] \in Parties /\ q[1] \in Parties /\ p[1] \in Nat /\ q[1] \in Nat
      /\ p = <<p[1], p[2]>>
  BY TeamFacts DEF StartInv, TypeInv
<1>2. SocketOK(p, ch, q[1]) /\ SocketOK(q, ch, p[1])
  BY <1>1 DEF StartInv
<1>3. Dialled(p, ch, q[1]) /\ Accepted(q, ch, p[1])
  BY DEF Dialled, Accepted, Up, At
<1>4. sockets[p][ch][q[1]] = Link(p, ch, q[1]) /\ sockets[q][ch][p[1]] = Link(q, ch, p[1])
  BY <1>1, <1>2, <1>3 DEF SocketOK
<1>5. Link(p, ch, q[1]) = <<p, ch, q[1]>> /\ Link(q, ch, p[1]) = <<p, ch, q[1]>>
  BY <1>1 DEF Link
<1>6. QED BY <1>4, <1>5

\* The sockets of two connected threads for each other are the two ends of one
\* connection, one per channel, however many parties and threads share server
\* sockets and whoever gives up, and without a timeout nobody fails
\* (MultiPlayer::setup_sockets, ServerSocket::get_connection_socket).
THEOREM AlwaysConnected == Spec => []Connected
<1>1. Init => StartInv
  BY InitStart
<1>2. StartInv /\ [Next]_vars => StartInv'
  BY NextStart
<1>3. StartInv => Connected
  <2>1. StartInv => NoFailure
    BY DEF StartInv, Smooth, NoFailure
  <2>2. QED BY <2>1, LinksMatch DEF Connected
<1>4. QED BY <1>1, <1>2, <1>3, PTL DEF Spec

-----------------------------------------------------------------------------
(* Facts about teams' operations and their calls.                          *)

\* Going round by a proper offset.
LEMMA PeerIs ==
    ASSUME team \in Teams, NEW i \in Parties, NEW h \in 1 .. team.n - 1
    PROVE  /\ Peer(i, h) = IF i + h < team.n THEN i + h ELSE i + h - team.n
           /\ Peer(i, h) \in Parties /\ Peer(i, h) # i
<1>1. team.n \in Nat /\ team.n >= 1 /\ i \in Nat /\ i < team.n
  BY TeamFacts
<1>2. Peer(i, h) = IF i + h < team.n THEN i + h ELSE i + h - team.n
  BY <1>1 DEF Peer
<1>3. QED BY <1>1, <1>2 DEF Parties

\* Whom one goes to is who comes back by the rest of the round.
LEMMA PeerBack ==
    ASSUME team \in Teams, NEW i \in Parties, NEW k \in Parties, NEW h \in 1 .. team.n - 1
    PROVE  /\ team.n - h \in 1 .. team.n - 1
           /\ k = Peer(i, h) <=> i = Peer(k, team.n - h)
<1>1. team.n \in Nat /\ i \in Nat /\ i < team.n /\ k \in Nat /\ k < team.n
  BY TeamFacts
<1>2. team.n - h \in 1 .. team.n - 1
  BY <1>1
<1>3. Peer(i, h) = IF i + h < team.n THEN i + h ELSE i + h - team.n
  BY PeerIs
<1>4. Peer(k, team.n - h) = IF k + (team.n - h) < team.n THEN k + (team.n - h)
                            ELSE k + (team.n - h) - team.n
  BY <1>2, PeerIs
<1>5. QED BY <1>1, <1>2, <1>3, <1>4

\* Every peer is reached by exactly one offset.
LEMMA PeerOnce ==
    ASSUME team \in Teams, NEW i \in Parties
    PROVE  /\ \A h, l \in 1 .. team.n - 1 : Peer(i, h) = Peer(i, l) => h = l
           /\ \A k \in Parties : k # i => \E h \in 1 .. team.n - 1 : k = Peer(i, h)
<1>1. team.n \in Nat /\ i \in Nat /\ i < team.n
  BY TeamFacts
<1>2. ASSUME NEW h \in 1 .. team.n - 1, NEW l \in 1 .. team.n - 1, Peer(i, h) = Peer(i, l)
      PROVE  h = l
  <2>1. /\ Peer(i, h) = IF i + h < team.n THEN i + h ELSE i + h - team.n
        /\ Peer(i, l) = IF i + l < team.n THEN i + l ELSE i + l - team.n
    BY PeerIs
  <2>2. (IF i + h < team.n THEN i + h ELSE i + h - team.n)
        = (IF i + l < team.n THEN i + l ELSE i + l - team.n)
    BY <1>2, <2>1
  <2>3. QED BY <1>1, <2>2
<1>3. ASSUME NEW k \in Parties, k # i PROVE \E h \in 1 .. team.n - 1 : k = Peer(i, h)
  <2>1. k \in Nat /\ k < team.n
    BY TeamFacts
  <2> DEFINE h == IF k > i THEN k - i ELSE k - i + team.n
  <2>2. h \in 1 .. team.n - 1
    BY <1>1, <1>3, <2>1
  <2>3. Peer(i, h) = IF i + h < team.n THEN i + h ELSE i + h - team.n
    BY <2>2, PeerIs
  <2>4. k = Peer(i, h)
    BY <1>1, <1>3, <2>1, <2>3
  <2>5. QED BY <2>2, <2>4
<1>4. QED BY <1>2, <1>3

\* Numbers and their halves.
LEMMA Halves ==
    /\ \A n \in Nat : \A j \in 1 .. 2 * (n - 1) :
          /\ (j + 1) \div 2 \in 1 .. n - 1
          /\ j % 2 = 1 => j = 2 * ((j + 1) \div 2) - 1
          /\ j % 2 # 1 => j = 2 * ((j + 1) \div 2)
    /\ \A h \in Nat \ {0} : /\ (2 * h) % 2 # 1 /\ (2 * h + 1) \div 2 = h
                            /\ (2 * h - 1) % 2 = 1 /\ (2 * h - 1 + 1) \div 2 = h
<1>1. ASSUME NEW n \in Nat, NEW j \in 1 .. 2 * (n - 1)
      PROVE  /\ (j + 1) \div 2 \in 1 .. n - 1
             /\ j % 2 = 1 => j = 2 * ((j + 1) \div 2) - 1
             /\ j % 2 # 1 => j = 2 * ((j + 1) \div 2)
  OBVIOUS
<1>2. ASSUME NEW h \in Nat \ {0}
      PROVE  /\ (2 * h) % 2 # 1 /\ (2 * h + 1) \div 2 = h
             /\ (2 * h - 1) % 2 = 1 /\ (2 * h - 1 + 1) \div 2 = h
  OBVIOUS
<1>3. QED BY <1>1, <1>2

\* What an operation is.
LEMMA OperationIs ==
    ASSUME NEW n, NEW op \in Operation(n)
    PROVE  /\ op.kind \in {"all", "pass", "inPlace"}
           /\ op.kind # "all" => op.offset \in 1 .. n - 1
  BY DEF Operation

\* The streams party i has in an operation.
Wanted(i, op, s, k) ==
    /\ k \in Parties /\ k # i
    /\ IF op.kind = "all" THEN (IF s = "send" THEN <<i, k>> ELSE <<k, i>>) \in op.channels
       ELSE IF s = "send" THEN k = Peer(i, op.offset) ELSE i = Peer(k, op.offset)

\* The calls of an operation for all: every stream wanted, once.
LEMMA CallsAll ==
    ASSUME team \in Teams, NEW i \in Parties, NEW op \in Operation(team.n), op.kind = "all"
    PROVE  LET C == Calls(i, op)
           IN  /\ DOMAIN C \subseteq Nat
               /\ \A j \in DOMAIN C : \E s \in {"send", "receive"}, k \in Parties :
                      C[j] = <<s, k>> /\ Wanted(i, op, s, k)
               /\ \A j, l \in DOMAIN C : C[j] = C[l] => j = l
               /\ \A s \in {"send", "receive"}, k \in Parties : Wanted(i, op, s, k) =>
                      \E j \in DOMAIN C : C[j] = <<s, k>>
<1> DEFINE call(j) == <<IF j % 2 = 1 THEN "send" ELSE "receive", Peer(i, (j + 1) \div 2)>>
           J == {j \in 1 .. (2 * (team.n - 1)) : Wanted(i, op, call(j)[1], call(j)[2])}
           C == Calls(i, op)
<1>a. team.n \in Nat /\ team.n >= 1
  BY TeamFacts
<1>b. \A j \in 1 .. (2 * (team.n - 1)) : (j + 1) \div 2 \in 1 .. team.n - 1
  BY <1>a, Halves
<1>c. \A j \in 1 .. (2 * (team.n - 1)) : Peer(i, (j + 1) \div 2) \in Parties /\ Peer(i, (j + 1) \div 2) # i
  BY <1>b, PeerIs
<1>1. C = [j \in J |-> call(j)]
  <2>1. \A j \in 1 .. (2 * (team.n - 1)) :
            Wanted(i, op, call(j)[1], call(j)[2]) <=>
            (IF call(j)[1] = "send" THEN <<i, call(j)[2]>> ELSE <<call(j)[2], i>>) \in op.channels
    BY <1>c DEF Wanted
  <2>2. J = {j \in 1 .. (2 * (team.n - 1)) :
               (IF call(j)[1] = "send" THEN <<i, call(j)[2]>> ELSE <<call(j)[2], i>>) \in op.channels}
    BY <2>1
  <2>3. QED BY <2>2 DEF Calls
<1>2. DOMAIN C = J /\ \A j \in J : C[j] = call(j)
  BY <1>1
<1>3. J \subseteq Nat /\ J \subseteq 1 .. (2 * (team.n - 1))
  OBVIOUS
<1>4. ASSUME NEW j \in J PROVE \E s \in {"send", "receive"}, k \in Parties :
                      C[j] = <<s, k>> /\ Wanted(i, op, s, k)
  <2>1. C[j] = <<call(j)[1], call(j)[2]>>
    BY <1>2
  <2>2. call(j)[1] \in {"send", "receive"} /\ call(j)[2] \in Parties
    BY <1>c
  <2>3. Wanted(i, op, call(j)[1], call(j)[2])
    OBVIOUS
  <2> HIDE DEF call
  <2>4. QED BY <2>1, <2>2, <2>3
<1>5. ASSUME NEW j \in J, NEW l \in J, C[j] = C[l] PROVE j = l
  <2>1. call(j) = call(l)
    BY <1>2, <1>5
  <2>2. Peer(i, (j + 1) \div 2) = Peer(i, (l + 1) \div 2) /\ (j % 2 = 1 <=> l % 2 = 1)
    BY <2>1
  <2>3. (j + 1) \div 2 = (l + 1) \div 2
    BY <1>b, <2>2, PeerOnce
  <2>4. /\ j % 2 = 1 => j = 2 * ((j + 1) \div 2) - 1
        /\ j % 2 # 1 => j = 2 * ((j + 1) \div 2)
        /\ l % 2 = 1 => l = 2 * ((l + 1) \div 2) - 1
        /\ l % 2 # 1 => l = 2 * ((l + 1) \div 2)
    BY <1>a, Halves
  <2>5. QED BY <2>2, <2>3, <2>4
<1>6. ASSUME NEW s \in {"send", "receive"}, NEW k \in Parties, Wanted(i, op, s, k)
      PROVE  \E j \in DOMAIN C : C[j] = <<s, k>>
  <2>1. PICK h \in 1 .. team.n - 1 : k = Peer(i, h)
    BY <1>6, PeerOnce DEF Wanted
  <2>2. h \in Nat \ {0}
    BY <1>a
  <2>3. PICK j \in {2 * h - 1, 2 * h} : j = IF s = "send" THEN 2 * h - 1 ELSE 2 * h
    OBVIOUS
  <2>4. j \in 1 .. (2 * (team.n - 1))
    BY <1>a, <2>2
  <2>5. (j % 2 = 1 <=> s = "send") /\ (j + 1) \div 2 = h
    BY <2>2, <2>3, Halves
  <2>6. call(j) = <<s, k>>
    BY <2>1, <2>5
  <2>7. j \in J
    BY <1>6, <2>4, <2>6
  <2>8. QED BY <1>2, <2>6, <2>7
<1> HIDE DEF C, J, call
<1>7. QED BY <1>2, <1>3, <1>4, <1>5, <1>6 DEF C

\* The calls of an operation that goes round: to one neighbour, from another.
LEMMA CallsRound ==
    ASSUME team \in Teams, NEW i \in Parties, NEW op \in Operation(team.n), op.kind = "pass"
    PROVE  LET C == Calls(i, op)
           IN  /\ DOMAIN C \subseteq Nat
               /\ \A j \in DOMAIN C : \E s \in {"send", "receive"}, k \in Parties :
                      C[j] = <<s, k>> /\ Wanted(i, op, s, k)
               /\ \A j, l \in DOMAIN C : C[j] = C[l] => j = l
               /\ \A s \in {"send", "receive"}, k \in Parties : Wanted(i, op, s, k) =>
                      \E j \in DOMAIN C : C[j] = <<s, k>>
<1> DEFINE C == Calls(i, op)
           a == Peer(i, op.offset)
           b == Peer(i, team.n - op.offset)
<1>1. op.offset \in 1 .. team.n - 1 /\ team.n - op.offset \in 1 .. team.n - 1
  BY OperationIs, PeerBack
<1>2. a \in Parties /\ b \in Parties /\ a # i /\ b # i
  BY <1>1, PeerIs
<1>3. \A k \in Parties : i = Peer(k, op.offset) <=> k = b
  <2>1. ASSUME NEW k \in Parties PROVE i = Peer(k, op.offset) <=> k = b
    BY <1>1, PeerBack
  <2>2. QED BY <2>1
<1>4. \A k : /\ Wanted(i, op, "send", k) <=> k = a
             /\ Wanted(i, op, "receive", k) <=> k = b
  BY <1>2, <1>3 DEF Wanted
<1>5. C = << <<"send", a>>, <<"receive", b>> >>
  BY DEF Calls
<1>6. DOMAIN C = 1 .. 2 /\ C[1] = <<"send", a>> /\ C[2] = <<"receive", b>>
  BY <1>5
<1> HIDE DEF C, a, b
<1>7. \A j \in DOMAIN C : j = 1 \/ j = 2
  BY <1>6
<1>8. DOMAIN C \subseteq Nat /\ 1 \in DOMAIN C /\ 2 \in DOMAIN C
  BY <1>6
<1>9. \A j, l \in DOMAIN C : C[j] = C[l] => j = l
  BY <1>6, <1>7
<1>10. \A j \in DOMAIN C : \E s \in {"send", "receive"}, k \in Parties :
                      C[j] = <<s, k>> /\ Wanted(i, op, s, k)
  BY <1>2, <1>4, <1>6, <1>7
<1>11. \A s \in {"send", "receive"}, k \in Parties : Wanted(i, op, s, k) => \E j \in DOMAIN C : C[j] = <<s, k>>
  BY <1>4, <1>6, <1>8
<1>12. QED BY <1>8, <1>9, <1>10, <1>11 DEF C

-----------------------------------------------------------------------------
(* The invariant.                                                          *)

\* Party i sends to party k in operation o.
Sends(i, k, o) ==
    /\ k # i
    /\ IF script[o].kind = "all" THEN <<i, k>> \in script[o].channels
       ELSE k = Peer(i, script[o].offset)

\* A stream of party i: what it is for, and the peer.
Before(i, s, k) == IF s = "send" THEN sIn[i][k] ELSE rIn[i][k]
After(i, s, k) == IF s = "send" THEN sOut[i][k] ELSE rOut[i][k]
Awaited(i, s, k) ==
    /\ talk[i].stage = "wait"
    /\ \E j \in DOMAIN Calls(i, Op(i)) : j >= talk[i].at /\ Calls(i, Op(i))[j] = <<s, k>>
StreamOK(i, s, k) ==
    IF Awaited(i, s, k)
    THEN \/ Before(i, s, k) = <<talk[i].op>> /\ After(i, s, k) = <<>>
         \/ Before(i, s, k) = <<>> /\ After(i, s, k) = <<talk[i].op>>
    ELSE Before(i, s, k) = <<>> /\ After(i, s, k) = <<>>

\* Where a party is.
StageOK(i) ==
    /\ talk[i].op \in 1 .. Len(script) + 1
    /\ talk[i].stage = "wait" => /\ talk[i].op <= Len(script)
                                 /\ Op(i).kind # "inPlace"
                                 /\ talk[i].at \in DOMAIN Calls(i, Op(i))
    /\ talk[i].stage = "direct" => /\ talk[i].op <= Len(script)
                                   /\ Op(i).kind = "inPlace"
PartyOK(i) ==
    /\ StageOK(i)
    /\ \A k \in Parties : StreamOK(i, "send", k) /\ StreamOK(i, "receive", k)

\* Party i has sent to party k in operation o, and has received from it.
Sent(i, k, o) ==
    /\ o \in DOMAIN script /\ Sends(i, k, o)
    /\ \/ o < talk[i].op
       \/ /\ o = talk[i].op
          /\ \/ talk[i].stage = "direct"
             \/ talk[i].stage = "wait" /\ sIn[i][k] = <<>>
Received(i, k, o) ==
    /\ o \in DOMAIN script /\ Sends(k, i, o)
    /\ \/ o < talk[i].op
       \/ o = talk[i].op /\ talk[i].stage = "wait" /\ rIn[i][k] = <<>>

\* What is under way from party i to party k on a channel.
Way(i, k, ch) == <<Link(Main(i), ch, k), i>>
Channel(i, k, o) == IF script[o].kind = "inPlace" THEN 0 ELSE SendChannel(i, k)
Pending(i, k, ch, o) == Sent(i, k, o) /\ ~Received(k, i, o) /\ Channel(i, k, o) = ch
WayOK(i, k, ch) ==
    /\ wire[Way(i, k, ch)] = <<>> => \A o : ~Pending(i, k, ch, o)
    /\ wire[Way(i, k, ch)] # <<>> =>
           \E o : /\ wire[Way(i, k, ch)] = << <<i, o>> >>
                  /\ Pending(i, k, ch, o)
                  /\ \A q : Pending(i, k, ch, q) => q = o

Fixed ==
    /\ StartInv /\ script \in Seq(Operation(team.n))
    /\ script # <<>> => team.encrypted
    /\ talk \in [Parties -> [op : Nat, stage : {"request", "wait", "direct"}, at : Nat]]
    /\ sIn \in [Parties -> [Parties -> Seq(Nat)]] /\ sOut \in [Parties -> [Parties -> Seq(Nat)]]
    /\ rIn \in [Parties -> [Parties -> Seq(Nat)]] /\ rOut \in [Parties -> [Parties -> Seq(Nat)]]
    /\ wire \in [Conns \X Parties -> Seq(Parties \X Nat)]
    /\ DOMAIN got = Parties
Served == \A i, k \in Parties : \A o : Received(k, i, o) => Sent(i, k, o)
Ways == \A i, k \in Parties, ch \in {0, 1} : (k # i /\ team.encrypted) => WayOK(i, k, ch)
TalkInv ==
    /\ Fixed
    /\ \A i \in Parties : PartyOK(i)
    /\ Served /\ Ways /\ InStep

-----------------------------------------------------------------------------
(* Facts about a party at work.                                            *)

\* The first of some numbers.
LEMMA FirstIs ==
    ASSUME NEW J \in SUBSET Nat, J # {}
    PROVE  First(J) \in J /\ \A l \in J : First(J) <= l
<1>1. PICK x \in J : \A l \in J : x <= l
  BY LeastNumber
<1>2. QED BY <1>1 DEF First

\* Types of what a party has.
LEMMA PartyTypes ==
    ASSUME Fixed, NEW i \in Parties
    PROVE  /\ talk[i] \in [op : Nat, stage : {"request", "wait", "direct"}, at : Nat]
           /\ talk[i].op \in Nat /\ talk[i].stage \in {"request", "wait", "direct"} /\ talk[i].at \in Nat
           /\ Len(script) \in Nat /\ DOMAIN script = 1 .. Len(script) /\ DOMAIN script \subseteq Nat
           /\ \A k \in Parties : /\ sIn[i][k] \in Seq(Nat) /\ sOut[i][k] \in Seq(Nat)
                                 /\ rIn[i][k] \in Seq(Nat) /\ rOut[i][k] \in Seq(Nat)
<1>1. /\ talk[i] \in [op : Nat, stage : {"request", "wait", "direct"}, at : Nat]
      /\ Len(script) \in Nat /\ DOMAIN script = 1 .. Len(script)
  BY DEF Fixed
<1>2. \A k \in Parties : /\ sIn[i][k] \in Seq(Nat) /\ sOut[i][k] \in Seq(Nat)
                         /\ rIn[i][k] \in Seq(Nat) /\ rOut[i][k] \in Seq(Nat)
  BY DEF Fixed
<1>3. QED BY <1>1, <1>2

\* The operation of a party at work.
LEMMA OpIs ==
    ASSUME Fixed, NEW o \in DOMAIN script
    PROVE  /\ script[o] \in Operation(team.n) /\ team.encrypted /\ team \in Teams
           /\ Channels = {0, 1}
<1>1. /\ script \in Seq(Operation(team.n)) /\ team \in Teams
      /\ script # <<>> => team.encrypted
  BY DEF Fixed, StartInv, TypeInv
<1>2. script # <<>>
  OBVIOUS
<1>3. script[o] \in Operation(team.n)
  <2> DEFINE O == Operation(team.n)
  <2>1. script \in Seq(O)
    BY <1>1
  <2> HIDE DEF O
  <2>2. script[o] \in O
    BY <2>1
  <2>3. QED BY <2>2 DEF O
<1>4. team.encrypted
  BY <1>1, <1>2
<1>5. Channels = {0, 1}
  BY <1>4, Zenon DEF Channels
<1>6. QED BY <1>1, <1>3, <1>4, <1>5

LEMMA WorkingIs ==
    ASSUME Fixed, NEW i \in Parties, StageOK(i), Working(i)
    PROVE  /\ talk[i].op \in DOMAIN script /\ talk[i].op \in 1 .. Len(script) + 1
           /\ talk[i].op + 1 \in 1 .. Len(script) + 1
           /\ Op(i) = script[talk[i].op]
<1>1. script \in Seq(Operation(team.n)) /\ Len(script) \in Nat
  BY DEF Fixed
<1>2. talk[i].op \in 1 .. Len(script) + 1 /\ talk[i].op <= Len(script)
  BY DEF StageOK, Working
<1>3. DOMAIN script = 1 .. Len(script)
  BY <1>1
<1>4. QED BY <1>1, <1>2, <1>3 DEF Op

\* The calls of a party for an operation are its sends and receptions, each once.
LEMMA CallsAre ==
    ASSUME Fixed, NEW i \in Parties, NEW o \in DOMAIN script, script[o].kind # "inPlace"
    PROVE  LET C == Calls(i, script[o])
           IN  /\ DOMAIN C \subseteq Nat
               /\ \A j \in DOMAIN C : \E k \in Parties :
                      \/ C[j] = <<"send", k>> /\ Sends(i, k, o)
                      \/ C[j] = <<"receive", k>> /\ Sends(k, i, o)
               /\ \A j, l \in DOMAIN C : C[j] = C[l] => j = l
               /\ \A k \in Parties :
                      /\ Sends(i, k, o) => \E j \in DOMAIN C : C[j] = <<"send", k>>
                      /\ Sends(k, i, o) => \E j \in DOMAIN C : C[j] = <<"receive", k>>
<1> DEFINE op == script[o]
           C == Calls(i, op)
<1>1. op \in Operation(team.n) /\ team \in Teams
  BY OpIs
<1>2. op.kind = "all" \/ op.kind = "pass"
  BY <1>1, OperationIs
<1>3. /\ DOMAIN C \subseteq Nat
      /\ \A j \in DOMAIN C : \E s \in {"send", "receive"}, k \in Parties :
             C[j] = <<s, k>> /\ Wanted(i, op, s, k)
      /\ \A j, l \in DOMAIN C : C[j] = C[l] => j = l
      /\ \A s \in {"send", "receive"}, k \in Parties : Wanted(i, op, s, k) =>
             \E j \in DOMAIN C : C[j] = <<s, k>>
  BY <1>1, <1>2, CallsAll, CallsRound
<1>4. \A k \in Parties : /\ Wanted(i, op, "send", k) <=> Sends(i, k, o)
                         /\ Wanted(i, op, "receive", k) <=> Sends(k, i, o)
  BY DEF Wanted, Sends
<1> HIDE DEF C, op
<1>5. QED BY <1>3, <1>4 DEF C, op

\* What is known when a party is at work.
LEMMA SocketIs ==
    ASSUME Fixed, team.encrypted, NEW i \in Parties, NEW k \in Parties, k # i, NEW ch \in {0, 1},
           pc[Main(i)] = Up
    PROVE  /\ Direction(i, ch, k) = Way(i, k, ch)
           /\ From(i, ch, k) = Way(k, i, ch)
           /\ Way(i, k, ch) \in Conns \X Parties /\ Way(k, i, ch) \in Conns \X Parties
<1>1. /\ team \in Teams /\ Channels = {0, 1} /\ Main(i) \in Threads /\ Main(k) \in Threads
      /\ Main(i)[1] = i /\ Main(i)[2] = 0 /\ Main(k)[1] = k /\ Main(k)[2] = 0
      /\ i \in Nat /\ k \in Nat
  BY TeamFacts DEF Fixed, StartInv, TypeInv, Channels, Main
<1>2. SocketOK(Main(i), ch, k)
  BY <1>1 DEF Fixed, StartInv
<1>3. Dialled(Main(i), ch, k) /\ Accepted(Main(i), ch, k)
  BY DEF Dialled, Accepted, Up, At
<1>4. Socket(i, ch, k) = Link(Main(i), ch, k)
  BY <1>1, <1>2, <1>3 DEF SocketOK, Socket
<1>5. Link(Main(i), ch, k) = Link(Main(k), ch, i)
  BY <1>1 DEF Link, Main
<1>6. Link(Main(i), ch, k) \in Conns
  BY <1>1 DEF Link, Conns, Main
<1>7. QED BY <1>4, <1>5, <1>6 DEF Direction, From, Way

\* A way is a direction of a connection.
LEMMA WayIs ==
    ASSUME Fixed, team.encrypted, NEW i \in Parties, NEW k \in Parties, k # i, NEW ch \in {0, 1}
    PROVE  Way(i, k, ch) \in DOMAIN wire
<1>1. /\ team \in Teams /\ Channels = {0, 1} /\ Main(i) \in Threads /\ Main(k) \in Threads
      /\ DOMAIN wire = Conns \X Parties
  BY TeamFacts DEF Fixed, StartInv, TypeInv, Channels
<1>2. Link(Main(i), ch, k) \in Conns
  BY <1>1 DEF Link, Conns, Main
<1>3. QED BY <1>1, <1>2 DEF Way

\* Two ways are different connections or different directions.
LEMMA WaysDiffer ==
    ASSUME team \in Teams, NEW i \in Parties, NEW k \in Parties, NEW ch \in {0, 1}, k # i,
           NEW j \in Parties, NEW l \in Parties, NEW d \in {0, 1}, l # j,
           Way(i, k, ch) = Way(j, l, d)
    PROVE  i = j /\ k = l /\ ch = d
<1>1. i = j /\ Link(Main(i), ch, k) = Link(Main(i), d, l)
  BY DEF Way
<1>2. Main(i)[1] = i /\ Main(i)[2] = 0 /\ Main(i) = <<i, 0>>
  BY DEF Main
<1>3. i \in Nat /\ k \in Nat /\ l \in Nat
  BY TeamFacts
<1>4. (IF k < i THEN <<<<k, 0>>, ch, i>> ELSE <<<<i, 0>>, ch, k>>)
      = (IF l < i THEN <<<<l, 0>>, d, i>> ELSE <<<<i, 0>>, d, l>>)
  BY <1>1, <1>2 DEF Link
<1>5. ch = d
  BY <1>4
<1>6. k = l
  BY <1>1, <1>3, <1>4
<1>7. QED BY <1>1, <1>5, <1>6

-----------------------------------------------------------------------------
(* A step of one party.                                                    *)

\* Nothing of another party changes, and all in all.
Apart(i) ==
    /\ UNCHANGED <<team, script>>
    /\ \A j \in Parties : j # i =>
           /\ talk'[j] = talk[j]
           /\ sIn'[j] = sIn[j] /\ sOut'[j] = sOut[j] /\ rIn'[j] = rIn[j] /\ rOut'[j] = rOut[j]
SameSent(i) == \A k \in Parties : \A o : Sent(i, k, o)' <=> Sent(i, k, o)
SameReceived(i) == \A k \in Parties : \A o : Received(i, k, o)' <=> Received(i, k, o)

\* What the operations are stays.
LEMMA OperationsStay ==
    ASSUME UNCHANGED <<team, script>>
    PROVE  /\ Parties' = Parties /\ Conns' = Conns
           /\ \A i, k, o : (Sends(i, k, o)' <=> Sends(i, k, o)) /\ Channel(i, k, o)' = Channel(i, k, o)
           /\ \A i, op : Calls(i, op)' = Calls(i, op)
           /\ \A i, k, ch : Way(i, k, ch)' = Way(i, k, ch)
  BY TeamStays DEF Sends, Channel, SendChannel, Calls, Peer, Way, Link, Main

\* The other parties stay where they are.
LEMMA OthersKeep ==
    ASSUME NEW i \in Parties, NEW j \in Parties, j # i, Apart(i), PartyOK(j)
    PROVE  PartyOK(j)' /\ SameSent(j) /\ SameReceived(j)
<1>1. /\ talk'[j] = talk[j] /\ script' = script /\ Parties' = Parties
      /\ sIn'[j] = sIn[j] /\ sOut'[j] = sOut[j] /\ rIn'[j] = rIn[j] /\ rOut'[j] = rOut[j]
      /\ \A l, k, o : Sends(l, k, o)' <=> Sends(l, k, o)
      /\ \A l, op : Calls(l, op)' = Calls(l, op)
  BY OperationsStay DEF Apart
<1>2. SameSent(j) /\ SameReceived(j)
  BY <1>1 DEF SameSent, SameReceived, Sent, Received
<1>3. Op(j)' = Op(j) /\ Calls(j, Op(j))' = Calls(j, Op(j))
  <2>1. Op(j)' = Op(j)
    BY <1>1 DEF Op
  <2>2. PICK op : op = Op(j) /\ op = Op(j)'
    BY <2>1
  <2>3. Calls(j, op)' = Calls(j, op)
    BY <1>1
  <2>4. QED BY <2>1, <2>2, <2>3 DEF Calls
<1>4. StageOK(j)'
  BY <1>1, <1>3 DEF StageOK, PartyOK
<1>5. ASSUME NEW k \in Parties, NEW s \in {"send", "receive"} PROVE StreamOK(j, s, k)' <=> StreamOK(j, s, k)
  <2>1. Awaited(j, s, k)' <=> Awaited(j, s, k)
    BY <1>1, <1>3 DEF Awaited
  <2>2. Before(j, s, k)' = Before(j, s, k) /\ After(j, s, k)' = After(j, s, k)
    BY <1>1 DEF Before, After
  <2>3. QED BY <1>1, <2>1, <2>2 DEF StreamOK
<1>6. PartyOK(j)'
  BY <1>1, <1>4, <1>5 DEF PartyOK
<1>7. QED BY <1>2, <1>6

\* A party that sends and receives nothing.
LEMMA Stays ==
    ASSUME NEW i \in Parties, Apart(i), \A j \in Parties : PartyOK(j), PartyOK(i)',
           SameSent(i), SameReceived(i), UNCHANGED wire, Served, Ways
    PROVE  (\A j \in Parties : PartyOK(j))' /\ Served' /\ Ways'
<1>1. /\ Parties' = Parties /\ UNCHANGED team
      /\ \A j, k, o : Channel(j, k, o)' = Channel(j, k, o)
      /\ \A j, k, ch : Way(j, k, ch)' = Way(j, k, ch)
  BY OperationsStay DEF Apart
<1>2. \A j \in Parties : PartyOK(j)' /\ SameSent(j) /\ SameReceived(j)
  BY OthersKeep
<1>3. \A j, k \in Parties : \A o : /\ Sent(j, k, o)' <=> Sent(j, k, o)
                                   /\ Received(j, k, o)' <=> Received(j, k, o)
  BY <1>2 DEF SameSent, SameReceived
<1>4. Served'
  BY <1>1, <1>3 DEF Served
<1>5. \A j, k \in Parties : \A ch, o : Pending(j, k, ch, o)' <=> Pending(j, k, ch, o)
  BY <1>1, <1>3 DEF Pending
<1>6. \A j, k \in Parties, ch \in {0, 1} : WayOK(j, k, ch)' <=> WayOK(j, k, ch)
  BY <1>1, <1>5 DEF WayOK
<1>7. Ways'
  BY <1>1, <1>6 DEF Ways
<1>8. QED BY <1>1, <1>2, <1>4, <1>7

\* A party that sends: the way was free, and now holds its message.
LEMMA Puts ==
    ASSUME Fixed, NEW i \in Parties, NEW k \in Parties, k # i, NEW a \in DOMAIN script,
           NEW c \in {0, 1}, c = Channel(i, k, a), team.encrypted,
           Apart(i), \A j \in Parties : PartyOK(j), PartyOK(i)', Served, Ways,
           ~ Sent(i, k, a), Sent(i, k, a)', SameReceived(i),
           \A l \in Parties : \A o : (l # k \/ o # a) => (Sent(i, l, o)' <=> Sent(i, l, o)),
           wire[Way(i, k, c)] = <<>>, wire'[Way(i, k, c)] = << <<i, a>> >>,
           \A e \in DOMAIN wire : e # Way(i, k, c) => wire'[e] = wire[e]
    PROVE  (\A j \in Parties : PartyOK(j))' /\ Served' /\ Ways'
<1>1. /\ Parties' = Parties /\ UNCHANGED team /\ team \in Teams
      /\ \A j, l, o : Channel(j, l, o)' = Channel(j, l, o)
      /\ \A j, l, ch : Way(j, l, ch)' = Way(j, l, ch)
  BY OperationsStay DEF Apart, Fixed, StartInv, TypeInv
<1>2. /\ \A j \in Parties : j # i => PartyOK(j)' /\ SameSent(j)
      /\ \A j \in Parties : PartyOK(j)' /\ SameReceived(j)
  BY OthersKeep
<1>3. /\ \A j, l \in Parties : \A o :
             (j # i \/ l # k \/ o # a) => (Sent(j, l, o)' <=> Sent(j, l, o))
      /\ \A j, l \in Parties : \A o : Received(j, l, o)' <=> Received(j, l, o)
  BY <1>2 DEF SameSent, SameReceived
<1>4. Served'
  BY <1>1, <1>3 DEF Served
<1>5. ASSUME NEW j \in Parties, NEW l \in Parties, NEW ch \in {0, 1}, l # j PROVE WayOK(j, l, ch)'
  <2>1. WayOK(j, l, ch)
    BY <1>5 DEF Ways
  <2>2. CASE j = i /\ l = k /\ ch = c
    <3>1. \A o : ~Pending(i, k, c, o)
      BY <2>1, <2>2 DEF WayOK
    <3>2. wire'[Way(i, k, c)] = << <<i, a>> >>
      OBVIOUS
    <3>3. ~Received(k, i, a)
      BY DEF Served
    <3>4. Pending(i, k, c, a)'
      BY <1>1, <1>3, <3>3 DEF Pending
    <3>5. \A o : Pending(i, k, c, o)' => o = a
      BY <1>1, <1>3, <3>1 DEF Pending
    <3>6. wire'[Way(i, k, c)'] # <<>>
      BY <1>1, <3>2
    <3>7. QED BY <1>1, <2>2, <3>2, <3>4, <3>5, <3>6 DEF WayOK
  <2>3. CASE j = i /\ l = k /\ ch # c
    <3>1. Way(i, k, ch) # Way(i, k, c)
      BY <1>1, <2>3, WaysDiffer
    <3>2. wire'[Way(i, k, ch)'] = wire[Way(i, k, ch)]
      BY <1>1, <3>1, WayIs
    <3>3. \A o : Pending(i, k, ch, o)' <=> Pending(i, k, ch, o)
      BY <1>1, <1>3, <2>3 DEF Pending
    <3>4. QED BY <2>1, <2>3, <1>1, <3>2, <3>3 DEF WayOK
  <2>4. CASE j # i \/ l # k
    <3>1. Way(j, l, ch) # Way(i, k, c)
      BY <1>1, <1>5, <2>4, WaysDiffer
    <3>2. wire'[Way(j, l, ch)'] = wire[Way(j, l, ch)]
      BY <1>1, <1>5, <3>1, WayIs
    <3>3. \A o : Pending(j, l, ch, o)' <=> Pending(j, l, ch, o)
      BY <1>1, <1>3, <2>4 DEF Pending
    <3>4. QED BY <2>1, <1>1, <3>2, <3>3 DEF WayOK
  <2>5. QED BY <2>2, <2>3, <2>4
<1>6. Ways'
  BY <1>1, <1>5 DEF Ways
<1>7. QED BY <1>1, <1>2, <1>4, <1>6

\* A party that receives what is under way: it is the message of its own operation.
LEMMA Takes ==
    ASSUME Fixed, NEW i \in Parties, NEW k \in Parties, k # i, NEW a \in DOMAIN script,
           NEW c \in {0, 1}, c = Channel(k, i, a), team.encrypted,
           Apart(i), \A j \in Parties : PartyOK(j), PartyOK(i)', Served, Ways,
           a = talk[i].op, Sends(k, i, a), ~ Received(i, k, a), Received(i, k, a)', SameSent(i),
           \A l \in Parties : \A o : (l # k \/ o # a) => (Received(i, l, o)' <=> Received(i, l, o)),
           wire[Way(k, i, c)] # <<>>, wire'[Way(k, i, c)] = Tail(wire[Way(k, i, c)]),
           \A e \in DOMAIN wire : e # Way(k, i, c) => wire'[e] = wire[e]
    PROVE  /\ (\A j \in Parties : PartyOK(j))' /\ Served' /\ Ways'
           /\ Head(wire[Way(k, i, c)]) = <<k, a>>
<1>1. /\ Parties' = Parties /\ UNCHANGED team /\ team \in Teams
      /\ \A j, l, o : Channel(j, l, o)' = Channel(j, l, o)
      /\ \A j, l, ch : Way(j, l, ch)' = Way(j, l, ch)
  BY OperationsStay DEF Apart, Fixed, StartInv, TypeInv
<1>2. /\ \A j \in Parties : j # i => PartyOK(j)' /\ SameReceived(j)
      /\ \A j \in Parties : PartyOK(j)' /\ SameSent(j)
  BY OthersKeep
<1>3. /\ \A j, l \in Parties : \A o :
             (j # i \/ l # k \/ o # a) => (Received(j, l, o)' <=> Received(j, l, o))
      /\ \A j, l \in Parties : \A o : Sent(j, l, o)' <=> Sent(j, l, o)
  BY <1>2 DEF SameSent, SameReceived
<1>4. WayOK(k, i, c)
  BY DEF Ways
<1>5. PICK b : /\ wire[Way(k, i, c)] = << <<k, b>> >>
               /\ Pending(k, i, c, b)
               /\ \A q : Pending(k, i, c, q) => q = b
  BY <1>4 DEF WayOK
<1>6. b = a
  <2>1. /\ b \in DOMAIN script /\ Sends(k, i, b) /\ ~Received(i, k, b) /\ b <= talk[k].op
        /\ talk[i].op \in Nat /\ talk[k].op \in Nat /\ DOMAIN script \subseteq Nat
    <3>1. talk[i].op \in Nat /\ talk[k].op \in Nat /\ DOMAIN script \subseteq Nat
      BY PartyTypes
    <3>2. Sent(k, i, b) /\ ~Received(i, k, b)
      BY <1>5 DEF Pending
    <3>3. QED BY <3>1, <3>2 DEF Sent
  <2>2. a <= b
    BY <2>1 DEF Received
  <2>3. CASE a < b
    <3>1. Sent(k, i, a)
      BY <2>1, <2>3 DEF Sent
    <3>2. Pending(k, i, c, a)
      BY <3>1 DEF Pending
    <3>3. QED BY <1>5, <3>2
  <2>4. QED BY <2>1, <2>2, <2>3
<1>7. Sent(k, i, a)
  BY <1>5, <1>6 DEF Pending
<1>8. Served'
  BY <1>1, <1>3, <1>7 DEF Served
<1>9. ASSUME NEW j \in Parties, NEW l \in Parties, NEW ch \in {0, 1}, l # j PROVE WayOK(j, l, ch)'
  <2>1. WayOK(j, l, ch)
    BY <1>9 DEF Ways
  <2>2. CASE j = k /\ l = i /\ ch = c
    <3>1. wire'[Way(k, i, c)] = <<>>
      <4>1. Tail(<< <<k, b>> >>) = <<>>
        OBVIOUS
      <4>2. QED BY <1>5, <4>1
    <3>2. \A o : ~Pending(k, i, c, o)'
      BY <1>1, <1>3, <1>5, <1>6 DEF Pending
    <3>3. wire'[Way(k, i, c)'] = <<>>
      BY <1>1, <3>1
    <3>4. QED BY <1>1, <2>2, <3>2, <3>3 DEF WayOK
  <2>3. CASE j = k /\ l = i /\ ch # c
    <3>1. Way(k, i, ch) # Way(k, i, c)
      BY <1>1, <2>3, WaysDiffer
    <3>2. wire'[Way(k, i, ch)'] = wire[Way(k, i, ch)]
      BY <1>1, <3>1, WayIs
    <3>3. \A o : Pending(k, i, ch, o)' <=> Pending(k, i, ch, o)
      BY <1>1, <1>3, <2>3 DEF Pending
    <3>4. QED BY <2>1, <2>3, <1>1, <3>2, <3>3 DEF WayOK
  <2>4. CASE j # k \/ l # i
    <3>1. Way(j, l, ch) # Way(k, i, c)
      BY <1>1, <1>9, <2>4, WaysDiffer
    <3>2. wire'[Way(j, l, ch)'] = wire[Way(j, l, ch)]
      BY <1>1, <1>9, <3>1, WayIs
    <3>3. \A o : Pending(j, l, ch, o)' <=> Pending(j, l, ch, o)
      BY <1>1, <1>3, <2>4 DEF Pending
    <3>4. QED BY <2>1, <1>1, <3>2, <3>3 DEF WayOK
  <2>5. QED BY <2>2, <2>3, <2>4
<1>10. Ways'
  BY <1>1, <1>9 DEF Ways
<1>11. Head(wire[Way(k, i, c)]) = <<k, a>>
  BY <1>5, <1>6
<1>12. QED BY <1>1, <1>2, <1>8, <1>10, <1>11

-----------------------------------------------------------------------------
(* The steps.                                                              *)

\* The invariant, once the parts that a step disturbs are known to hold.
LEMMA AllKept ==
    ASSUME Fixed, UNCHANGED <<vars, script>>,
           talk' \in [Parties -> [op : Nat, stage : {"request", "wait", "direct"}, at : Nat]],
           sIn' \in [Parties -> [Parties -> Seq(Nat)]], sOut' \in [Parties -> [Parties -> Seq(Nat)]],
           rIn' \in [Parties -> [Parties -> Seq(Nat)]], rOut' \in [Parties -> [Parties -> Seq(Nat)]],
           wire' \in [Conns \X Parties -> Seq(Parties \X Nat)], DOMAIN got' = Parties,
           (\A j \in Parties : PartyOK(j))' /\ Served' /\ Ways', InStep'
    PROVE  TalkInv'
<1>1. Parties' = Parties /\ Conns' = Conns
  BY TeamStays DEF vars
<1>2. StartInv'
  BY QuietKeeps DEF Fixed, vars
<1>3. script' \in Seq(Operation(team'.n))
  BY DEF Fixed, vars
<1>4. script' # <<>> => team'.encrypted
  BY DEF Fixed, vars
<1>5. Fixed'
  BY <1>1, <1>2, <1>3, <1>4 DEF Fixed
<1>6. QED BY <1>5 DEF TalkInv

\* A party at rest has empty queues.
LEMMA AtRest ==
    ASSUME NEW i \in Parties, PartyOK(i), talk[i].stage # "wait"
    PROVE  \A k \in Parties : /\ sIn[i][k] = <<>> /\ sOut[i][k] = <<>>
                              /\ rIn[i][k] = <<>> /\ rOut[i][k] = <<>>
  BY DEF PartyOK, StreamOK, Awaited, Before, After

\* A party that goes on to the next operation.
LEMMA Advances ==
    ASSUME Fixed, NEW i \in Parties, StageOK(i), Working(i), UNCHANGED <<team, script>>,
           talk'[i] = [op |-> talk[i].op + 1, stage |-> "request", at |-> 1],
           \A k \in Parties : /\ sIn'[i][k] = <<>> /\ sOut'[i][k] = <<>>
                              /\ rIn'[i][k] = <<>> /\ rOut'[i][k] = <<>>
    PROVE  /\ PartyOK(i)'
           /\ \A k \in Parties : \A q :
                /\ Sent(i, k, q)' <=> q \in DOMAIN script /\ Sends(i, k, q) /\ q <= talk[i].op
                /\ Received(i, k, q)' <=> q \in DOMAIN script /\ Sends(k, i, q) /\ q <= talk[i].op
<1> DEFINE o == talk[i].op
<1>1. /\ Parties' = Parties /\ script' = script
      /\ \A l, k, q : Sends(l, k, q)' <=> Sends(l, k, q)
  BY OperationsStay
<1>2. /\ o \in Nat /\ DOMAIN script \subseteq Nat /\ o + 1 \in 1 .. Len(script) + 1
      /\ talk'[i].op = o + 1 /\ talk'[i].stage = "request"
  BY PartyTypes, WorkingIs
<1>3. StageOK(i)'
  BY <1>1, <1>2 DEF StageOK
<1>4. ASSUME NEW k \in Parties PROVE StreamOK(i, "send", k)' /\ StreamOK(i, "receive", k)'
  BY <1>1, <1>2 DEF StreamOK, Awaited, Before, After
<1>5. PartyOK(i)'
  BY <1>1, <1>3, <1>4 DEF PartyOK
<1>6. ASSUME NEW k \in Parties, NEW q
      PROVE  /\ Sent(i, k, q)' <=> q \in DOMAIN script /\ Sends(i, k, q) /\ q <= o
             /\ Received(i, k, q)' <=> q \in DOMAIN script /\ Sends(k, i, q) /\ q <= o
  <2>1. q \in DOMAIN script => (q <= o <=> q < o + 1)
    BY <1>2
  <2>2. Sent(i, k, q)' <=> q \in DOMAIN script /\ Sends(i, k, q) /\ q < o + 1
    BY <1>1, <1>2 DEF Sent
  <2>3. Received(i, k, q)' <=> q \in DOMAIN script /\ Sends(k, i, q) /\ q < o + 1
    BY <1>1, <1>2 DEF Received
  <2>4. QED BY <2>1, <2>2, <2>3
<1>7. QED BY <1>5, <1>6

\* An operation with nothing to do for the party.
LEMMA RequestNothing ==
    ASSUME TalkInv, NEW i \in Parties, Request(i), DOMAIN Calls(i, Op(i)) = {}
    PROVE  TalkInv'
<1> DEFINE o == talk[i].op
<1>a. /\ Fixed /\ PartyOK(i) /\ StageOK(i) /\ Working(i) /\ talk[i].stage = "request"
      /\ Op(i).kind # "inPlace"
  BY DEF TalkInv, PartyOK, Request
<1>b. /\ o \in DOMAIN script /\ Op(i) = script[o] /\ o \in Nat /\ DOMAIN script \subseteq Nat
  BY <1>a, WorkingIs, PartyTypes
<1>c. /\ UNCHANGED <<vars, team, script, sOut, rOut, wire, got>>
      /\ talk' = [talk EXCEPT ![i] = [op |-> o + 1, stage |-> "request", at |-> 1]]
  BY DEF Request, Advance, vars
<1>d. /\ sIn' = [sIn EXCEPT ![i] = [k \in Parties |-> sIn[i][k]]]
      /\ rIn' = [rIn EXCEPT ![i] = [k \in Parties |-> rIn[i][k]]]
  BY DEF Request
<1>e. \A k \in Parties : ~ Sends(i, k, o) /\ ~ Sends(k, i, o)
  BY <1>a, <1>b, CallsAre
<1>f. /\ talk' \in [Parties -> [op : Nat, stage : {"request", "wait", "direct"}, at : Nat]]
      /\ talk'[i] = [op |-> o + 1, stage |-> "request", at |-> 1]
      /\ \A j \in Parties : j # i => talk'[j] = talk[j]
  BY <1>a, <1>b, <1>c DEF Fixed
<1>g. /\ sIn' = sIn /\ rIn' = rIn
  BY <1>a, <1>d DEF Fixed
<1>1. Apart(i)
  BY <1>c, <1>f, <1>g DEF Apart
<1>2. \A k \in Parties : /\ sIn'[i][k] = <<>> /\ sOut'[i][k] = <<>>
                         /\ rIn'[i][k] = <<>> /\ rOut'[i][k] = <<>>
  BY <1>a, <1>c, <1>g, AtRest
<1>3. /\ PartyOK(i)'
      /\ \A k \in Parties : \A q :
                /\ Sent(i, k, q)' <=> q \in DOMAIN script /\ Sends(i, k, q) /\ q <= talk[i].op
                /\ Received(i, k, q)' <=> q \in DOMAIN script /\ Sends(k, i, q) /\ q <= talk[i].op
  BY <1>a, <1>c, <1>f, <1>2, Advances
<1>4. SameSent(i) /\ SameReceived(i)
  BY <1>b, <1>e, <1>3 DEF SameSent, SameReceived, Sent, Received
<1>5. (\A j \in Parties : PartyOK(j))' /\ Served' /\ Ways'
  BY <1>c, <1>1, <1>3, <1>4, Stays DEF TalkInv
<1>6. InStep' /\ DOMAIN got' = Parties
  BY <1>a, <1>1, <1>c, TeamStays DEF TalkInv, InStep, Fixed, Apart
<1>7. QED BY <1>a, <1>c, <1>f, <1>g, <1>5, <1>6, AllKept DEF Fixed

\* The streams of an operation are put into the queues.
LEMMA RequestStreams ==
    ASSUME TalkInv, NEW i \in Parties, Request(i), DOMAIN Calls(i, Op(i)) # {}
    PROVE  TalkInv'
<1> DEFINE o == talk[i].op
           C == Calls(i, Op(i))
           calls == {C[j] : j \in DOMAIN C}
<1>a. /\ Fixed /\ PartyOK(i) /\ StageOK(i) /\ Working(i) /\ talk[i].stage = "request"
      /\ Op(i).kind # "inPlace"
  BY DEF TalkInv, PartyOK, Request
<1>b. /\ o \in DOMAIN script /\ Op(i) = script[o] /\ o \in Nat /\ o \in 1 .. Len(script) + 1
      /\ o <= Len(script)
  BY <1>a, WorkingIs, PartyTypes DEF Working
<1>c. /\ UNCHANGED <<vars, team, script, sOut, rOut, wire, got>>
      /\ talk' = [talk EXCEPT ![i] = [op |-> o, stage |-> "wait", at |-> First(DOMAIN C)]]
  BY DEF Request, vars
<1>d. /\ sIn' = [sIn EXCEPT ![i] = [k \in Parties |->
                    IF <<"send", k>> \in calls THEN Append(sIn[i][k], o) ELSE sIn[i][k]]]
      /\ rIn' = [rIn EXCEPT ![i] = [k \in Parties |->
                    IF <<"receive", k>> \in calls THEN Append(rIn[i][k], o) ELSE rIn[i][k]]]
  BY DEF Request
<1>e. /\ DOMAIN C \subseteq Nat
      /\ \A k \in Parties : /\ Sends(i, k, o) => <<"send", k>> \in calls
                            /\ Sends(k, i, o) => <<"receive", k>> \in calls
  BY <1>a, <1>b, CallsAre
<1>f. First(DOMAIN C) \in DOMAIN C /\ \A l \in DOMAIN C : First(DOMAIN C) <= l
  BY <1>e, FirstIs
<1>g. /\ talk' \in [Parties -> [op : Nat, stage : {"request", "wait", "direct"}, at : Nat]]
      /\ talk'[i] = [op |-> o, stage |-> "wait", at |-> First(DOMAIN C)]
      /\ \A j \in Parties : j # i => talk'[j] = talk[j]
  <2> HIDE DEF C
  <2>1. QED BY <1>b, <1>c, <1>e, <1>f, <1>a DEF Fixed
<1>h. talk'[i].op = o /\ talk'[i].stage = "wait" /\ talk'[i].at = First(DOMAIN C)
  BY <1>g
<1>i. /\ Parties' = Parties /\ Op(i)' = Op(i) /\ Calls(i, Op(i))' = C
      /\ \A k, q : (Sends(i, k, q)' <=> Sends(i, k, q)) /\ (Sends(k, i, q)' <=> Sends(k, i, q))
  <2>2. Op(i)' = Op(i)
    BY <1>c, <1>h DEF Op
  <2>3. PICK op : op = Op(i) /\ op = Op(i)'
    BY <2>2
  <2>4. Calls(i, op)' = Calls(i, op)
    BY <1>c, OperationsStay
  <2>5. Calls(i, Op(i))' = C
    BY <2>3, <2>4 DEF Calls
  <2>6. QED BY <1>c, <2>2, <2>5, OperationsStay
<1>j. \A k \in Parties : /\ sIn'[i][k] = IF <<"send", k>> \in calls THEN <<o>> ELSE <<>>
                         /\ rIn'[i][k] = IF <<"receive", k>> \in calls THEN <<o>> ELSE <<>>
                         /\ sOut'[i][k] = <<>> /\ rOut'[i][k] = <<>>
  <2> HIDE DEF calls, C
  <2>7. ASSUME NEW k \in Parties
        PROVE  sIn[i][k] = <<>> /\ rIn[i][k] = <<>> /\ sOut[i][k] = <<>> /\ rOut[i][k] = <<>>
    BY <1>a, AtRest
  <2>8. ASSUME NEW k \in Parties
        PROVE  /\ sIn'[i][k] = IF <<"send", k>> \in calls THEN Append(sIn[i][k], o) ELSE sIn[i][k]
               /\ rIn'[i][k] = IF <<"receive", k>> \in calls THEN Append(rIn[i][k], o) ELSE rIn[i][k]
    BY <1>a, <1>d DEF Fixed
  <2>9. Append(<<>>, o) = <<o>>
    OBVIOUS
  <2>10. QED BY <1>c, <2>7, <2>8, <2>9
<1>k. /\ \A j \in Parties : j # i => sIn'[j] = sIn[j] /\ rIn'[j] = rIn[j]
      /\ sIn' \in [Parties -> [Parties -> Seq(Nat)]] /\ rIn' \in [Parties -> [Parties -> Seq(Nat)]]
  <2> HIDE DEF calls, C
  <2>11. /\ \A j \in Parties : j # i => sIn'[j] = sIn[j] /\ rIn'[j] = rIn[j]
         /\ DOMAIN sIn' = Parties /\ DOMAIN rIn' = Parties
    BY <1>d, <1>a DEF Fixed
  <2>12. \A k \in Parties : sIn'[i][k] \in Seq(Nat) /\ rIn'[i][k] \in Seq(Nat)
    <3>1. <<o>> \in Seq(Nat) /\ <<>> \in Seq(Nat)
      BY <1>b
    <3> HIDE DEF o
    <3>2. QED BY <1>j, <3>1
  <2>13. sIn'[i] \in [Parties -> Seq(Nat)]
    BY <1>d, <1>a, <2>12 DEF Fixed
  <2>14. rIn'[i] \in [Parties -> Seq(Nat)]
    BY <1>d, <1>a, <2>12 DEF Fixed
  <2>15. sIn' \in [Parties -> [Parties -> Seq(Nat)]]
    BY <1>d, <1>a, <2>11, <2>13 DEF Fixed
  <2>16. rIn' \in [Parties -> [Parties -> Seq(Nat)]]
    BY <1>d, <1>a, <2>11, <2>14 DEF Fixed
  <2>17. QED BY <2>11, <2>15, <2>16
<1>1. Apart(i)
  BY <1>c, <1>g, <1>k DEF Apart
<1>2. PartyOK(i)'
  <2>1. StageOK(i)'
    BY <1>a, <1>b, <1>c, <1>f, <1>h, <1>i DEF StageOK
  <2>2. ASSUME NEW s \in {"send", "receive"}, NEW k \in Parties PROVE StreamOK(i, s, k)'
    <3>1. Awaited(i, s, k)' <=> <<s, k>> \in calls
      BY <1>f, <1>h, <1>i DEF Awaited
    <3>2. /\ Before(i, s, k)' = IF <<s, k>> \in calls THEN <<o>> ELSE <<>>
          /\ After(i, s, k)' = <<>>
      BY <1>j DEF Before, After
    <3>3. QED BY <1>h, <3>1, <3>2 DEF StreamOK
  <2>3. QED BY <1>i, <2>1, <2>2 DEF PartyOK
<1>3. SameSent(i) /\ SameReceived(i)
  <2>1. ASSUME NEW k \in Parties PROVE /\ Sends(i, k, o) => sIn'[i][k] # <<>>
                                       /\ Sends(k, i, o) => rIn'[i][k] # <<>>
    <3>1. <<o>> # <<>>
      OBVIOUS
    <3> HIDE DEF calls, o
    <3>2. QED BY <1>e, <1>j, <3>1
  <2>2. ASSUME NEW k \in Parties, NEW q PROVE Sent(i, k, q)' <=> Sent(i, k, q)
    BY <1>a, <1>c, <1>h, <1>i, <2>1 DEF Sent
  <2>3. ASSUME NEW k \in Parties, NEW q PROVE Received(i, k, q)' <=> Received(i, k, q)
    BY <1>a, <1>c, <1>h, <1>i, <2>1 DEF Received
  <2>4. QED BY <2>2, <2>3 DEF SameSent, SameReceived
<1>4. (\A j \in Parties : PartyOK(j))' /\ Served' /\ Ways'
  BY <1>c, <1>1, <1>2, <1>3, Stays DEF TalkInv
<1>5. InStep' /\ DOMAIN got' = Parties
  BY <1>a, <1>c, <1>i DEF TalkInv, InStep, Fixed
<1>6. QED BY <1>a, <1>c, <1>g, <1>k, <1>4, <1>5, AllKept DEF Fixed

\* Setting one queue.
LEMMA QueueSet ==
    ASSUME NEW P, NEW Q \in [P -> [P -> Seq(Nat)]], NEW i \in P, NEW k \in P, NEW v \in Seq(Nat),
           NEW R, R = [Q EXCEPT ![i][k] = v]
    PROVE  /\ R \in [P -> [P -> Seq(Nat)]] /\ R[i][k] = v
           /\ \A l \in P : l # k => R[i][l] = Q[i][l]
           /\ \A j \in P : j # i => R[j] = Q[j]
<1>1. R = [Q EXCEPT ![i] = [Q[i] EXCEPT ![k] = v]]
  BY Zenon
<1>2. [Q[i] EXCEPT ![k] = v] \in [P -> Seq(Nat)]
  OBVIOUS
<1>3. R[i] = [Q[i] EXCEPT ![k] = v] /\ \A j \in P : j # i => R[j] = Q[j]
  BY <1>1
<1>4. R \in [P -> [P -> Seq(Nat)]]
  BY <1>1, <1>2
<1>5. R[i][k] = v /\ \A l \in P : l # k => R[i][l] = Q[i][l]
  BY <1>3
<1>6. QED BY <1>3, <1>4, <1>5

\* The stream for a peer is taken from the queue.
Popped(i, s, k) ==
    /\ sOut' = IF s = "send" THEN [sOut EXCEPT ![i][k] = Tail(@)] ELSE sOut
    /\ rOut' = IF s = "send" THEN rOut ELSE [rOut EXCEPT ![i][k] = Tail(@)]

\* What a party waits for: the stream is there, and it is the one of its operation.
LEMMA WaitGets ==
    ASSUME TalkInv, NEW i \in Parties, WaitFor(i)
    PROVE  \E s \in {"send", "receive"}, k \in Parties :
              /\ Calls(i, Op(i))[talk[i].at] = <<s, k>>
              /\ Before(i, s, k) = <<>> /\ After(i, s, k) = <<talk[i].op>>
              /\ Popped(i, s, k)
<1> DEFINE o == talk[i].op
           C == Calls(i, Op(i))
           at == talk[i].at
<1>a. /\ Fixed /\ PartyOK(i) /\ StageOK(i) /\ Working(i) /\ talk[i].stage = "wait"
  BY DEF TalkInv, PartyOK, WaitFor
<1>b. /\ o \in DOMAIN script /\ Op(i) = script[o] /\ Op(i).kind # "inPlace" /\ at \in DOMAIN C
      /\ at \in Nat
  BY <1>a, WorkingIs, PartyTypes DEF StageOK
<1>1. PICK s \in {"send", "receive"}, k \in Parties : C[at] = <<s, k>>
  BY <1>a, <1>b, CallsAre
<1>2. C[at][1] = s /\ C[at][2] = k
  BY <1>1
<1>3. /\ Popped(i, s, k)
      /\ (IF s = "send" THEN sOut[i][k] ELSE rOut[i][k]) # <<>>
  BY <1>2 DEF WaitFor, Popped
<1>4. Awaited(i, s, k)
  BY <1>a, <1>b, <1>1 DEF Awaited
<1>5. StreamOK(i, s, k)
  BY <1>a DEF PartyOK
<1>6. After(i, s, k) # <<>>
  BY <1>3 DEF After
<1>7. Before(i, s, k) = <<>> /\ After(i, s, k) = <<o>>
  BY <1>4, <1>5, <1>6 DEF StreamOK
<1> HIDE DEF o, C, at
<1>8. QED BY <1>1, <1>3, <1>7 DEF o, C, at

\* The stream that is awaited is taken, the others stay.
LEMMA WaitTakes ==
    ASSUME TalkInv, NEW i \in Parties, WaitFor(i), NEW s \in {"send", "receive"}, NEW k \in Parties,
           Calls(i, Op(i))[talk[i].at] = <<s, k>>, After(i, s, k) = <<talk[i].op>>,
           Popped(i, s, k)
    PROVE  /\ After(i, s, k)' = <<>>
           /\ \A z \in {"send", "receive"}, l \in Parties :
                 /\ Before(i, z, l)' = Before(i, z, l)
                 /\ <<z, l>> # <<s, k>> => After(i, z, l)' = After(i, z, l)
           /\ \A j \in Parties : j # i => sOut'[j] = sOut[j] /\ rOut'[j] = rOut[j]
           /\ sOut' \in [Parties -> [Parties -> Seq(Nat)]] /\ rOut' \in [Parties -> [Parties -> Seq(Nat)]]
<1>a. /\ sOut \in [Parties -> [Parties -> Seq(Nat)]] /\ rOut \in [Parties -> [Parties -> Seq(Nat)]]
      /\ UNCHANGED <<sIn, rIn>>
  BY DEF TalkInv, Fixed, WaitFor
<1>b. (IF s = "send" THEN sOut[i][k] ELSE rOut[i][k]) = <<talk[i].op>>
  BY DEF After
<1>c. \A x : Tail(<<x>>) = <<>>
  OBVIOUS
<1>d. Tail(<<talk[i].op>>) = <<>>
  BY <1>c
<1>e. <<>> \in Seq(Nat)
  OBVIOUS
<1>1. \A z \in {"send", "receive"}, l \in Parties : Before(i, z, l)' = Before(i, z, l)
  BY <1>a DEF Before
<1>2. CASE s = "send"
  <2>1. /\ sOut' = [sOut EXCEPT ![i][k] = Tail(sOut[i][k])] /\ rOut' = rOut
        /\ Tail(sOut[i][k]) = <<>>
    BY <1>b, <1>d, <1>2 DEF Popped
  <2>2. sOut' = [sOut EXCEPT ![i][k] = <<>>]
    BY <2>1
  <2>3. /\ sOut'[i][k] = <<>> /\ \A l \in Parties : l # k => sOut'[i][l] = sOut[i][l]
        /\ \A j \in Parties : j # i => sOut'[j] = sOut[j]
        /\ sOut' \in [Parties -> [Parties -> Seq(Nat)]]
    BY <1>a, <1>e, <2>2, QueueSet
  <2>4. ASSUME NEW z \in {"send", "receive"}, NEW l \in Parties, <<z, l>> # <<s, k>>
        PROVE  After(i, z, l)' = After(i, z, l)
    BY <1>2, <2>1, <2>3, <2>4 DEF After
  <2>5. After(i, s, k)' = <<>>
    BY <1>2, <2>3 DEF After
  <2>6. QED BY <1>1, <1>a, <2>1, <2>3, <2>4, <2>5
<1>3. CASE s # "send"
  <2>1. /\ rOut' = [rOut EXCEPT ![i][k] = Tail(rOut[i][k])] /\ sOut' = sOut
        /\ Tail(rOut[i][k]) = <<>>
    BY <1>b, <1>d, <1>3 DEF Popped
  <2>2. rOut' = [rOut EXCEPT ![i][k] = <<>>]
    BY <2>1
  <2>3. /\ rOut'[i][k] = <<>> /\ \A l \in Parties : l # k => rOut'[i][l] = rOut[i][l]
        /\ \A j \in Parties : j # i => rOut'[j] = rOut[j]
        /\ rOut' \in [Parties -> [Parties -> Seq(Nat)]]
    BY <1>a, <1>e, <2>2, QueueSet
  <2>4. ASSUME NEW z \in {"send", "receive"}, NEW l \in Parties, <<z, l>> # <<s, k>>
        PROVE  After(i, z, l)' = After(i, z, l)
    BY <1>3, <2>1, <2>3, <2>4 DEF After
  <2>5. After(i, s, k)' = <<>>
    BY <1>3, <2>3 DEF After
  <2>6. QED BY <1>1, <1>a, <2>1, <2>3, <2>4, <2>5
<1>4. QED BY <1>2, <1>3

\* Waiting for a stream: the next one is awaited, or the operation is over.
LEMMA WaitForKeeps ==
    ASSUME TalkInv, NEW i \in Parties, WaitFor(i)
    PROVE  TalkInv'
<1> DEFINE o == talk[i].op
           C == Calls(i, Op(i))
           at == talk[i].at
           later == {j \in DOMAIN C : j > at}
<1>a. /\ Fixed /\ PartyOK(i) /\ StageOK(i) /\ Working(i) /\ talk[i].stage = "wait"
  BY DEF TalkInv, PartyOK, WaitFor
<1>b. /\ o \in DOMAIN script /\ Op(i) = script[o] /\ Op(i).kind # "inPlace" /\ at \in DOMAIN C
      /\ at \in Nat /\ o \in Nat /\ DOMAIN script \subseteq Nat
  BY <1>a, WorkingIs, PartyTypes DEF StageOK
<1>c. /\ DOMAIN C \subseteq Nat
      /\ \A j, l \in DOMAIN C : C[j] = C[l] => j = l
      /\ \A l \in Parties : /\ Sends(i, l, o) => \E j \in DOMAIN C : C[j] = <<"send", l>>
                            /\ Sends(l, i, o) => \E j \in DOMAIN C : C[j] = <<"receive", l>>
  BY <1>a, <1>b, CallsAre
<1>d. PICK s \in {"send", "receive"}, k \in Parties :
              /\ C[at] = <<s, k>> /\ Before(i, s, k) = <<>> /\ After(i, s, k) = <<o>>
              /\ Popped(i, s, k)
  BY WaitGets
<1>e. /\ After(i, s, k)' = <<>>
      /\ \A z \in {"send", "receive"}, l \in Parties :
            /\ Before(i, z, l)' = Before(i, z, l)
            /\ <<z, l>> # <<s, k>> => After(i, z, l)' = After(i, z, l)
      /\ \A j \in Parties : j # i => sOut'[j] = sOut[j] /\ rOut'[j] = rOut[j]
      /\ sOut' \in [Parties -> [Parties -> Seq(Nat)]] /\ rOut' \in [Parties -> [Parties -> Seq(Nat)]]
  BY <1>d, WaitTakes
<1>f. /\ UNCHANGED <<vars, team, script, sIn, rIn, wire, got>> /\ Parties' = Parties
      /\ \A l, m, q : Sends(l, m, q)' <=> Sends(l, m, q)
  BY OperationsStay DEF WaitFor, vars
<1>g. talk' = IF later = {} THEN [talk EXCEPT ![i] = [op |-> o + 1, stage |-> "request", at |-> 1]]
              ELSE [talk EXCEPT ![i].at = First(later)]
  <2>1. (IF C[at][1] = "send" THEN sOut[i][C[at][2]] ELSE rOut[i][C[at][2]]) = <<o>>
    BY <1>d DEF After
  <2>2. Head(<<o>>) = o
    OBVIOUS
  <2>3. Head(IF C[at][1] = "send" THEN sOut[i][C[at][2]] ELSE rOut[i][C[at][2]]) = o
    BY <2>1, <2>2
  <2>4. QED BY <2>3, Zenon DEF WaitFor, Advance
<1>h. \A l \in Parties : StreamOK(i, "send", l) /\ StreamOK(i, "receive", l)
  BY <1>a DEF PartyOK
<1>i. InStep' /\ DOMAIN got' = Parties
  BY <1>a, <1>f DEF TalkInv, InStep, Fixed
<1>1. CASE later = {}
  <2>1. /\ talk' \in [Parties -> [op : Nat, stage : {"request", "wait", "direct"}, at : Nat]]
        /\ talk'[i] = [op |-> o + 1, stage |-> "request", at |-> 1]
        /\ \A j \in Parties : j # i => talk'[j] = talk[j]
    <3>1. talk' = [talk EXCEPT ![i] = [op |-> o + 1, stage |-> "request", at |-> 1]]
      BY <1>g, <1>1
    <3>2. [op |-> o + 1, stage |-> "request", at |-> 1]
          \in [op : Nat, stage : {"request", "wait", "direct"}, at : Nat]
      BY <1>b
    <3>3. talk \in [Parties -> [op : Nat, stage : {"request", "wait", "direct"}, at : Nat]]
      BY <1>a DEF Fixed
    <3> HIDE DEF o
    <3>4. QED BY <3>1, <3>2, <3>3
  <2>2. ASSUME NEW z \in {"send", "receive"}, NEW l \in Parties
        PROVE  Before(i, z, l) = <<>> /\ After(i, z, l)' = <<>>
    <3>1. CASE <<z, l>> = <<s, k>>
      BY <1>d, <1>e, <3>1
    <3>2. CASE <<z, l>> # <<s, k>>
      <4>1. ~ Awaited(i, z, l)
        BY <1>1, <1>b, <1>c, <1>d, <3>2 DEF Awaited
      <4>2. StreamOK(i, z, l)
        BY <1>h
      <4>3. Before(i, z, l) = <<>> /\ After(i, z, l) = <<>>
        BY <4>1, <4>2 DEF StreamOK
      <4>4. QED BY <1>e, <3>2, <4>3
    <3>3. QED BY <3>1, <3>2
  <2>3. \A l \in Parties : /\ sIn[i][l] = <<>> /\ rIn[i][l] = <<>>
                           /\ sOut'[i][l] = <<>> /\ rOut'[i][l] = <<>>
    BY <2>2 DEF Before, After
  <2>4. /\ PartyOK(i)'
        /\ \A l \in Parties : \A q :
             /\ Sent(i, l, q)' <=> q \in DOMAIN script /\ Sends(i, l, q) /\ q <= talk[i].op
             /\ Received(i, l, q)' <=> q \in DOMAIN script /\ Sends(l, i, q) /\ q <= talk[i].op
    BY <1>a, <1>f, <2>1, <2>3, Advances
  <2>5. SameSent(i) /\ SameReceived(i)
    BY <1>a, <1>b, <2>3, <2>4 DEF SameSent, SameReceived, Sent, Received
  <2>6. Apart(i)
    BY <1>e, <1>f, <2>1 DEF Apart
  <2>7. (\A j \in Parties : PartyOK(j))' /\ Served' /\ Ways'
    BY <1>f, <2>4, <2>5, <2>6, Stays DEF TalkInv
  <2>8. QED BY <1>a, <1>e, <1>f, <1>i, <2>1, <2>7, AllKept DEF Fixed
<1>2. CASE later # {}
  <2>a. First(later) \in later /\ \A l \in later : First(later) <= l
    BY <1>2, <1>c, FirstIs
  <2>b. First(later) \in Nat
    BY <2>a, <1>c
  <2>1. /\ talk' \in [Parties -> [op : Nat, stage : {"request", "wait", "direct"}, at : Nat]]
        /\ talk'[i] = [talk[i] EXCEPT !.at = First(later)]
        /\ \A j \in Parties : j # i => talk'[j] = talk[j]
    <3>1. talk' = [talk EXCEPT ![i] = [talk[i] EXCEPT !.at = First(later)]]
      BY <1>a, <1>g, <1>2 DEF Fixed
    <3>2. talk[i] \in [op : Nat, stage : {"request", "wait", "direct"}, at : Nat]
      BY <1>a, PartyTypes
    <3> HIDE DEF later
    <3>3. [talk[i] EXCEPT !.at = First(later)] \in [op : Nat, stage : {"request", "wait", "direct"}, at : Nat]
      BY <2>b, <3>2
    <3>4. QED BY <1>a, <3>1, <3>3 DEF Fixed
  <2>2. talk'[i].op = o /\ talk'[i].stage = "wait" /\ talk'[i].at = First(later)
    <3> HIDE DEF later
    <3>1. QED BY <1>a, <2>1, PartyTypes
  <2>3. Op(i)' = Op(i) /\ Calls(i, Op(i))' = C
    <3>1. Op(i)' = Op(i)
      BY <1>f, <2>2 DEF Op
    <3>2. PICK op : op = Op(i) /\ op = Op(i)'
      BY <3>1
    <3>3. Calls(i, op)' = Calls(i, op)
      BY <1>f, OperationsStay
    <3>4. Calls(i, Op(i))' = C
      BY <3>2, <3>3 DEF Calls
    <3>5. QED BY <3>1, <3>4
  <2>4. ASSUME NEW z \in {"send", "receive"}, NEW l \in Parties
        PROVE  Awaited(i, z, l)' <=> Awaited(i, z, l) /\ <<z, l>> # <<s, k>>
    <3>1. Awaited(i, z, l)' <=> \E j \in DOMAIN C : j >= First(later) /\ C[j] = <<z, l>>
      BY <2>2, <2>3 DEF Awaited
    <3>2. Awaited(i, z, l) <=> \E j \in DOMAIN C : j >= at /\ C[j] = <<z, l>>
      BY <1>a DEF Awaited
    <3>3. \A j \in DOMAIN C : j >= First(later) <=> j >= at /\ j # at
      <4>1. PICK f \in Nat : f = First(later)
        BY <2>b
      <4>2. f \in DOMAIN C /\ f > at /\ \A j \in DOMAIN C : j > at => f <= j
        BY <2>a, <4>1
      <4> HIDE DEF C, at, later
      <4>3. QED BY <1>b, <1>c, <4>1, <4>2
    <3>4. \A j \in DOMAIN C : C[j] = <<s, k>> <=> j = at
      BY <1>b, <1>c, <1>d
    <3> HIDE DEF C, at, later
    <3>5. QED BY <3>1, <3>2, <3>3, <3>4
  <2>5. ASSUME NEW z \in {"send", "receive"}, NEW l \in Parties PROVE StreamOK(i, z, l)'
    <3>1. StreamOK(i, z, l)
      BY <1>h
    <3>2. CASE <<z, l>> = <<s, k>>
      BY <1>d, <1>e, <2>4, <3>2 DEF StreamOK
    <3>3. CASE <<z, l>> # <<s, k>>
      BY <1>e, <2>2, <2>4, <3>1, <3>3 DEF StreamOK
    <3>4. QED BY <3>2, <3>3
  <2>6. StageOK(i)'
    BY <1>a, <1>b, <1>f, <2>a, <2>2, <2>3 DEF StageOK
  <2>7. PartyOK(i)'
    BY <1>f, <2>5, <2>6 DEF PartyOK
  <2>8. SameSent(i) /\ SameReceived(i)
    BY <1>a, <1>f, <2>2 DEF SameSent, SameReceived, Sent, Received
  <2>9. Apart(i)
    BY <1>e, <1>f, <2>1 DEF Apart
  <2>10. (\A j \in Parties : PartyOK(j))' /\ Served' /\ Ways'
    BY <1>f, <2>7, <2>8, <2>9, Stays DEF TalkInv
  <2>11. QED BY <1>a, <1>e, <1>f, <1>i, <2>1, <2>10, AllKept DEF Fixed
<1>3. QED BY <1>1, <1>2

\* A stream in a queue before the threads is one the party awaits.
LEMMA StreamAwaited ==
    ASSUME Fixed, NEW i \in Parties, PartyOK(i), NEW s \in {"send", "receive"}, NEW k \in Parties,
           Before(i, s, k) # <<>>
    PROVE  /\ talk[i].stage = "wait" /\ talk[i].op \in DOMAIN script
           /\ script[talk[i].op].kind # "inPlace"
           /\ Before(i, s, k) = <<talk[i].op>> /\ After(i, s, k) = <<>> /\ Awaited(i, s, k)
           /\ s = "send" => Sends(i, k, talk[i].op)
           /\ s = "receive" => Sends(k, i, talk[i].op)
<1> DEFINE o == talk[i].op
           C == Calls(i, Op(i))
<1>1. StreamOK(i, s, k) /\ StageOK(i)
  BY DEF PartyOK
<1>2. /\ Before(i, s, k) = <<o>> /\ After(i, s, k) = <<>> /\ Awaited(i, s, k)
  BY <1>1 DEF StreamOK
<1>3. talk[i].stage = "wait"
  BY <1>2 DEF Awaited
<1>4. /\ o \in DOMAIN script /\ script[o].kind # "inPlace" /\ Op(i) = script[o]
  BY <1>1, <1>3, PartyTypes DEF StageOK, Op
<1>5. PICK j \in DOMAIN C : C[j] = <<s, k>>
  BY <1>2 DEF Awaited
<1>6. \E l \in Parties : \/ C[j] = <<"send", l>> /\ Sends(i, l, o)
                         \/ C[j] = <<"receive", l>> /\ Sends(l, i, o)
  BY <1>4, <1>5, CallsAre
<1> HIDE DEF C, o
<1>7. (s = "send" => Sends(i, k, o)) /\ (s = "receive" => Sends(k, i, o))
  BY <1>5, <1>6
<1>8. QED BY <1>2, <1>3, <1>4, <1>7 DEF o

\* The stream for a peer has gone through the thread.
Passed(i, s, k) ==
    /\ Before(i, s, k)' = <<>> /\ After(i, s, k)' = <<talk[i].op>>
    /\ \A z \in {"send", "receive"}, l \in Parties :
          <<z, l>> # <<s, k>> => Before(i, z, l)' = Before(i, z, l) /\ After(i, z, l)' = After(i, z, l)

\* A party one of whose threads has done its work.
LEMMA PassedOK ==
    ASSUME Fixed, NEW i \in Parties, PartyOK(i), NEW s \in {"send", "receive"}, NEW k \in Parties,
           Before(i, s, k) # <<>>, UNCHANGED <<team, script, talk>>, Passed(i, s, k)
    PROVE  PartyOK(i)'
<1>1. /\ Parties' = Parties /\ Op(i)' = Op(i) /\ \A op : Calls(i, op)' = Calls(i, op)
  BY OperationsStay DEF Op
<1>2. Calls(i, Op(i))' = Calls(i, Op(i))
  <2>1. PICK op : op = Op(i) /\ op = Op(i)'
    BY <1>1
  <2>2. Calls(i, op)' = Calls(i, op)
    BY <1>1
  <2>3. QED BY <2>1, <2>2 DEF Calls
<1>3. StageOK(i)'
  BY <1>1, <1>2 DEF StageOK, PartyOK
<1>4. ASSUME NEW z \in {"send", "receive"}, NEW l \in Parties PROVE StreamOK(i, z, l)'
  <2>1. Awaited(i, z, l)' <=> Awaited(i, z, l)
    BY <1>1, <1>2 DEF Awaited
  <2>2. StreamOK(i, z, l)
    BY <1>4 DEF PartyOK
  <2>3. CASE <<z, l>> = <<s, k>>
    <3>1. Awaited(i, z, l)
      BY <2>3, StreamAwaited
    <3>2. Before(i, z, l)' = <<>> /\ After(i, z, l)' = <<talk[i].op>>
      BY <2>3 DEF Passed
    <3>3. QED BY <2>1, <3>1, <3>2 DEF StreamOK
  <2>4. CASE <<z, l>> # <<s, k>>
    <3>1. Before(i, z, l)' = Before(i, z, l) /\ After(i, z, l)' = After(i, z, l)
      BY <2>4 DEF Passed
    <3>2. QED BY <2>1, <2>2, <3>1 DEF StreamOK
  <2>5. QED BY <2>3, <2>4
<1>5. QED BY <1>1, <1>3, <1>4 DEF PartyOK

\* The first of a one-element queue moves over to an empty one.
LEMMA MovesOver ==
    ASSUME NEW P, NEW Q \in [P -> [P -> Seq(Nat)]], NEW R \in [P -> [P -> Seq(Nat)]],
           NEW i \in P, NEW k \in P, NEW o \in Nat, Q[i][k] = <<o>>, R[i][k] = <<>>,
           NEW V, V = [Q EXCEPT ![i][k] = Tail(@)],
           NEW W, W = [R EXCEPT ![i][k] = Append(@, Head(Q[i][k]))]
    PROVE  /\ V \in [P -> [P -> Seq(Nat)]] /\ W \in [P -> [P -> Seq(Nat)]]
           /\ V[i][k] = <<>> /\ W[i][k] = <<o>>
           /\ \A l \in P : l # k => V[i][l] = Q[i][l] /\ W[i][l] = R[i][l]
           /\ \A j \in P : j # i => V[j] = Q[j] /\ W[j] = R[j]
<1>1. Tail(<<o>>) = <<>> /\ Head(<<o>>) = o /\ Append(<<>>, o) = <<o>>
      /\ <<o>> \in Seq(Nat) /\ <<>> \in Seq(Nat)
  OBVIOUS
<1>2. V = [Q EXCEPT ![i][k] = <<>>]
  <2>1. Tail(Q[i][k]) = <<>>
    BY <1>1
  <2>2. V = [Q EXCEPT ![i][k] = Tail(Q[i][k])]
    OBVIOUS
  <2>3. QED BY <2>1, <2>2
<1>3. W = [R EXCEPT ![i][k] = <<o>>]
  <2>1. Append(R[i][k], Head(Q[i][k])) = <<o>>
    BY <1>1
  <2>2. W = [R EXCEPT ![i][k] = Append(R[i][k], Head(Q[i][k]))]
    OBVIOUS
  <2>3. QED BY <2>1, <2>2
<1>4. /\ V \in [P -> [P -> Seq(Nat)]] /\ V[i][k] = <<>>
      /\ \A l \in P : l # k => V[i][l] = Q[i][l]
      /\ \A j \in P : j # i => V[j] = Q[j]
  BY <1>1, <1>2, QueueSet
<1>5. /\ W \in [P -> [P -> Seq(Nat)]] /\ W[i][k] = <<o>>
      /\ \A l \in P : l # k => W[i][l] = R[i][l]
      /\ \A j \in P : j # i => W[j] = R[j]
  BY <1>1, <1>3, QueueSet
<1>6. QED BY <1>4, <1>5

\* A wire that a message is put on, or that one is taken off.
LEMMA WireSet ==
    ASSUME Fixed, NEW d \in DOMAIN wire, NEW v \in Seq(Parties \X Nat), wire' = [wire EXCEPT ![d] = v]
    PROVE  /\ wire' \in [Conns \X Parties -> Seq(Parties \X Nat)]
           /\ wire'[d] = v /\ \A e \in DOMAIN wire : e # d => wire'[e] = wire[e]
<1> DEFINE X == Seq(Parties \X Nat)
           D == Conns \X Parties
<1>1. wire \in [D -> X] /\ v \in X
  BY DEF Fixed
<1> HIDE DEF X, D
<1>2. wire' \in [D -> X] /\ wire'[d] = v /\ \A e \in DOMAIN wire : e # d => wire'[e] = wire[e]
  BY <1>1
<1>3. QED BY <1>2 DEF X, D

\* Putting party i's message on a free wire.
LEMMA WirePut ==
    ASSUME Fixed, NEW d \in DOMAIN wire, NEW i \in Parties, Len(wire[d]) < Room,
           wire' = [wire EXCEPT ![d] = Append(@, Message(i))]
    PROVE  /\ wire' \in [Conns \X Parties -> Seq(Parties \X Nat)]
           /\ wire[d] = <<>> /\ wire'[d] = << <<i, talk[i].op>> >>
           /\ \A e \in DOMAIN wire : e # d => wire'[e] = wire[e]
<1>1. wire[d] \in Seq(Parties \X Nat) /\ Message(i) \in Parties \X Nat
  BY PartyTypes DEF Fixed, Message
<1>2. wire[d] = <<>>
  BY <1>1 DEF Room
<1>3. Append(wire[d], Message(i)) = <<Message(i)>>
  BY <1>2
<1>4. <<Message(i)>> \in Seq(Parties \X Nat)
  BY <1>1
<1>5. wire' = [wire EXCEPT ![d] = <<Message(i)>>]
  BY <1>3
<1>6. QED BY <1>2, <1>4, <1>5, WireSet DEF Message

\* Taking what is first off a wire.
LEMMA WireTaken ==
    ASSUME Fixed, NEW d \in DOMAIN wire, wire[d] # <<>>, wire' = [wire EXCEPT ![d] = Tail(@)]
    PROVE  /\ wire' \in [Conns \X Parties -> Seq(Parties \X Nat)]
           /\ wire'[d] = Tail(wire[d])
           /\ \A e \in DOMAIN wire : e # d => wire'[e] = wire[e]
<1> DEFINE X == Parties \X Nat
<1>1. wire[d] \in Seq(X)
  BY DEF Fixed
<1> HIDE DEF X
<1>2. Tail(wire[d]) \in Seq(X)
  BY <1>1
<1>3. wire' = [wire EXCEPT ![d] = Tail(wire[d])]
  OBVIOUS
<1>4. QED BY <1>2, <1>3, WireSet DEF X

\* A sending thread: the message of the party's operation is under way.
LEMMA SenderRunKeeps ==
    ASSUME TalkInv, NEW i \in Parties, NEW k \in Parties, k # i, SenderRun(i, k)
    PROVE  TalkInv'
<1>o. PICK o : o = talk[i].op
  OBVIOUS
<1> DEFINE c == SendChannel(i, k)
           d == Way(i, k, c)
<1>a. /\ Fixed /\ PartyOK(i) /\ pc[Main(i)] = Up /\ sIn[i][k] # <<>>
      /\ UNCHANGED <<vars, team, script, talk, rIn, rOut, got>>
  BY DEF TalkInv, SenderRun, vars
<1>b. /\ talk[i].stage = "wait" /\ o \in DOMAIN script /\ script[o].kind # "inPlace"
      /\ sIn[i][k] = <<o>> /\ sOut[i][k] = <<>> /\ Sends(i, k, o)
  <2>1. Before(i, "send", k) # <<>>
    BY <1>a DEF Before
  <2>2. /\ talk[i].stage = "wait" /\ o \in DOMAIN script /\ script[o].kind # "inPlace"
        /\ Before(i, "send", k) = <<o>> /\ After(i, "send", k) = <<>> /\ Sends(i, k, o)
    BY <1>a, <1>o, <2>1, StreamAwaited
  <2>3. QED BY <2>2 DEF Before, After
<1>c. team.encrypted /\ c \in {0, 1} /\ c = Channel(i, k, o) /\ o \in Nat
  BY <1>a, <1>b, <1>o, OpIs, PartyTypes DEF SendChannel, Channel
<1>d. Direction(i, c, k) = d /\ d \in DOMAIN wire
  BY <1>a, <1>c, SocketIs, WayIs
<1>e. /\ wire[d] = <<>> /\ wire'[d] = << <<i, o>> >>
      /\ \A e \in DOMAIN wire : e # d => wire'[e] = wire[e]
      /\ wire' \in [Conns \X Parties -> Seq(Parties \X Nat)]
  <2>4. Len(wire[d]) < Room /\ wire' = [wire EXCEPT ![d] = Append(@, Message(i))]
    BY <1>d DEF SenderRun
  <2> HIDE DEF d
  <2>5. QED BY <1>a, <1>o, <1>d, <2>4, WirePut
<1>f. /\ sIn' \in [Parties -> [Parties -> Seq(Nat)]] /\ sOut' \in [Parties -> [Parties -> Seq(Nat)]]
      /\ sIn'[i][k] = <<>> /\ sOut'[i][k] = <<o>>
      /\ \A l \in Parties : l # k => sIn'[i][l] = sIn[i][l] /\ sOut'[i][l] = sOut[i][l]
      /\ \A j \in Parties : j # i => sIn'[j] = sIn[j] /\ sOut'[j] = sOut[j]
  <2>6. /\ sIn' = [sIn EXCEPT ![i][k] = Tail(@)]
        /\ sOut' = [sOut EXCEPT ![i][k] = Append(@, Head(sIn[i][k]))]
    BY DEF SenderRun
  <2>7. sIn \in [Parties -> [Parties -> Seq(Nat)]] /\ sOut \in [Parties -> [Parties -> Seq(Nat)]]
    BY <1>a DEF Fixed
  <2>8. QED BY <1>b, <1>c, <2>6, <2>7, MovesOver
<1>1. Apart(i)
  BY <1>a, <1>f DEF Apart
<1>2. PartyOK(i)'
  <2>1. Passed(i, "send", k)
    BY <1>a, <1>o, <1>f DEF Passed, Before, After
  <2>2. Before(i, "send", k) # <<>>
    BY <1>a DEF Before
  <2>3. QED BY <1>a, <2>1, <2>2, PassedOK
<1>3. \A l, m, q : Sends(l, m, q)' <=> Sends(l, m, q)
  BY <1>a, OperationsStay
<1>4. ~ Sent(i, k, o) /\ Sent(i, k, o)'
  BY <1>a, <1>o, <1>b, <1>c, <1>f, <1>3 DEF Sent
<1>5. ASSUME NEW l \in Parties, NEW q, l # k \/ q # o PROVE Sent(i, l, q)' <=> Sent(i, l, q)
  BY <1>a, <1>o, <1>f, <1>3, <1>5 DEF Sent
<1>6. SameReceived(i)
  BY <1>a, <1>3 DEF SameReceived, Received
<1>7. (\A j \in Parties : PartyOK(j))' /\ Served' /\ Ways'
  <2> HIDE DEF c, d
  <2>1. QED BY <1>a, <1>b, <1>c, <1>e, <1>1, <1>2, <1>4, <1>5, <1>6, Puts DEF TalkInv, d
<1>8. InStep' /\ DOMAIN got' = Parties
  BY <1>a, TeamStays DEF TalkInv, InStep, Fixed
<1>9. QED BY <1>a, <1>e, <1>f, <1>7, <1>8, AllKept DEF Fixed

\* What is received goes to what has been received.
LEMMA GotKeeps ==
    ASSUME InStep, NEW i \in Parties, NEW k, NEW o, DOMAIN got' = Parties, Parties' = Parties,
           got'[i] = got[i] \cup {[op |-> o, k |-> k, message |-> <<k, o>>]},
           \A j \in Parties : j # i => got'[j] = got[j]
    PROVE  InStep'
<1>1. ASSUME NEW j \in Parties, NEW g \in got'[j] PROVE g.message = <<g.k, g.op>>
  <2>1. CASE j = i
    <3>1. g \in got[i] \/ g = [op |-> o, k |-> k, message |-> <<k, o>>]
      BY <1>1, <2>1
    <3>2. QED BY <3>1 DEF InStep
  <2>2. CASE j # i
    <3>1. g \in got[j]
      BY <1>1, <2>2
    <3>2. QED BY <3>1 DEF InStep
  <2>3. QED BY <2>1, <2>2
<1>2. QED BY <1>1 DEF InStep

\* A receiving thread: what comes is what the peer sent in the same operation.
LEMMA ReceiverRunKeeps ==
    ASSUME TalkInv, NEW i \in Parties, NEW k \in Parties, k # i, ReceiverRun(i, k)
    PROVE  TalkInv'
<1>o. PICK o : o = talk[i].op
  OBVIOUS
<1> DEFINE c == ReceiveChannel(i, k)
           d == Way(k, i, c)
<1>a. /\ Fixed /\ PartyOK(i) /\ pc[Main(i)] = Up /\ rIn[i][k] # <<>>
      /\ UNCHANGED <<vars, team, script, talk, sIn, sOut>>
  BY DEF TalkInv, ReceiverRun, vars
<1>b. /\ talk[i].stage = "wait" /\ o \in DOMAIN script /\ script[o].kind # "inPlace"
      /\ rIn[i][k] = <<o>> /\ rOut[i][k] = <<>> /\ Sends(k, i, o)
  <2>1. Before(i, "receive", k) # <<>>
    BY <1>a DEF Before
  <2>2. /\ talk[i].stage = "wait" /\ o \in DOMAIN script /\ script[o].kind # "inPlace"
        /\ Before(i, "receive", k) = <<o>> /\ After(i, "receive", k) = <<>> /\ Sends(k, i, o)
    BY <1>a, <1>o, <2>1, StreamAwaited
  <2>3. QED BY <2>2 DEF Before, After
<1>c. team.encrypted /\ c \in {0, 1} /\ c = Channel(k, i, o) /\ o \in Nat
  <2>4. i \in Nat /\ k \in Nat
    BY <1>a, TeamFacts DEF Fixed, StartInv, TypeInv
  <2>5. QED BY <1>a, <1>b, <1>o, <2>4, OpIs, PartyTypes DEF SendChannel, ReceiveChannel, Channel
<1>d. From(i, c, k) = d /\ d \in DOMAIN wire
  BY <1>a, <1>c, SocketIs, WayIs
<1>e. /\ wire[d] # <<>> /\ wire'[d] = Tail(wire[d])
      /\ \A e \in DOMAIN wire : e # d => wire'[e] = wire[e]
      /\ wire' \in [Conns \X Parties -> Seq(Parties \X Nat)]
      /\ got' = [got EXCEPT ![i] = @ \cup {[op |-> o, k |-> k, message |-> Head(wire[d])]}]
  <2>6. Head(<<o>>) = o
    OBVIOUS
  <2>7. Receive(i, k, o, d)
    BY <1>b, <1>d, <2>6 DEF ReceiverRun
  <2>8. /\ wire[d] # <<>> /\ wire' = [wire EXCEPT ![d] = Tail(@)]
        /\ got' = [got EXCEPT ![i] = @ \cup {[op |-> o, k |-> k, message |-> Head(wire[d])]}]
    BY <2>7 DEF Receive
  <2> HIDE DEF d
  <2>9. QED BY <1>a, <1>d, <2>8, WireTaken
<1>f. /\ rIn' \in [Parties -> [Parties -> Seq(Nat)]] /\ rOut' \in [Parties -> [Parties -> Seq(Nat)]]
      /\ rIn'[i][k] = <<>> /\ rOut'[i][k] = <<o>>
      /\ \A l \in Parties : l # k => rIn'[i][l] = rIn[i][l] /\ rOut'[i][l] = rOut[i][l]
      /\ \A j \in Parties : j # i => rIn'[j] = rIn[j] /\ rOut'[j] = rOut[j]
  <2>10. /\ rIn' = [rIn EXCEPT ![i][k] = Tail(@)]
         /\ rOut' = [rOut EXCEPT ![i][k] = Append(@, Head(rIn[i][k]))]
    BY DEF ReceiverRun
  <2>11. rIn \in [Parties -> [Parties -> Seq(Nat)]] /\ rOut \in [Parties -> [Parties -> Seq(Nat)]]
    BY <1>a DEF Fixed
  <2>12. QED BY <1>b, <1>c, <2>10, <2>11, MovesOver
<1>1. Apart(i)
  BY <1>a, <1>f DEF Apart
<1>2. PartyOK(i)'
  <2>1. Passed(i, "receive", k)
    BY <1>a, <1>o, <1>f DEF Passed, Before, After
  <2>2. Before(i, "receive", k) # <<>>
    BY <1>a DEF Before
  <2>3. QED BY <1>a, <2>1, <2>2, PassedOK
<1>3. \A l, m, q : Sends(l, m, q)' <=> Sends(l, m, q)
  BY <1>a, OperationsStay
<1>4. ~ Received(i, k, o) /\ Received(i, k, o)'
  BY <1>a, <1>o, <1>b, <1>c, <1>f, <1>3 DEF Received
<1>5. ASSUME NEW l \in Parties, NEW q, l # k \/ q # o PROVE Received(i, l, q)' <=> Received(i, l, q)
  BY <1>a, <1>o, <1>f, <1>3, <1>5 DEF Received
<1>6. SameSent(i)
  BY <1>a, <1>3 DEF SameSent, Sent
<1>7. (\A j \in Parties : PartyOK(j))' /\ Served' /\ Ways' /\ Head(wire[d]) = <<k, o>>
  <2> HIDE DEF c, d
  <2>1. QED BY <1>a, <1>o, <1>b, <1>c, <1>e, <1>1, <1>2, <1>4, <1>5, <1>6, Takes DEF TalkInv, d
<1>8. InStep' /\ DOMAIN got' = Parties
  <2>1. Parties' = Parties
    BY <1>a, TeamStays
  <2>2. /\ DOMAIN got' = Parties /\ \A j \in Parties : j # i => got'[j] = got[j]
        /\ got'[i] = got[i] \cup {[op |-> o, k |-> k, message |-> <<k, o>>]}
    BY <1>a, <1>e, <1>7 DEF Fixed
  <2>3. QED BY <2>1, <2>2, GotKeeps DEF TalkInv
<1>9. QED BY <1>a, <1>e, <1>f, <1>7, <1>8, AllKept DEF Fixed

\* Whom a party sends to, and receives from, in an operation with one stream for both.
LEMMA DirectIs ==
    ASSUME Fixed, NEW i \in Parties, StageOK(i), Working(i), Op(i).kind = "inPlace"
    PROVE  /\ talk[i].op \in DOMAIN script /\ Op(i) = script[talk[i].op] /\ team.encrypted
           /\ Peer(i, Op(i).offset) \in Parties /\ Peer(i, Op(i).offset) # i
           /\ Peer(i, team.n - Op(i).offset) \in Parties /\ Peer(i, team.n - Op(i).offset) # i
           /\ \A k \in Parties : /\ Sends(i, k, talk[i].op) <=> k = Peer(i, Op(i).offset)
                                 /\ Sends(k, i, talk[i].op) <=> k = Peer(i, team.n - Op(i).offset)
                                 /\ Channel(i, k, talk[i].op) = 0 /\ Channel(k, i, talk[i].op) = 0
<1> DEFINE h == Op(i).offset
<1>1. talk[i].op \in DOMAIN script /\ Op(i) = script[talk[i].op]
  BY WorkingIs
<1>2. Op(i) \in Operation(team.n) /\ team.encrypted /\ team \in Teams
  BY <1>1, OpIs
<1>3. h \in 1 .. team.n - 1
  BY <1>2, OperationIs
<1> HIDE DEF h
<1>4. team.n - h \in 1 .. team.n - 1
  BY <1>2, <1>3, PeerBack
<1>5. /\ Peer(i, h) \in Parties /\ Peer(i, h) # i
      /\ Peer(i, team.n - h) \in Parties /\ Peer(i, team.n - h) # i
  BY <1>2, <1>3, <1>4, PeerIs
<1>6. ASSUME NEW k \in Parties
      PROVE  /\ Sends(i, k, talk[i].op) <=> k = Peer(i, h)
             /\ Sends(k, i, talk[i].op) <=> k = Peer(i, team.n - h)
             /\ Channel(i, k, talk[i].op) = 0 /\ Channel(k, i, talk[i].op) = 0
  <2>1. i = Peer(k, h) <=> k = Peer(i, team.n - h)
    BY <1>2, <1>3, PeerBack
  <2>2. /\ Sends(i, k, talk[i].op) <=> k # i /\ k = Peer(i, h)
        /\ Sends(k, i, talk[i].op) <=> i # k /\ i = Peer(k, h)
    BY <1>1 DEF Sends, h
  <2>3. Channel(i, k, talk[i].op) = 0 /\ Channel(k, i, talk[i].op) = 0
    BY <1>1 DEF Channel
  <2>4. QED BY <1>5, <2>1, <2>2, <2>3
<1>7. QED BY <1>1, <1>2, <1>5, <1>6 DEF h

\* Sending around the threads.
LEMMA DirectSendKeeps ==
    ASSUME TalkInv, NEW i \in Parties, DirectSend(i)
    PROVE  TalkInv'
<1>o. PICK o : o = talk[i].op
  OBVIOUS
<1>k. PICK k : k = Peer(i, Op(i).offset)
  OBVIOUS
<1> DEFINE d == Way(i, k, 0)
<1>a. /\ Fixed /\ PartyOK(i) /\ StageOK(i) /\ Working(i) /\ pc[Main(i)] = Up
      /\ Op(i).kind = "inPlace" /\ talk[i].stage = "request"
      /\ UNCHANGED <<vars, team, script, sIn, sOut, rIn, rOut, got>>
      /\ talk' = [talk EXCEPT ![i].stage = "direct"]
  BY DEF TalkInv, PartyOK, DirectSend, Working, vars
<1>b. /\ o \in DOMAIN script /\ Op(i) = script[o] /\ team.encrypted
      /\ k \in Parties /\ k # i /\ Sends(i, k, o) /\ 0 = Channel(i, k, o)
      /\ \A l \in Parties : Sends(i, l, o) <=> l = k
      /\ o \in Nat /\ DOMAIN script \subseteq Nat
  BY <1>a, <1>o, <1>k, DirectIs, PartyTypes
<1>d. Direction(i, 0, k) = d /\ d \in DOMAIN wire
  BY <1>a, <1>b, SocketIs, WayIs
<1>e. /\ wire[d] = <<>> /\ wire'[d] = << <<i, o>> >>
      /\ \A e \in DOMAIN wire : e # d => wire'[e] = wire[e]
      /\ wire' \in [Conns \X Parties -> Seq(Parties \X Nat)]
  <2>1. Len(wire[d]) < Room /\ wire' = [wire EXCEPT ![d] = Append(@, Message(i))]
    BY <1>d, <1>k DEF DirectSend
  <2> HIDE DEF d
  <2>2. QED BY <1>a, <1>o, <1>d, <2>1, WirePut
<1>f. /\ talk' \in [Parties -> [op : Nat, stage : {"request", "wait", "direct"}, at : Nat]]
      /\ talk'[i].op = o /\ talk'[i].stage = "direct"
      /\ \A j \in Parties : j # i => talk'[j] = talk[j]
  <2>3. talk' = [talk EXCEPT ![i] = [talk[i] EXCEPT !.stage = "direct"]]
    BY <1>a
  <2>4. talk[i] \in [op : Nat, stage : {"request", "wait", "direct"}, at : Nat]
    BY <1>a, PartyTypes
  <2>5. /\ [talk[i] EXCEPT !.stage = "direct"] \in [op : Nat, stage : {"request", "wait", "direct"}, at : Nat]
        /\ [talk[i] EXCEPT !.stage = "direct"].op = o /\ [talk[i] EXCEPT !.stage = "direct"].stage = "direct"
    BY <1>o, <2>4
  <2>6. QED BY <1>a, <2>3, <2>5 DEF Fixed
<1>g. /\ Parties' = Parties /\ Op(i)' = Op(i)
      /\ \A l, m, q : Sends(l, m, q)' <=> Sends(l, m, q)
  BY <1>a, <1>f, <1>o, OperationsStay DEF Op
<1>1. Apart(i)
  BY <1>a, <1>f DEF Apart
<1>2. PartyOK(i)'
  <2>1. StageOK(i)'
    BY <1>a, <1>o, <1>f, <1>g DEF StageOK, Working
  <2>2. ASSUME NEW z \in {"send", "receive"}, NEW l \in Parties PROVE StreamOK(i, z, l)'
    <3>1. ~ Awaited(i, z, l)'
      BY <1>f DEF Awaited
    <3>2. Before(i, z, l)' = <<>> /\ After(i, z, l)' = <<>>
      BY <1>a, AtRest DEF Before, After
    <3>3. QED BY <3>1, <3>2 DEF StreamOK
  <2>3. QED BY <1>g, <2>1, <2>2 DEF PartyOK
<1>3. ~ Sent(i, k, o) /\ Sent(i, k, o)'
  BY <1>a, <1>o, <1>b, <1>f, <1>g DEF Sent
<1>4. ASSUME NEW l \in Parties, NEW q, l # k \/ q # o PROVE Sent(i, l, q)' <=> Sent(i, l, q)
  BY <1>a, <1>o, <1>b, <1>f, <1>g, <1>4 DEF Sent
<1>5. SameReceived(i)
  BY <1>a, <1>o, <1>f, <1>g DEF SameReceived, Received
<1>6. (\A j \in Parties : PartyOK(j))' /\ Served' /\ Ways'
  <2> HIDE DEF d
  <2>1. QED BY <1>a, <1>b, <1>e, <1>1, <1>2, <1>3, <1>4, <1>5, Puts DEF TalkInv, d
<1>7. InStep' /\ DOMAIN got' = Parties
  BY <1>a, TeamStays DEF TalkInv, InStep, Fixed
<1>8. QED BY <1>a, <1>e, <1>f, <1>6, <1>7, AllKept DEF Fixed

\* Receiving around the threads, which ends the operation.
LEMMA DirectReceiveKeeps ==
    ASSUME TalkInv, NEW i \in Parties, DirectReceive(i)
    PROVE  TalkInv'
<1>o. PICK o : o = talk[i].op
  OBVIOUS
<1>k. PICK k : k = Peer(i, team.n - Op(i).offset)
  OBVIOUS
<1> DEFINE d == Way(k, i, 0)
<1>a. /\ Fixed /\ PartyOK(i) /\ StageOK(i) /\ Working(i) /\ pc[Main(i)] = Up
      /\ talk[i].stage = "direct" /\ Op(i).kind = "inPlace"
      /\ UNCHANGED <<vars, team, script, sIn, sOut, rIn, rOut>>
      /\ talk' = [talk EXCEPT ![i] = [op |-> o + 1, stage |-> "request", at |-> 1]]
  <2>1. /\ Fixed /\ PartyOK(i) /\ Working(i) /\ pc[Main(i)] = Up /\ talk[i].stage = "direct"
        /\ UNCHANGED <<vars, team, script, sIn, sOut, rIn, rOut>> /\ Advance(i)
    BY DEF TalkInv, DirectReceive, Working, vars
  <2>2. StageOK(i) /\ Op(i).kind = "inPlace"
    BY <2>1 DEF PartyOK, StageOK
  <2>3. talk' = [talk EXCEPT ![i] = [op |-> o + 1, stage |-> "request", at |-> 1]]
    BY <1>o, <2>1 DEF Advance
  <2>4. QED BY <2>1, <2>2, <2>3
<1>b. /\ o \in DOMAIN script /\ Op(i) = script[o] /\ team.encrypted
      /\ k \in Parties /\ k # i /\ Sends(k, i, o) /\ 0 = Channel(k, i, o)
      /\ \A l \in Parties : Sends(l, i, o) <=> l = k
      /\ o \in Nat /\ DOMAIN script \subseteq Nat
  BY <1>a, <1>o, <1>k, DirectIs, PartyTypes
<1>d. From(i, 0, k) = d /\ d \in DOMAIN wire
  BY <1>a, <1>b, SocketIs, WayIs
<1>e. /\ wire[d] # <<>> /\ wire'[d] = Tail(wire[d])
      /\ \A e \in DOMAIN wire : e # d => wire'[e] = wire[e]
      /\ wire' \in [Conns \X Parties -> Seq(Parties \X Nat)]
      /\ got' = [got EXCEPT ![i] = @ \cup {[op |-> o, k |-> k, message |-> Head(wire[d])]}]
  <2>5. Receive(i, k, o, d)
    BY <1>o, <1>k, <1>d DEF DirectReceive
  <2>6. /\ wire[d] # <<>> /\ wire' = [wire EXCEPT ![d] = Tail(@)]
        /\ got' = [got EXCEPT ![i] = @ \cup {[op |-> o, k |-> k, message |-> Head(wire[d])]}]
    BY <2>5 DEF Receive
  <2> HIDE DEF d
  <2>7. QED BY <1>a, <1>d, <2>6, WireTaken
<1>f. /\ talk' \in [Parties -> [op : Nat, stage : {"request", "wait", "direct"}, at : Nat]]
      /\ talk'[i] = [op |-> o + 1, stage |-> "request", at |-> 1]
      /\ \A j \in Parties : j # i => talk'[j] = talk[j]
  <2>8. [op |-> o + 1, stage |-> "request", at |-> 1]
        \in [op : Nat, stage : {"request", "wait", "direct"}, at : Nat]
    BY <1>b
  <2>9. QED BY <1>a, <2>8 DEF Fixed
<1>g. /\ Parties' = Parties /\ \A l, m, q : Sends(l, m, q)' <=> Sends(l, m, q)
  BY <1>a, OperationsStay
<1>1. Apart(i)
  BY <1>a, <1>f DEF Apart
<1>2. /\ PartyOK(i)'
      /\ \A l \in Parties : \A q :
           /\ Sent(i, l, q)' <=> q \in DOMAIN script /\ Sends(i, l, q) /\ q <= o
           /\ Received(i, l, q)' <=> q \in DOMAIN script /\ Sends(l, i, q) /\ q <= o
  <2>1. \A l \in Parties : /\ sIn'[i][l] = <<>> /\ sOut'[i][l] = <<>>
                           /\ rIn'[i][l] = <<>> /\ rOut'[i][l] = <<>>
    BY <1>a, AtRest
  <2>2. QED BY <1>a, <1>o, <1>f, <2>1, Advances
<1>3. SameSent(i)
  BY <1>a, <1>o, <1>b, <1>2 DEF SameSent, Sent
<1>4. ~ Received(i, k, o) /\ Received(i, k, o)'
  BY <1>a, <1>o, <1>b, <1>2 DEF Received
<1>5. ASSUME NEW l \in Parties, NEW q, l # k \/ q # o PROVE Received(i, l, q)' <=> Received(i, l, q)
  BY <1>a, <1>o, <1>b, <1>2, <1>5 DEF Received
<1>6. (\A j \in Parties : PartyOK(j))' /\ Served' /\ Ways' /\ Head(wire[d]) = <<k, o>>
  <2> HIDE DEF d
  <2>1. QED BY <1>a, <1>o, <1>b, <1>e, <1>1, <1>2, <1>3, <1>4, <1>5, Takes DEF TalkInv, d
<1>7. InStep' /\ DOMAIN got' = Parties
  <2>1. /\ DOMAIN got' = Parties /\ \A j \in Parties : j # i => got'[j] = got[j]
        /\ got'[i] = got[i] \cup {[op |-> o, k |-> k, message |-> <<k, o>>]}
    BY <1>a, <1>e, <1>6 DEF Fixed
  <2>2. QED BY <1>g, <2>1, GotKeeps DEF TalkInv
<1>8. QED BY <1>a, <1>e, <1>f, <1>6, <1>7, AllKept DEF Fixed

-----------------------------------------------------------------------------
(* The invariant holds.                                                    *)

\* Setting up connections never changes the team.
LEMMA TeamFixed == Next => UNCHANGED team
<1> SUFFICES ASSUME Next PROVE UNCHANGED team
  OBVIOUS
<1>1. ASSUME NEW i \in Parties, PartyStep(i) PROVE UNCHANGED team
  BY <1>1 DEF PartyStep, DialServer, SendHello, Listen, GiveUp, PeerGone
<1>2. ASSUME NEW p \in Threads, ThreadStep(p) PROVE UNCHANGED team
  BY <1>2 DEF ThreadStep, ConnectTo, SendId, GetConnection, Handshake
<1>3. ASSUME NEW i \in Parties \cup {S}, AcceptStep(i) PROVE UNCHANGED team
  BY <1>3 DEF AcceptStep, Accept, Identify
<1>4. ASSUME StartServer \/ ServerGet \/ ServerSend PROVE UNCHANGED team
  BY <1>4 DEF StartServer, ServerGet, ServerSend
<1>5. QED BY <1>1, <1>2, <1>3, <1>4 DEF Next, Settled, vars

\* Nothing of the operations changes while connections are set up.
LEMMA SetUpKeeps ==
    ASSUME TalkInv, StartInv', UNCHANGED <<team, players>>
    PROVE  TalkInv'
<1>a. /\ UNCHANGED <<team, script, talk, sIn, sOut, rIn, rOut, wire, got>>
      /\ Fixed /\ Served /\ Ways /\ InStep /\ \A j \in Parties : PartyOK(j)
  BY DEF players, TalkInv
<1>b. /\ Parties' = Parties /\ Conns' = Conns
      /\ \A i, k, o : (Sends(i, k, o)' <=> Sends(i, k, o)) /\ Channel(i, k, o)' = Channel(i, k, o)
      /\ \A i, op : Calls(i, op)' = Calls(i, op)
      /\ \A i, k, ch : Way(i, k, ch)' = Way(i, k, ch)
  BY <1>a, OperationsStay
<1>1. Fixed'
  BY <1>a, <1>b DEF Fixed
<1>2. /\ \A i, k, o : (Sent(i, k, o)' <=> Sent(i, k, o)) /\ (Received(i, k, o)' <=> Received(i, k, o))
  BY <1>a, <1>b DEF Sent, Received
<1>3. Served'
  BY <1>a, <1>b, <1>2 DEF Served
<1>4. \A i, k, ch, o : Pending(i, k, ch, o)' <=> Pending(i, k, ch, o)
  BY <1>b, <1>2 DEF Pending
<1>5. \A i, k, ch : WayOK(i, k, ch)' <=> WayOK(i, k, ch)
  BY <1>a, <1>b, <1>4 DEF WayOK
<1>6. Ways'
  BY <1>a, <1>b, <1>5 DEF Ways
<1>7. InStep'
  BY <1>a, <1>b DEF InStep
<1>8. ASSUME NEW i \in Parties PROVE PartyOK(i)'
  <2>1. Op(i)' = Op(i)
    BY <1>a DEF Op
  <2>2. Calls(i, Op(i))' = Calls(i, Op(i))
    <3>1. PICK op : op = Op(i) /\ op = Op(i)'
      BY <2>1
    <3>2. Calls(i, op)' = Calls(i, op)
      BY <1>b
    <3>3. QED BY <3>1, <3>2 DEF Calls
  <2>3. StageOK(i)'
    BY <1>a, <2>1, <2>2 DEF StageOK, PartyOK
  <2>4. ASSUME NEW s, NEW k PROVE StreamOK(i, s, k)' <=> StreamOK(i, s, k)
    BY <1>a, <2>1, <2>2 DEF StreamOK, Awaited, Before, After
  <2>5. QED BY <1>a, <1>b, <2>3, <2>4 DEF PartyOK
<1>9. QED BY <1>1, <1>3, <1>6, <1>7, <1>8, <1>b DEF TalkInv

\* The invariant holds at the beginning.
LEMMA InitTalk == PlayerInit => TalkInv
<1> SUFFICES ASSUME PlayerInit PROVE TalkInv
  OBVIOUS
<1>a. StartInv /\ team \in Teams
  BY InitStart DEF PlayerInit, Init
<1>b. /\ talk = [i \in Parties |-> [op |-> 1, stage |-> "request", at |-> 1]]
      /\ sIn = Queues /\ sOut = Queues /\ rIn = Queues /\ rOut = Queues
      /\ wire = [d \in Conns \X Parties |-> <<>>] /\ got = [i \in Parties |-> {}]
  BY DEF PlayerInit, TalkInit
<1>c. Queues \in [Parties -> [Parties -> Seq(Nat)]] /\ \A i, k \in Parties : Queues[i][k] = <<>>
  BY DEF Queues
<1>1. script \in Seq(Operation(team.n)) /\ (script # <<>> => team.encrypted)
  <2> DEFINE O == Operation(team.n)
  <2>1. script \in IF team.encrypted /\ team.threads = 1 THEN Scripts[team.n] ELSE {<<>>}
    BY DEF PlayerInit, TalkInit
  <2>2. team.encrypted => \A s \in Scripts[team.n] : s \in Seq(O)
    BY <1>a, ScriptsAssumption
  <2> HIDE DEF O
  <2>3. CASE team.encrypted /\ team.threads = 1
    BY <2>1, <2>2, <2>3 DEF O
  <2>4. CASE ~ (team.encrypted /\ team.threads = 1)
    <3>1. script = <<>>
      BY <2>1, <2>4
    <3>2. <<>> \in Seq(O)
      OBVIOUS
    <3>3. QED BY <3>1, <3>2 DEF O
  <2>5. QED BY <2>3, <2>4
<1>2. Fixed
  <2>1. talk \in [Parties -> [op : Nat, stage : {"request", "wait", "direct"}, at : Nat]]
    BY <1>b
  <2>2. wire \in [Conns \X Parties -> Seq(Parties \X Nat)]
    <3>1. <<>> \in Seq(Parties \X Nat)
      OBVIOUS
    <3>2. QED BY <1>b, <3>1
  <2>3. QED BY <1>a, <1>b, <1>c, <1>1, <2>1, <2>2 DEF Fixed
<1>3. ASSUME NEW i \in Parties PROVE PartyOK(i)
  <2>1. talk[i].op = 1 /\ talk[i].stage = "request" /\ 1 \in 1 .. Len(script) + 1
    BY <1>2, <1>b, PartyTypes
  <2>2. StageOK(i)
    BY <2>1 DEF StageOK
  <2>3. QED BY <1>b, <1>c, <2>1, <2>2 DEF PartyOK, StreamOK, Awaited, Before, After
<1>4. \A i, k \in Parties : \A o : ~ Sent(i, k, o) /\ ~ Received(i, k, o)
  <2>1. ASSUME NEW i \in Parties PROVE talk[i].op = 1 /\ talk[i].stage = "request"
                                       /\ \A o \in DOMAIN script : ~(o < 1)
    BY <1>2, <1>b, PartyTypes
  <2>2. QED BY <2>1 DEF Sent, Received
<1>5. Served
  BY <1>4 DEF Served
<1>6. Ways
  <2>1. ASSUME NEW i \in Parties, NEW k \in Parties, NEW ch \in {0, 1}, k # i, team.encrypted
        PROVE  WayOK(i, k, ch)
    <3>1. wire[Way(i, k, ch)] = <<>>
      BY <1>2, <1>b, <2>1, WayIs
    <3>2. QED BY <1>4, <3>1 DEF WayOK, Pending
  <2>2. QED BY <2>1 DEF Ways
<1>7. InStep
  BY <1>b DEF InStep
<1>8. QED BY <1>2, <1>3, <1>5, <1>6, <1>7 DEF TalkInv

\* The invariant is kept by every step.
LEMMA NextTalk == TalkInv /\ [PlayerNext]_<<vars, players>> => TalkInv'
<1> SUFFICES ASSUME TalkInv, [PlayerNext]_<<vars, players>> PROVE TalkInv'
  OBVIOUS
<1>a. StartInv
  BY DEF TalkInv, Fixed
<1>1. CASE Next /\ UNCHANGED players
  BY <1>a, <1>1, NextStart, TeamFixed, SetUpKeeps
<1>2. CASE UNCHANGED <<vars, players>>
  <2>1. UNCHANGED vars /\ UNCHANGED players /\ UNCHANGED team
    BY <1>2 DEF vars
  <2>2. QED BY <1>a, <2>1, NextStart, SetUpKeeps
<1>3. ASSUME NEW i \in Parties, MainStep(i) PROVE TalkInv'
  <2>1. CASE Request(i)
    BY <2>1, RequestNothing, RequestStreams
  <2>2. QED BY <1>3, <2>1, WaitForKeeps, DirectSendKeeps, DirectReceiveKeeps DEF MainStep
<1>4. ASSUME NEW i \in Parties, NEW k \in Parties, WorkerStep(i, k) PROVE TalkInv'
  BY <1>4, SenderRunKeeps, ReceiverRunKeeps DEF WorkerStep
<1>5. QED BY <1>1, <1>2, <1>3, <1>4 DEF PlayerNext, TalkNext

\* In every sequence of operations of any number of parties, what a party
\* receives from a peer in an operation is what the peer sent in it, and a wait
\* gets the stream it waits for, whatever the interleaving of main, sending and
\* receiving threads and whoever fails while connecting (CryptoPlayer, Sender,
\* Receiver).
THEOREM AlwaysInStep == PlayerSpec => []TalkInStep
<1>1. TalkInv => TalkInStep
  <2>1. TalkInv => NoMixUp
    <3> SUFFICES ASSUME TalkInv, NEW i \in Parties PROVE talk[i].stage # "threw"
      BY DEF NoMixUp
    <3>1. QED BY PartyTypes DEF TalkInv
  <2>2. QED BY <2>1 DEF TalkInStep, TalkInv
<1>2. QED BY <1>1, InitTalk, NextTalk, PTL DEF PlayerSpec
=============================================================================
