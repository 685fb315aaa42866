------------------------------ MODULE Connect ------------------------------
(***************************************************************************)
(* How the parties find and connect to each other (Networking: Server,     *)
(* Names, ServerSocket, sockets.cpp, MultiPlayer::setup_sockets and the    *)
(* constructor of CryptoPlayer).                                           *)
(*                                                                         *)
(* Every party has a main thread 0 and possibly further threads; each      *)
(* thread builds a player of its own over the party's one server socket.   *)
(* With coordination the main thread first reports to the server thread of *)
(* party 0 and waits for the names of all.  Then the party listens, and    *)
(* every thread connects to itself and to every higher party and waits for *)
(* every lower one, once per channel; an encrypted player has two channels *)
(* and then runs a handshake per peer and channel.  A connection is one    *)
(* TCP stream; the accept thread of the listening side reads the id the    *)
(* connecting side sends first, or leaves that to a thread of its own.     *)
(*                                                                         *)
(* Time is not modelled: a timeout may happen whenever what is waited for  *)
(* is not there, at most team.timeouts times.                              *)
(***************************************************************************)
EXTENDS Integers, FiniteSets

CONSTANTS Teams   \* what is set up: see team

\* id_base is thread_num << 16, for the second channel + num_players.
Shift == 65536

ASSUME TeamsAssumption ==
    /\ Teams \subseteq [n : Nat \ {0}, threads : Nat \ {0}, coordinated : BOOLEAN,
                        encrypted : BOOLEAN, timeouts : Nat]
    /\ \A x \in Teams : 2 * x.n <= Shift

VARIABLES team,          \* n parties, threads of each, coordinated, encrypted, timeouts
          pc,            \* of every thread
          server,        \* the server thread of party 0
          listening,     \* who listens, S for the coordination server
          conn,          \* the stage of every connection
          sent,          \* the connections whose id is on its way
          clients,       \* ServerSocket::clients: id to connection
          used,          \* ServerSocket::used
          sockets,       \* MultiPlayer::sockets by thread, channel and peer
          timeouts

vars == <<team, pc, server, listening, conn, sent, clients, used, sockets, timeouts>>

Parties == 0..(team.n - 1)
Threads == Parties \X (0..(team.threads - 1))
Main(i) == <<i, 0>>
Channels == IF team.encrypted THEN {0, 1} ELSE {0}
None == <<>>

\* A connection by its origin, its channel and its target; the connection
\* to the coordination server has channel 2 and target -1.
S == -1
Conns == (Threads \X Channels \X Parties) \cup ({Main(i) : i \in Parties} \X {2} \X {S})

\* What a player of thread t sends first, and its party after it.
IdBase(t, ch) == Shift * t + ch * team.n
Id(c) == IF c[3] = S THEN c[1][1] ELSE IdBase(c[1][2], c[2]) + c[1][1]

At(step, ch, k) == [step |-> step, ch |-> ch, k |-> k]
Go(p, next) == pc' = [pc EXCEPT ![p] = next]
Failed == At("failed", 0, 0)
Up == At("up", 0, 0)
Alive(i) == \A p \in Threads : p[1] = i => pc[p] # Failed

\* A thread that throws ends its whole process.
Die(i) == /\ pc' = [p \in Threads |-> IF p[1] = i THEN Failed ELSE pc[p]]
          /\ listening' = listening \ (IF i = 0 THEN {0, S} ELSE {i})
          /\ server' = IF i = 0 THEN [step |-> "closed", k |-> 0] ELSE server

Init ==
    /\ team \in Teams
    /\ pc = [p \in Threads |-> IF p[2] # 0 THEN At("idle", 0, 0)
                               ELSE IF team.coordinated THEN At("dial", 0, 0)
                               ELSE At("listen", 0, 0)]
    /\ server = [step |-> "new", k |-> 0]
    /\ listening = {}
    /\ conn = [c \in Conns |-> "none"]
    /\ sent = {}
    /\ clients = [i \in Parties \cup {S} |-> {}]
    /\ used = [i \in Parties \cup {S} |-> {}]
    /\ sockets = [p \in Threads |-> [ch \in Channels |-> [i \in Parties |-> None]]]
    /\ timeouts = 0

(***************************************************************************)
(* ServerSocket.                                                           *)
(***************************************************************************)
\* process_connection: a later connection with the same id replaces the entry.
Register(c) ==
    clients' = [clients EXCEPT ![c[3]] = {e \in @ : e.id # Id(c)} \cup {[id |-> Id(c), c |-> c]}]

\* accept_clients: the id is there, or the connection gets a thread.
Accept(c) ==
    /\ conn[c] = "queued"
    /\ IF c \in sent THEN /\ conn' = [conn EXCEPT ![c] = "known"]
                          /\ Register(c)
       ELSE /\ conn' = [conn EXCEPT ![c] = "deferred"]
            /\ UNCHANGED clients
    /\ UNCHANGED <<team, pc, server, listening, sent, used, sockets, timeouts>>

\* wait_for_client_id in the thread of ServerJob.
Identify(c) ==
    /\ conn[c] = "deferred"
    /\ c \in sent
    /\ conn' = [conn EXCEPT ![c] = "known"]
    /\ Register(c)
    /\ UNCHANGED <<team, pc, server, listening, sent, used, sockets, timeouts>>

(* Mutant: any client that has come.                                       *)
OfferedAny(i, id) == {e.c : e \in clients[i]}

\* get_connection_socket: the entry of the id, once.
Offered(i, id) == {e.c : e \in {x \in clients[i] : x.id = id}}
AlreadyUsed(i, id) == id \in used[i]

(***************************************************************************)
(* The coordination server and its clients.                                *)
(***************************************************************************)
NamesConn(i) == <<Main(i), 2, S>>

\* Server::start: the server thread of party 0 opens its socket; who dials it
\* before tries again.
StartServer ==
    /\ team.coordinated
    /\ server.step = "new"
    /\ server' = [step |-> "wait", k |-> 0]
    /\ listening' = listening \cup {S}
    /\ UNCHANGED <<team, pc, conn, sent, clients, used, sockets, timeouts>>

\* Names::setup_names: connect, then send number, name and port.
DialServer(i) ==
    /\ pc[Main(i)].step = "dial"
    /\ S \in listening
    /\ conn' = [conn EXCEPT ![NamesConn(i)] = "queued"]
    /\ Go(Main(i), At("hello", 0, 0))
    /\ UNCHANGED <<team, server, listening, sent, clients, used, sockets, timeouts>>

SendHello(i) ==
    /\ pc[Main(i)].step = "hello"
    /\ sent' = sent \cup {NamesConn(i)}
    /\ Go(Main(i), At("names", 0, 0))
    /\ UNCHANGED <<team, server, listening, conn, clients, used, sockets, timeouts>>

\* Then it asks for connections in the order of the parties, ...
ServerGet ==
    LET k == server.k IN
    /\ server.step = "wait"
    /\ ~ AlreadyUsed(S, k)
    /\ Offered(S, k) # {}
    /\ used' = [used EXCEPT ![S] = @ \cup {k}]
    /\ server' = IF k = team.n - 1 THEN [step |-> "send", k |-> 0]
                 ELSE [step |-> "wait", k |-> k + 1]
    /\ UNCHANGED <<team, pc, listening, conn, sent, clients, sockets, timeouts>>

\* ... then all names to every party in turn, which starts listening.
ServerSend ==
    LET k == server.k IN
    /\ server.step = "send"
    /\ pc' = IF pc[Main(k)].step = "names"
             THEN [pc EXCEPT ![Main(k)] = At("listen", 0, 0)] ELSE pc
    /\ server' = IF k = team.n - 1 THEN [step |-> "closed", k |-> 0]
                 ELSE [step |-> "send", k |-> k + 1]
    /\ listening' = IF k = team.n - 1 THEN listening \ {S} ELSE listening
    /\ UNCHANGED <<team, conn, sent, clients, used, sockets, timeouts>>

\* Names::setup_server; the other threads start with the names complete.
Listen(i) ==
    /\ pc[Main(i)].step = "listen"
    /\ listening' = listening \cup {i}
    /\ pc' = [p \in Threads |-> IF p[1] = i THEN At("connect", 0, i) ELSE pc[p]]
    /\ UNCHANGED <<team, server, conn, sent, clients, used, sockets, timeouts>>

(***************************************************************************)
(* MultiPlayer::setup_sockets, for one channel after the other.            *)
(***************************************************************************)
\* set_up_client_socket: repeated while the target does not listen.
ConnectTo(p) ==
    LET ch == pc[p].ch
        k == pc[p].k
        c == <<p, ch, k>>
    IN  /\ pc[p].step = "connect"
        /\ k \in listening
        /\ conn' = [conn EXCEPT ![c] = "queued"]
        /\ sockets' = [sockets EXCEPT ![p][ch][k] = c]
        /\ Go(p, At("ident", ch, k))
        /\ UNCHANGED <<team, server, listening, sent, clients, used, timeouts>>

SendId(p) ==
    LET ch == pc[p].ch
        k == pc[p].k
    IN  /\ pc[p].step = "ident"
        /\ sent' = sent \cup {<<p, ch, k>>}
        /\ Go(p, IF k < team.n - 1 THEN At("connect", ch, k + 1) ELSE At("accept", ch, 0))
        /\ UNCHANGED <<team, server, listening, conn, clients, used, sockets, timeouts>>

(* Mutant: every party begins with the one after it.                       *)
FirstPeerNext(i) == (i + 1) % team.n
FirstPeer(i) == IF i = 0 THEN 1 ELSE 0
\* What follows the last channel: the handshakes of an encrypted player.
AfterAccept(p, ch) ==
    IF ch + 1 \in Channels THEN At("connect", ch + 1, p[1])
    ELSE IF team.encrypted /\ team.n > 1 THEN At("shake", 0, FirstPeer(p[1])) ELSE Up

GetConnection(p) ==
    LET i == p[1]
        ch == pc[p].ch
        k == pc[p].k
        id == IdBase(p[2], ch) + k
    IN  /\ pc[p].step = "accept"
        /\ IF AlreadyUsed(i, id)
           THEN /\ Die(i)
                /\ UNCHANGED <<used, sockets>>
           ELSE \E c \in Offered(i, id) :
                  /\ sockets' = [sockets EXCEPT ![p][ch][k] = c]
                  /\ used' = [used EXCEPT ![i] = @ \cup {id}]
                  /\ Go(p, IF k < i THEN At("accept", ch, k + 1) ELSE AfterAccept(p, ch))
                  /\ UNCHANGED <<server, listening>>
        /\ UNCHANGED <<team, conn, sent, clients, timeouts>>

(***************************************************************************)
(* CryptoPlayer: a handshake needs both ends of one connection at once.    *)
(* The higher party is the TLS client.                                     *)
(***************************************************************************)
NextShake(p) ==
    LET next == {k \in Parties : k > pc[p].k /\ k # p[1]}
    IN  IF pc[p].ch = 0 THEN At("shake", 1, pc[p].k)
        ELSE IF next = {} THEN Up
        ELSE At("shake", 0, CHOOSE k \in next : \A l \in next : k <= l)

Handshake(p, q) ==
    /\ p[1] < q[1]
    /\ pc[p].step = "shake" /\ pc[q].step = "shake"
    /\ \E ch \in Channels :
         /\ pc[p] = At("shake", ch, q[1])
         /\ pc[q] = At("shake", ch, p[1])
         /\ sockets[p][ch][q[1]] = sockets[q][ch][p[1]]
    /\ pc' = [pc EXCEPT ![p] = NextShake(p), ![q] = NextShake(q)]
    /\ UNCHANGED <<team, server, listening, conn, sent, clients, used, sockets, timeouts>>

(***************************************************************************)
(* Failures.  A handshake with a process that has ended fails, and so does *)
(* the wait for names.                                                     *)
(***************************************************************************)
\* No connection, or no client, after one minute.
Waiting(p) == \/ pc[p].step = "dial" /\ S \notin listening
              \/ pc[p].step = "connect" /\ pc[p].k \notin listening
              \/ pc[p].step = "accept" /\ Offered(p[1], IdBase(p[2], pc[p].ch) + pc[p].k) = {}
ServerWaiting == server.step = "wait" /\ Offered(S, server.k) = {}
Hopeless(p) == \/ pc[p].step = "dial" /\ server.step = "closed"
               \/ pc[p].step = "connect" /\ ~ Alive(pc[p].k)
               \/ pc[p].step = "accept" /\ ~ Alive(pc[p].k)

GiveUp(i) ==
    /\ Alive(i)
    /\ \/ \E p \in Threads : p[1] = i /\ Waiting(p) /\ (Hopeless(p) \/ timeouts < team.timeouts)
       \/ i = 0 /\ ServerWaiting
            /\ (timeouts < team.timeouts \/ ~ Alive(server.k))
    /\ timeouts' = IF timeouts < team.timeouts THEN timeouts + 1 ELSE timeouts
    /\ Die(i)
    /\ UNCHANGED <<team, conn, sent, clients, used, sockets>>

PeerGone(i) ==
    /\ Alive(i)
    /\ \/ \E p \in Threads : p[1] = i /\ pc[p].step = "shake" /\ ~ Alive(pc[p].k)
       \/ pc[Main(i)].step \in {"hello", "names"} /\ server.step = "closed"
       \/ i = 0 /\ server.step = "send" /\ ~ Alive(server.k)
    /\ Die(i)
    /\ UNCHANGED <<team, conn, sent, clients, used, sockets, timeouts>>

PartyStep(i) == DialServer(i) \/ SendHello(i) \/ Listen(i) \/ GiveUp(i) \/ PeerGone(i)
ThreadStep(p) == ConnectTo(p) \/ SendId(p) \/ GetConnection(p)
                 \/ \E q \in Threads : q[2] = p[2] /\ (Handshake(p, q) \/ Handshake(q, p))
AcceptStep(i) == \E c \in Conns : c[3] = i /\ (Accept(c) \/ Identify(c))

AllSettled == \A p \in Threads : pc[p] \in {Up, Failed}
Settled == AllSettled /\ UNCHANGED vars

Next == \/ \E i \in Parties : PartyStep(i)
        \/ \E p \in Threads : ThreadStep(p)
        \/ \E i \in Parties \cup {S} : AcceptStep(i)
        \/ StartServer \/ ServerGet \/ ServerSend
        \/ Settled

\* Every thread, the accept threads and the kernel's timeouts make progress.
Fairness == /\ \A i \in 0..2 : WF_vars(i \in Parties /\ PartyStep(i))
            /\ \A p \in (0..2) \X (0..1) : WF_vars(p \in Threads /\ ThreadStep(p))
            /\ \A i \in -1..2 : WF_vars(i \in Parties \cup {S} /\ AcceptStep(i))
            /\ WF_vars(StartServer \/ ServerGet \/ ServerSend)

Spec == Init /\ [][Next]_vars /\ Fairness

\* The sockets two connected threads hold for each other are the two ends of
\* one connection, one per channel, also where threads set up their players
\* concurrently over one server socket (MultiPlayer::setup_sockets).
Matched ==
    \A p \in Threads, q \in Threads :
        (pc[p] = Up /\ pc[q] = Up /\ p[2] = q[2] /\ p[1] < q[1]) =>
            \A ch \in Channels : /\ sockets[p][ch][q[1]] = <<p, ch, q[1]>>
                                 /\ sockets[q][ch][p[1]] = <<p, ch, q[1]>>

\* Without a timeout nobody fails: no id is asked for twice and no handshake
\* meets a process that has ended.
NoFailure == timeouts = 0 => \A p \in Threads : pc[p] # Failed

\* Both ends of a connection are the two parties' sockets for each other's
\* thread, and without a timeout nobody fails (Player::setup_sockets,
\* ServerSocket::get_connection_socket).
Connected == Matched /\ NoFailure

=============================================================================
