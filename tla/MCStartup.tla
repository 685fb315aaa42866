----------------------------- MODULE MCStartup ------------------------------
(* Setting up the connections, then operations on them.                    *)
EXTENDS ThreadedPlayer

Team(n, t, c, e, o) ==
    [n |-> n, threads |-> t, coordinated |-> c, encrypted |-> e, timeouts |-> o]
MCTeams == {Team(3, 1, TRUE, FALSE, 1), Team(2, 2, FALSE, FALSE, 1), Team(2, 1, TRUE, TRUE, 1)}

(* Three parties with all connections made and the handshakes before them. *)
ReadyTeam == Team(3, 1, FALSE, TRUE, 0)
ReadyInit ==
    /\ team = ReadyTeam
    /\ pc = [p \in Threads |-> At("shake", 0, FirstPeer(p[1]))]
    /\ server = [step |-> "new", k |-> 0]
    /\ listening = Parties
    /\ sent = Threads \X Channels \X Parties
    /\ conn = [c \in Conns |-> IF c \in sent /\ c[1][1] <= c[3] THEN "known" ELSE "none"]
    /\ clients = [i \in Parties \cup {S} |->
                     {[id |-> Id(c), c |-> c] : c \in {x \in Conns : x[3] = i /\ conn[x] = "known"}}]
    /\ used = [i \in Parties \cup {S} |-> {e.id : e \in clients[i]}]
    /\ sockets = [p \in Threads |-> [ch \in Channels |-> [i \in Parties |->
                     IF i < p[1] THEN <<Main(i), ch, p[1]>> ELSE <<p, ch, i>>]]]
    /\ timeouts = 0

MCScripts == [n \in 2..3 |->
    IF n = 2 THEN {<<Broadcast(2), SendTo(1, 0), InPlace(2, 1), PassAround(1)>>,
                   <<SendTo(0, 1), SendTo(0, 1), SendReceiveAll({<<1, 0>>}), Broadcast(2)>>}
    ELSE {<<PassAround(1), Broadcast(3), PassAround(2)>>,
          <<SendReceiveAll({<<0, 1>>, <<2, 0>>, <<2, 1>>}), Broadcast(3), InPlace(3, 1)>>}]

MCInit == (Init \/ ReadyInit) /\ TalkInit
Quiet == AllSettled /\ Finished /\ UNCHANGED <<vars, players>>
MCNext == PlayerNext \/ Quiet
MCSpec == MCInit /\ [][MCNext]_<<vars, players>> /\ Fairness /\ TalkFairness

\* Setting up and all operations come to their end.
Completes == <>[](AllSettled /\ Finished)
=============================================================================
