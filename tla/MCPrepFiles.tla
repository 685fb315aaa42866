---------------------------- MODULE MCPrepFiles ----------------------------
(* Programs and kinds of files for the runs of PrepFiles.                  *)
EXTENDS PrepFiles

TripleAndDabit == <<"triple", "dabit">>
TripleOnly == <<"triple">>

GetOf(x) == [do |-> "get", k |-> x, t |-> 0, n |-> 0]
TapeOn(u, x, m) == [do |-> "tape", k |-> x, t |-> u, n |-> m]
JoinOf(u) == [do |-> "join", k |-> "triple", t |-> u, n |-> 0]

UpTo(n, S) == UNION {[1 .. m -> S] : m \in 1 .. n}

\* Main tapes that start no others.
Gets3 == UpTo(3, {GetOf(Kinds[i]) : i \in DOMAIN Kinds})

\* Tapes are joined after they were started and before they are started again.
Balanced(q) ==
    \A u \in {1, 2} :
        LET tape == {i \in DOMAIN q : q[i].t = u /\ q[i].do = "tape"}
            join == {i \in DOMAIN q : q[i].t = u /\ q[i].do = "join"}
        IN /\ Cardinality(tape) = Cardinality(join)
           /\ \A m \in DOMAIN q :
                 Cardinality({i \in tape : i <= m}) - Cardinality({i \in join : i <= m})
                     \in {0, 1}

\* Main tapes with up to n instructions that start tapes on the threads of T.
WithTapes(n, T) ==
    {q \in UpTo(n, {GetOf("triple")} \cup {TapeOn(u, "triple", m) : u \in T, m \in {0, 1}}
                   \cup {JoinOf(u) : u \in T}) : Balanced(q)}

OneHelper ==
    WithTapes(3, {1})
    \cup {<<TapeOn(1, "triple", 1), JoinOf(1), TapeOn(1, "triple", 1), JoinOf(1)>>}
GetsOrTapes == Gets3 \cup OneHelper
TwoTapes == {<<TapeOn(1, "triple", 1), TapeOn(2, "triple", 1), JoinOf(1), JoinOf(2)>>}
TwoGets == {<<GetOf("triple"), GetOf("triple")>>}
=============================================================================
