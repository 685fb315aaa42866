----------------------------- MODULE MCExchange -----------------------------
(* Operations for the runs of Exchange, between three parties.             *)
EXTENDS Exchange

Op(kind, d, channels, inPlace, len) ==
    [kind |-> kind, offset |-> d, channels |-> channels, inPlace |-> inPlace,
     length |-> len]

Others == {c \in Party \X Party : c[1] # c[2]}
ZeroAndOne == {<<0, 1>>, <<1, 0>>}

\* Lengths: of all parties, and of the first two alone.
AnyOf(S) == [Party -> S]
AllThe(n) == [p \in Party |-> n]
OfPair(S) == {[p \in Party |-> IF p = 2 THEN 0 ELSE f[p]] : f \in [0 .. 1 -> S]}

\* Two parties exchanging with one stream, then with two, or the other way.
Pairs(S) ==
    {<<Op("exchange", 0, ZeroAndOne, b, f), Op("exchange", 0, ZeroAndOne, ~b, g)>> :
        b \in BOOLEAN, f \in OfPair(S), g \in OfPair(S)}

\* All parties passing around twice, with two streams.
Rings(S) ==
    {<<Op("pass", 1, {}, FALSE, f), Op("pass", d, {}, FALSE, g)>> :
        d \in 1 .. 2, f \in AnyOf(S), g \in AnyOf(S)}

\* The same with one stream in one of them or both.
InPlaceRings(L) ==
    {<<Op("pass", 1, {}, TRUE, f), Op("pass", d, {}, b, g)>> :
        d \in 1 .. 2, b \in BOOLEAN, f \in L, g \in L}

\* Whoever may send to whomever.
Matrices(L) == {<<Op("all", 0, c, FALSE, f)>> : c \in SUBSET Others, f \in L}

\* All broadcast, then pass on.
Broadcasts(L) ==
    {<<Op("broadcast", 0, {}, FALSE, f), Op("pass", 1, {}, FALSE, f)>> : f \in L}

AllScripts ==
    Pairs({0, 1, 3}) \cup Rings({0, 3}) \cup InPlaceRings({AllThe(n) : n \in {0, 1, 3}})
    \cup Matrices({AllThe(3)}) \cup Broadcasts({AllThe(2)})

InPlacePair == {<<Op("exchange", 0, ZeroAndOne, TRUE, f)>> : f \in OfPair(0 .. 3)}
UnequalRings == InPlaceRings(AnyOf({1, 3}))
=============================================================================
