--------------------------- MODULE ObliviousArray ---------------------------
(***************************************************************************)
(* What every oblivious RAM of the compiler promises: an array whose       *)
(* accesses read the cell, tell whether it was empty and, when writing,    *)
(* fill it or empty it (Compiler/oram.py AbstractORAM.access).             *)
(***************************************************************************)
CONSTANTS Items,    \* indices
          Values    \* what a cell can hold

VARIABLES cells,    \* the array
          result    \* what the last access has returned

Nothing == "nothing"

Init == /\ cells = [u \in Items |-> Nothing]
        /\ result = Nothing

\* One access: write says whether the cell is replaced by x, which is
\* Nothing for a deletion.
Access(u, write, x) ==
    /\ result' = cells[u]
    /\ cells' = IF write THEN [cells EXCEPT ![u] = x] ELSE cells

Next == \E u \in Items, write \in BOOLEAN, x \in Values \cup {Nothing} : Access(u, write, x)

Spec == Init /\ [][Next]_<<cells, result>>
=============================================================================
