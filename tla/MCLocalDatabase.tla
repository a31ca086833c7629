--------------------------- MODULE MCLocalDatabase ---------------------------
EXTENDS LocalDatabase

Item(id, tool, uii) == [id |-> id, tool |-> tool, uii |-> uii]

\* The tag 1 is given another UII, which was that of the tag 2; the last has no
\* SKU.
MCItems == {Item(1, 1, "x"), Item(1, 1, "y"), Item(2, 2, "y"), Item(3, 2, "z")}
MCNoSKU == {Item(3, 2, "z")}

MCFlatTools == {[id |-> 1, uii |-> "x"]}
=============================================================================
