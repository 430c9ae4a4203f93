----------------------------- MODULE MCLocator -----------------------------
(* Documents of two lines and two columns.                                  *)
EXTENDS Locator

MCPoints == [line : 1..2, column : 1..2]
MCRanges ==
    {r \in [begin : MCPoints, end : MCPoints] : Precedes(r.begin, r.end)}

\* Where a token begins, ended there or (locFromPartial) not at all.
MCMissing ==
    {[begin |-> p, end |-> p] : p \in MCPoints}
        \cup {[begin |-> p, end |-> [line |-> 0, column |-> 0]] : p \in MCPoints}
=============================================================================
