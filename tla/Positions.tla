----------------------------- MODULE Positions -----------------------------
(***************************************************************************)
(* Positions and ranges of a document: package position, and how token's   *)
(* locator compares ranges.  Lines and columns count from 1; a node the     *)
(* desugarer made has line 0 and column 0.                                 *)
(***************************************************************************)
EXTENDS Integers

Location == [line : Int, column : Int]
LocationRange == [begin : Location, end : Location]

\* Position.IsInJsonnetRange, one disjunct for each of its conditions.
IsInJsonnetRange(p, r) ==
    \/ /\ r.begin.line = p.line /\ p.line = r.end.line
       /\ r.begin.column <= p.column /\ p.column <= r.end.column
    \/ /\ r.begin.line < p.line /\ p.line = r.end.line
       /\ p.column <= r.end.column
    \/ /\ r.begin.line = p.line /\ p.line < r.end.line
       /\ p.column >= r.begin.column
    \/ r.begin.line < p.line /\ p.line < r.end.line

BeforeRangeOrEqual(l, r) ==
    \/ l.line < r.begin.line
    \/ l.line = r.begin.line /\ l.column <= r.begin.column

AfterRangeOrEqual(l, r) ==
    \/ l.line > r.end.line
    \/ l.line = r.end.line /\ l.column >= r.end.column

\* isRangeSmaller(r1, r2): r2 lies within r1.
IsRangeSmaller(r1, r2) ==
    BeforeRangeOrEqual(r1.begin, r2) /\ AfterRangeOrEqual(r1.end, r2)

\* The order of positions in a document.
Precedes(a, b) == a.line < b.line \/ (a.line = b.line /\ a.column <= b.column)
=============================================================================
