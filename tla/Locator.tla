------------------------------ MODULE Locator ------------------------------
(***************************************************************************)
(* locateNode: which node of a document encloses a position.  The locator  *)
(* starts from the root and visits the nodes below it in preorder; it      *)
(* keeps the first, then each node that has the position and lies within   *)
(* the one it kept, and every astext.Partial, wherever that is.            *)
(*                                                                         *)
(* Of a tree only the preorder of its nodes, their ranges and which of     *)
(* them are Partials matter; nodes are chosen as they are visited.         *)
(***************************************************************************)
EXTENDS Positions, Naturals, Sequences

CONSTANTS
    Points,    \* positions of the document
    Ranges,    \* ranges of what the parser read
    Missing,   \* ranges it gives what is missing
    MaxNodes   \* bound: nodes of the tree

ASSUME PointsAssumption == Points \subseteq Location
ASSUME RangesAssumption == Ranges \cup Missing \subseteq LocationRange
ASSUME MaxNodesAssumption == MaxNodes \in Nat \ {0}

VARIABLES
    loc,            \* the position looked for
    visited,        \* the nodes, in the order of their visits
    enclosingNode   \* the index of the node kept

vars == <<loc, visited, enclosingNode>>

\* The range of a node the desugarer made.
Nowhere == [begin |-> [line |-> 0, column |-> 0], end |-> [line |-> 0, column |-> 0]]

Node == [partial : {FALSE}, range : Ranges \cup {Nowhere}]
            \cup [partial : {TRUE}, range : Missing]

TypeOK ==
    /\ loc \in Points
    /\ visited \in Seq(Node) /\ Len(visited) <= MaxNodes
    /\ enclosingNode \in DOMAIN visited

\* locateNode keeps the root without looking at its range.  (It makes up a
\* Partial for a document without one.)
Init ==
    /\ loc \in Points
    /\ \E root \in Node : visited = <<root>>
    /\ enclosingNode = 1

Kept == visited[enclosingNode]

\* Mutant: any node that has the position is kept.
VisitKeepsLast(a) ==
    /\ Len(visited) < MaxNodes /\ ~visited[1].partial
    /\ visited' = Append(visited, a)
    /\ enclosingNode' = IF a.partial \/ IsInJsonnetRange(loc, a.range)
                          THEN Len(visited') ELSE enclosingNode
    /\ loc' = loc

\* visitNext for the next node of the preorder; a Partial has no children.
\* (enclosingNode is never nil here: locateNode starts from the root.)
VisitNext(a) ==
    /\ Len(visited) < MaxNodes
    /\ ~visited[1].partial
    /\ visited' = Append(visited, a)
    /\ enclosingNode' =
         IF \/ a.partial
            \/ IsInJsonnetRange(loc, a.range) /\ IsRangeSmaller(Kept.range, a.range)
         THEN Len(visited')
         ELSE enclosingNode
    /\ loc' = loc

Next == \E a \in Node : VisitNext(a)

Spec == Init /\ [][Next]_vars
----------------------------------------------------------------------------
(* Properties.                                                             *)

\* A node that has the position.
Has(i) == IsInJsonnetRange(loc, visited[i].range)

\* Every node after the one the locator started from, or last was reset to by a
\* Partial.
LastReset(i) == /\ i = 1 \/ visited[i].partial
                /\ \A k \in DOMAIN visited : visited[k].partial => k <= i

\* The kept node is innermost: since the last Partial no node was visited that
\* has the position and lies strictly within it.
Innermost ==
    \A i \in DOMAIN visited, k \in DOMAIN visited :
        LastReset(i) /\ i < k /\ Has(k) =>
            ~(/\ IsRangeSmaller(Kept.range, visited[k].range)
              /\ ~IsRangeSmaller(visited[k].range, Kept.range))

\* The kept node is the node the locator started from or was reset to, or has
\* the position and lies within that node.
KeptIsWithin ==
    \A i \in DOMAIN visited : LastReset(i) =>
        \/ enclosingNode = i
        \/ /\ enclosingNode > i /\ Has(enclosingNode)
           /\ IsRangeSmaller(visited[i].range, Kept.range)
=============================================================================
