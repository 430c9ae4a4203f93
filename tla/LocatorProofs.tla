--------------------------- MODULE LocatorProofs ---------------------------
(***************************************************************************)
(* For every document and every position, the locator keeps an innermost   *)
(* node.  The comparison of ranges is transitive, so a node that is not    *)
(* within a kept node is not within any node kept after it: what a visit   *)
(* rejects never has to be looked at again.                                *)
(***************************************************************************)
EXTENDS Locator, SequenceTheorems, TLAPS

\* The four cases of IsInJsonnetRange say that the position lies between the
\* ends of the range, in the order of the document.
THEOREM InRangeIsBetween ==
    ASSUME NEW p \in Location, NEW r \in LocationRange
    PROVE  IsInJsonnetRange(p, r) <=> Precedes(r.begin, p) /\ Precedes(p, r.end)
BY DEF IsInJsonnetRange, Precedes, Location, LocationRange

LEMMA SmallerReflexive ==
    ASSUME NEW r \in LocationRange
    PROVE  IsRangeSmaller(r, r)
BY DEF IsRangeSmaller, BeforeRangeOrEqual, AfterRangeOrEqual, Location, LocationRange

LEMMA SmallerTransitive ==
    ASSUME NEW r \in LocationRange, NEW s \in LocationRange, NEW t \in LocationRange,
           IsRangeSmaller(r, s), IsRangeSmaller(s, t)
    PROVE  IsRangeSmaller(r, t)
BY DEF IsRangeSmaller, BeforeRangeOrEqual, AfterRangeOrEqual, Location, LocationRange

\* A range has every position of a range that lies within it.
THEOREM SmallerKeepsPositions ==
    ASSUME NEW p \in Location, NEW r \in LocationRange, NEW s \in LocationRange,
           IsRangeSmaller(r, s), IsInJsonnetRange(p, s)
    PROVE  IsInJsonnetRange(p, r)
BY DEF IsRangeSmaller, BeforeRangeOrEqual, AfterRangeOrEqual, IsInJsonnetRange,
       Location, LocationRange

----------------------------------------------------------------------------
IInv == TypeOK /\ Innermost /\ KeptIsWithin

LEMMA NodeRange ==
    ASSUME NEW a \in Node
    PROVE  a.range \in LocationRange
<1>1. Nowhere \in LocationRange
  BY DEF Nowhere, LocationRange, Location
<1> QED
  BY <1>1, RangesAssumption DEF Node

LEMMA RangeTyped ==
    ASSUME TypeOK
    PROVE  /\ \A i \in DOMAIN visited : visited[i] \in Node /\ visited[i].range \in LocationRange
           /\ Kept.range \in LocationRange
           /\ DOMAIN visited = 1..Len(visited) /\ Len(visited) \in Nat
           /\ enclosingNode \in 1..Len(visited)
<1>3. DOMAIN visited = 1..Len(visited) /\ Len(visited) \in Nat
  BY LenProperties DEF TypeOK
<1>4. \A i \in 1..Len(visited) : visited[i] \in Node
  BY ElementOfSeq DEF TypeOK
<1> QED
  BY <1>3, <1>4, NodeRange DEF TypeOK, Kept

LEMMA InitHolds == Init => IInv
<1> SUFFICES ASSUME Init PROVE IInv
  OBVIOUS
<1>1. PICK root \in Node : visited = <<root>>
  BY DEF Init
<1>2. visited \in Seq(Node) /\ Len(visited) = 1 /\ DOMAIN visited = 1..1
  BY <1>1
<1>3. TypeOK
  BY <1>2, MaxNodesAssumption DEF Init, TypeOK
<1>4. Innermost /\ KeptIsWithin
  BY <1>2 DEF Init, Innermost, KeptIsWithin, LastReset
<1> QED
  BY <1>3, <1>4 DEF IInv

\* What a visit does to the sequence of nodes.
LEMMA Visited ==
    ASSUME TypeOK, NEW a \in Node, VisitNext(a), NEW N, N = Len(visited) + 1
    PROVE  /\ TypeOK'
           /\ N \in Nat /\ DOMAIN visited' = 1..N /\ Len(visited') = N
           /\ DOMAIN visited = 1..N-1
           /\ visited'[N] = a /\ a.range \in LocationRange
           /\ \A i \in 1..N-1 : visited'[i] = visited[i]
           /\ loc' = loc
<1>1. /\ visited' \in Seq(Node) /\ Len(visited') = N /\ visited'[N] = a
      /\ \A i \in 1..N-1 : visited'[i] = visited[i]
  BY AppendProperties, RangeTyped DEF TypeOK, VisitNext
<1>2. DOMAIN visited' = 1..N /\ N \in Nat /\ DOMAIN visited = 1..N-1
  BY <1>1, LenProperties, RangeTyped
<1>3. TypeOK'
  BY <1>1, <1>2, RangeTyped, MaxNodesAssumption DEF TypeOK, VisitNext
<1>4. a.range \in LocationRange
  BY NodeRange
<1> QED
  BY <1>1, <1>2, <1>3, <1>4 DEF VisitNext

LEMMA VisitKeeps ==
    ASSUME IInv, NEW a \in Node, VisitNext(a)
    PROVE  IInv'
<1>0. PICK N \in Nat : N = Len(visited) + 1
  BY RangeTyped DEF IInv
<1>1. /\ TypeOK /\ TypeOK'
      /\ N \in Nat /\ DOMAIN visited' = 1..N /\ Len(visited') = N
      /\ DOMAIN visited = 1..N-1
      /\ visited'[N] = a /\ a.range \in LocationRange
      /\ \A i \in 1..N-1 : visited'[i] = visited[i]
      /\ loc' = loc
  BY <1>0, Visited DEF IInv
<1>2. /\ enclosingNode \in 1..N-1 /\ Kept.range \in LocationRange
      /\ \A i \in 1..N-1 : visited[i].range \in LocationRange
  BY <1>1, RangeTyped
<1>3. \A k \in 1..N-1 : Has(k)' <=> Has(k)
  BY <1>1 DEF Has
<1>4. CASE a.partial
  <2>1. enclosingNode' = N
    BY <1>1, <1>4 DEF VisitNext
  <2>2. \A i \in 1..N : LastReset(i)' => i = N
    BY <1>1, <1>4 DEF LastReset
  <2>3. Innermost' /\ KeptIsWithin'
    BY <1>1, <2>1, <2>2 DEF Innermost, KeptIsWithin
  <2> QED
    BY <1>1, <2>3 DEF IInv
<1>5. CASE ~a.partial
  <2>1. \A i \in 1..N : LastReset(i)' => i \in 1..N-1 /\ LastReset(i)
    <3> SUFFICES ASSUME NEW i \in 1..N, LastReset(i)'
                 PROVE  i \in 1..N-1 /\ LastReset(i)
      OBVIOUS
    <3>1. i # N
      BY <1>1, <1>2, <1>5 DEF LastReset
    <3> QED
      BY <3>1, <1>1 DEF LastReset
  <2>2. CASE Has(N)' /\ IsRangeSmaller(Kept.range, a.range)
    <3>1. enclosingNode' = N /\ Kept' = a
      BY <1>1, <2>2 DEF VisitNext, Has, Kept
    <3>2. Innermost'
      <4> SUFFICES ASSUME NEW i \in 1..N, NEW k \in 1..N, LastReset(i)', i < k, Has(k)',
                          IsRangeSmaller(a.range, visited'[k].range)
                   PROVE  IsRangeSmaller(visited'[k].range, a.range)
        BY <1>1, <3>1 DEF Innermost
      <4>1. CASE k = N
        BY <4>1, <1>1, SmallerReflexive
      <4>2. CASE k # N
        <5>1. k \in 1..N-1 /\ i \in 1..N-1 /\ LastReset(i) /\ Has(k)
              /\ visited'[k] = visited[k]
          BY <4>2, <2>1, <1>1, <1>3
        <5>2. IsRangeSmaller(Kept.range, visited[k].range)
          BY <5>1, <2>2, <1>1, <1>2, SmallerTransitive
        <5>3. IsRangeSmaller(visited[k].range, Kept.range)
          BY <5>1, <5>2, <1>1 DEF IInv, Innermost
        <5> QED
          BY <5>1, <5>3, <2>2, <1>1, <1>2, SmallerTransitive
      <4> QED
        BY <4>1, <4>2
    <3>3. KeptIsWithin'
      <4> SUFFICES ASSUME NEW i \in 1..N, LastReset(i)'
                   PROVE  i < N /\ IsRangeSmaller(visited'[i].range, a.range)
        BY <1>1, <2>2, <3>1 DEF KeptIsWithin, Has, Kept
      <4>1. i \in 1..N-1 /\ LastReset(i) /\ visited'[i] = visited[i]
        BY <2>1, <1>1
      <4>2. IsRangeSmaller(visited[i].range, Kept.range)
        <5>1. \/ enclosingNode = i
              \/ IsRangeSmaller(visited[i].range, Kept.range)
          BY <4>1, <1>1 DEF IInv, KeptIsWithin
        <5> QED
          BY <5>1, <1>2, SmallerReflexive DEF Kept
      <4> QED
        BY <4>1, <4>2, <2>2, <1>1, <1>2, SmallerTransitive
    <3> QED
      BY <1>1, <3>2, <3>3 DEF IInv
  <2>3. CASE ~(Has(N)' /\ IsRangeSmaller(Kept.range, a.range))
    <3>1. enclosingNode' = enclosingNode /\ Kept' = Kept
      BY <1>1, <1>2, <1>5, <2>3 DEF VisitNext, Has, Kept
    <3>2. Innermost'
      <4> SUFFICES ASSUME NEW i \in 1..N, NEW k \in 1..N, LastReset(i)', i < k, Has(k)',
                          IsRangeSmaller(Kept.range, visited'[k].range)
                   PROVE  IsRangeSmaller(visited'[k].range, Kept.range)
        BY <1>1, <3>1 DEF Innermost
      <4>1. k # N
        BY <2>3, <1>1
      <4>2. k \in 1..N-1 /\ i \in 1..N-1 /\ LastReset(i) /\ Has(k)
            /\ visited'[k] = visited[k]
        BY <4>1, <2>1, <1>1, <1>3
      <4> QED
        BY <4>2, <1>1 DEF IInv, Innermost
    <3>3. KeptIsWithin'
      <4> SUFFICES ASSUME NEW i \in 1..N, LastReset(i)'
                   PROVE  \/ enclosingNode = i
                          \/ /\ enclosingNode > i /\ IsInJsonnetRange(loc, Kept.range)
                             /\ IsRangeSmaller(visited'[i].range, Kept.range)
        BY <1>1, <1>2, <3>1 DEF KeptIsWithin, Has, Kept
      <4>1. i \in 1..N-1 /\ LastReset(i) /\ visited'[i] = visited[i]
        BY <2>1, <1>1
      <4> QED
        BY <4>1, <1>1 DEF IInv, KeptIsWithin, Has, Kept
    <3> QED
      BY <1>1, <3>2, <3>3 DEF IInv
  <2> QED
    BY <2>2, <2>3
<1> QED
  BY <1>4, <1>5

LEMMA StepKeeps == IInv /\ [Next]_vars => IInv'
<1> SUFFICES ASSUME IInv, [Next]_vars PROVE IInv'
  OBVIOUS
<1>1. CASE Next
  BY <1>1, VisitKeeps DEF Next
<1>2. CASE UNCHANGED vars
  BY <1>2 DEF vars, IInv, TypeOK, Innermost, KeptIsWithin, LastReset, Has, Kept
<1> QED
  BY <1>1, <1>2

\* Every variable of the locator keeps its type.
THEOREM TypeCorrect == Spec => []TypeOK
<1>1. IInv => TypeOK
  BY DEF IInv
<1> QED
  BY <1>1, InitHolds, StepKeeps, PTL DEF Spec

\* Whatever the document and the position, no node that has the position lies
\* strictly within the node kept, of those visited since the last Partial.
THEOREM KeepsInnermost == Spec => []Innermost
<1>1. IInv => Innermost
  BY DEF IInv
<1> QED
  BY <1>1, InitHolds, StepKeeps, PTL DEF Spec

\* Whatever the document and the position, the node kept is the root or the last
\* Partial, or has the position and lies within that.
THEOREM KeepsWithin == Spec => []KeptIsWithin
<1>1. IInv => KeptIsWithin
  BY DEF IInv
<1> QED
  BY <1>1, InitHolds, StepKeeps, PTL DEF Spec
=============================================================================
