----------------------- MODULE ImportCollectorProofs -----------------------
(***************************************************************************)
(* For every file system, import list and stack depth: a collection that   *)
(* returns, returns the imports the file reaches (PartialCorrectness), all *)
(* of which were read.                                                     *)
(*                                                                         *)
(* The invariant says of every call in progress what it owes its caller:   *)
(* it has matched the imports it passed, it has matched only names that    *)
(* every closed set above it must have (Sound), and the imports of what it *)
(* has matched are matched too, save for the import it is waiting for      *)
(* (Settled).                                                              *)
(***************************************************************************)
EXTENDS ImportCollector, SequenceTheorems, WellFoundedInduction, TLAPS

\* The import a call is waiting for.
Pending(f) == Imports(f.path)[f.next]

\* A call has read its file and matched the imports it passed.
Passed(f) ==
    /\ f.next > 0 => Readable(f.path)
    /\ Readable(f.path) => f.next <= Len(Imports(f.path))
    /\ \A i \in 1..f.next : Imports(f.path)[i] \in f.matches
    /\ \A n \in f.matches : Found(n)

\* T holds what a collection of path must return.
Suffices(T, path) == NamesIn(path) \subseteq T /\ (shallow \/ Closed(T))

Sound(f) == \A T \in SUBSET Names : Suffices(T, f.path) => f.matches \subseteq T

Settled(n, M) == Readable(ImportPath(n)) /\ NamesIn(ImportPath(n)) \subseteq M

\* The call f is waiting for a call it made.
SettledBut(f) == \A n \in f.matches : n # Pending(f) => Settled(n, f.matches)
AllSettled(f) == \A n \in f.matches : Settled(n, f.matches)

StackInv ==
    /\ status = "collecting" => stack # <<>>
    /\ stack # <<>> => stack[1].path = root
    /\ shallow => Len(stack) <= 1
    /\ \A k \in DOMAIN stack : k > 1 =>
          stack[k - 1].next > 0 /\ stack[k].path = ImportPath(Pending(stack[k - 1]))

CallInv ==
    /\ \A k \in DOMAIN stack : Passed(stack[k]) /\ Sound(stack[k])
    /\ ~shallow =>
          \A k \in DOMAIN stack : IF k < Len(stack) \/ status = "overflow"
                                    THEN SettledBut(stack[k])
                                    ELSE AllSettled(stack[k])

ResultInv ==
    /\ status = "returned" => IsCollection(result)
    /\ ReturnedIsReadable

IInv == TypeOK /\ StackInv /\ CallInv /\ ResultInv

----------------------------------------------------------------------------
\* What the code looks up in the file system has the right type.
LEMMA FilesTyped ==
    ASSUME TypeOK, NEW path, Readable(path)
    PROVE  /\ Imports(path) \in Seq(Names)
           /\ Len(Imports(path)) \in Nat
           /\ NamesIn(path) \subseteq Names
           /\ \A i \in 1..Len(Imports(path)) :
                 Imports(path)[i] \in Names /\ Imports(path)[i] \in NamesIn(path)
<1>1. disk[path] \in File
  BY DEF TypeOK, Readable
<1>2. Imports(path) \in Seq(Names)
  BY <1>1 DEF File, Imports
<1> QED
  BY <1>2 DEF NamesIn

\* A set of naturals that is not empty has a least element.
LEMMA LeastElement ==
    ASSUME NEW H \in SUBSET Nat, H # {}
    PROVE  \E i \in H : \A k \in H : i <= k
<1> DEFINE R == OpToRel(<, Nat)
<1>1. IsWellFoundedOn(R, Nat)
  BY NatLessThanWellFounded
<1> HIDE DEF R
<1>2. PICK i \in H : \A k \in H : <<k, i>> \notin R
  BY <1>1, WFMin
<1>3. \A k \in H : ~(k < i)
  BY <1>2 DEF R, OpToRel
<1>4. \A k \in H : k \in Nat /\ i \in Nat
  OBVIOUS
<1> QED
  BY <1>3, <1>4

LEMMA FoundTyped ==
    ASSUME TypeOK, NEW name \in Names, Found(name)
    PROVE  ImportPath(name) \in DOMAIN disk /\ ImportPath(name) \in Paths
<1> DEFINE First(i) == /\ Holds(i, name)
                       /\ \A k \in DOMAIN LibPaths : Holds(k, name) => i <= k
<1>1. DOMAIN LibPaths = 1..Len(LibPaths) /\ Len(LibPaths) \in Nat
  BY LibPathsAssumption
<1>2. DOMAIN LibPaths \in SUBSET Nat
  BY <1>1
<1>3. \E i \in DOMAIN LibPaths : First(i)
  <2> DEFINE H == {i \in DOMAIN LibPaths : Holds(i, name)}
  <2>1. H # {} /\ H \in SUBSET Nat
    BY <1>2 DEF Found
  <2>2. PICK i \in H : \A k \in H : i <= k
    BY <2>1, LeastElement
  <2> QED
    BY <2>2
<1>4. PICK i \in DOMAIN LibPaths : First(i) /\ ImportPath(name) = <<LibPaths[i], name>>
  BY <1>3 DEF ImportPath
<1> QED
  BY <1>4 DEF Holds, TypeOK

----------------------------------------------------------------------------
\* A step looks up the same files as the step before it: the file system, the
\* root and the kind of collection are fixed.
LEMMA Fixed ==
    ASSUME disk' = disk, shallow' = shallow, root' = root
    PROVE  /\ \A p : Readable(p)' <=> Readable(p)
           /\ \A p : Imports(p)' = Imports(p)
           /\ \A p : NamesIn(p)' = NamesIn(p)
           /\ \A n : Found(n)' <=> Found(n)
           /\ \A n : ImportPath(n)' = ImportPath(n)
           /\ \A T : Closed(T)' <=> Closed(T)
           /\ \A T, p : Suffices(T, p)' <=> Suffices(T, p)
           /\ \A f : Pending(f)' = Pending(f)
           /\ \A f : Passed(f)' <=> Passed(f)
           /\ \A f : Sound(f)' <=> Sound(f)
           /\ \A n, M : Settled(n, M)' <=> Settled(n, M)
           /\ \A f : SettledBut(f)' <=> SettledBut(f)
           /\ \A f : AllSettled(f)' <=> AllSettled(f)
           /\ \A S : IsCollection(S)' <=> IsCollection(S)
<1>1. \A p : Imports(p)' = Imports(p)
  BY DEF Imports
<1>2. \A p : Readable(p)' <=> Readable(p)
  BY DEF Readable
<1>3. \A i, n : Holds(i, n)' <=> Holds(i, n)
  BY DEF Holds
<1>4. \A n : Found(n)' <=> Found(n)
  BY <1>3 DEF Found
<1>5. \A n : ImportPath(n)' = ImportPath(n)
  BY DEF ImportPath, Holds
<1>6. \A p : NamesIn(p)' = NamesIn(p)
  BY <1>1 DEF NamesIn
<1>7. \A T : Closed(T)' <=> Closed(T)
  BY <1>4, <1>5, <1>6 DEF Closed
<1>8. \A T, p : Suffices(T, p)' <=> Suffices(T, p)
  BY <1>6, <1>7 DEF Suffices
<1>9. \A f : Pending(f)' = Pending(f)
  BY <1>1 DEF Pending
<1>10. \A f : Passed(f)' <=> Passed(f)
  BY <1>1, <1>2, <1>4 DEF Passed
<1>11. \A f : Sound(f)' <=> Sound(f)
  BY <1>8 DEF Sound
<1>12. \A n, M : Settled(n, M)' <=> Settled(n, M)
  BY <1>2, <1>5, <1>6 DEF Settled
<1>13. \A f : SettledBut(f)' <=> SettledBut(f)
  BY <1>9, <1>12 DEF SettledBut
<1>14. \A f : AllSettled(f)' <=> AllSettled(f)
  BY <1>12 DEF AllSettled
<1>15. \A S : IsCollection(S)' <=> IsCollection(S)
  BY <1>6, <1>7 DEF IsCollection
<1> QED
  BY <1>1, <1>2, <1>4, <1>5, <1>6, <1>7, <1>8, <1>9, <1>10, <1>11, <1>12, <1>13, <1>14, <1>15

----------------------------------------------------------------------------
\* The innermost call of a collection in progress.
LEMMA Innermost ==
    ASSUME TypeOK, StackInv, status = "collecting"
    PROVE  /\ Depth \in Nat \ {0} /\ DOMAIN stack = 1..Depth
           /\ \A k \in DOMAIN stack : stack[k] \in Frame
           /\ Top \in Frame
<1>1. stack \in Seq(Frame) /\ stack # <<>>
  BY DEF TypeOK, StackInv
<1> QED
  BY <1>1, EmptySeq, LenProperties, ElementOfSeq DEF Depth, Top

\* A call that has passed its last import has matched them all.
LEMMA AllMatched ==
    ASSUME TypeOK, NEW f \in Frame, Passed(f), Readable(f.path),
           f.next = Len(Imports(f.path))
    PROVE  NamesIn(f.path) \subseteq f.matches
BY FilesTyped DEF Passed, NamesIn

\* The outermost call returns a collection of imports that were all read.
LEMMA RootReturns ==
    ASSUME IInv, status = "collecting", Depth = 1,
           Readable(Top.path), Top.next = Len(Imports(Top.path))
    PROVE  /\ IsCollection(Top.matches)
           /\ \A n \in Top.matches :
                 Found(n) /\ (~shallow => Readable(ImportPath(n)))
           /\ Readable(root)
<1>1. Top \in Frame /\ Top.path = root /\ Passed(Top) /\ Sound(Top)
  BY Innermost DEF IInv, StackInv, CallInv, Top
<1>2. Top.matches \in SUBSET Names
  BY <1>1 DEF Frame
<1>3. NamesIn(root) \subseteq Top.matches
  BY <1>1, AllMatched DEF IInv
<1>4. NamesIn(root) \in SUBSET Names
  BY <1>2, <1>3
<1>5. \A n \in Top.matches : Found(n)
  BY <1>1 DEF Passed
<1>6. CASE shallow
  <2>1. Suffices(NamesIn(root), Top.path)
    BY <1>1, <1>6 DEF Suffices
  <2>2. Top.matches = NamesIn(root)
    BY <2>1, <1>1, <1>3, <1>4 DEF Sound
  <2> QED
    BY <2>2, <1>1, <1>5, <1>6 DEF IsCollection
<1>7. CASE ~shallow
  <2>1. AllSettled(Top)
    BY <1>7, Innermost DEF IInv, CallInv, Top, Depth
  <2>2. Closed(Top.matches)
    BY <2>1 DEF AllSettled, Settled, Closed
  <2>3. \A T \in SUBSET Top.matches :
            NamesIn(root) \subseteq T /\ Closed(T) => T = Top.matches
    <3> SUFFICES ASSUME NEW T \in SUBSET Top.matches,
                        NamesIn(root) \subseteq T, Closed(T)
                 PROVE  Top.matches \subseteq T
      OBVIOUS
    <3>1. T \in SUBSET Names /\ Suffices(T, Top.path)
      BY <1>1, <1>2 DEF Suffices
    <3> QED
      BY <3>1, <1>1 DEF Sound
  <2> QED
    BY <2>1, <2>2, <2>3, <1>1, <1>3, <1>5, <1>7 DEF IsCollection, AllSettled, Settled
<1> QED
  BY <1>6, <1>7

----------------------------------------------------------------------------
\* What Import does to the innermost call.
LEMMA ImportAdvances ==
    ASSUME IInv, status = "collecting", Readable(Top.path),
           Top.next < Len(Imports(Top.path)),
           NEW name, name = Imports(Top.path)[Top.next + 1], Found(name),
           NEW here, here = [Top EXCEPT !.next = @ + 1, !.matches = @ \cup {name}]
    PROVE  /\ here \in Frame /\ here.path = Top.path /\ here.next > 0
           /\ name \in Names /\ Pending(here) = name
           /\ Passed(here) /\ Sound(here) /\ (~shallow => SettledBut(here))
<1>1. /\ Top \in Frame /\ Passed(Top) /\ Sound(Top) /\ (~shallow => AllSettled(Top))
  BY Innermost DEF IInv, CallInv, Top, Depth
<1>2. name \in Names /\ name \in NamesIn(Top.path)
  BY <1>1, FilesTyped DEF IInv, Frame
<1>3. /\ here \in Frame /\ here.path = Top.path /\ here.next = Top.next + 1
      /\ here.matches = Top.matches \cup {name}
  <2>1. here = [path |-> Top.path, next |-> Top.next + 1,
                matches |-> Top.matches \cup {name}]
    BY <1>1 DEF Frame
  <2> QED
    BY <1>1, <1>2, <2>1 DEF Frame
<1>4. Pending(here) = name
  BY <1>3 DEF Pending
<1>5. Passed(here)
  BY <1>1, <1>3, FilesTyped DEF IInv, Passed, Frame
<1>6. Sound(here)
  BY <1>1, <1>2, <1>3 DEF Sound, Suffices
<1>7. ~shallow => SettledBut(here)
  BY <1>1, <1>3, <1>4 DEF SettledBut, AllSettled, Settled
<1> QED
  BY <1>1, <1>2, <1>3, <1>4, <1>5, <1>6, <1>7 DEF Frame

\* What a new call owes: nothing yet.
LEMMA CallStarts ==
    ASSUME TypeOK, NEW path \in Paths
    PROVE  /\ Call(path) \in Frame /\ Call(path).path = path
           /\ Passed(Call(path)) /\ Sound(Call(path)) /\ AllSettled(Call(path))
<1>1. /\ Call(path) \in Frame /\ Call(path).path = path
      /\ Call(path).next = 0 /\ Call(path).matches = {}
  BY DEF Call, Frame
<1>2. Passed(Call(path))
  BY <1>1, FilesTyped DEF Passed
<1> QED
  BY <1>1, <1>2 DEF Sound, AllSettled

\* What a call owes once the call it was waiting for has returned.
LEMMA CallerMerges ==
    ASSUME IInv, status = "collecting", Depth > 1, ~shallow, Readable(Top.path),
           Top.next = Len(Imports(Top.path)),
           NEW caller, caller = stack[Depth - 1],
           NEW merged, merged = [caller EXCEPT !.matches = @ \cup Top.matches]
    PROVE  /\ merged \in Frame
           /\ merged.path = caller.path /\ merged.next = caller.next
           /\ Passed(merged) /\ Sound(merged) /\ AllSettled(merged)
<1>1. /\ Top \in Frame /\ Passed(Top) /\ Sound(Top) /\ AllSettled(Top)
  BY Innermost DEF IInv, CallInv, Top, Depth
<1>2. /\ caller \in Frame /\ Passed(caller) /\ Sound(caller) /\ SettledBut(caller)
      /\ caller.next > 0 /\ Top.path = ImportPath(Pending(caller))
  <2>1. Depth - 1 \in DOMAIN stack /\ Depth \in DOMAIN stack /\ Depth - 1 < Len(stack)
    BY Innermost DEF IInv, Depth
  <2>2. Passed(caller) /\ Sound(caller) /\ SettledBut(caller)
    BY <2>1 DEF IInv, CallInv
  <2>3. caller \in Frame
    BY <2>1, Innermost DEF IInv
  <2> QED
    BY <2>1, <2>2, <2>3, Innermost DEF IInv, StackInv, Top
<1>3. /\ merged \in Frame /\ merged.path = caller.path /\ merged.next = caller.next
      /\ merged.matches = caller.matches \cup Top.matches
  BY <1>1, <1>2 DEF Frame
<1>4. Pending(caller) \in caller.matches /\ Found(Pending(caller))
  BY <1>2 DEF Passed, Pending, Frame
<1>5. NamesIn(Top.path) \subseteq Top.matches
  BY <1>1, AllMatched DEF IInv
<1>6. Passed(merged)
  BY <1>1, <1>2, <1>3 DEF Passed
<1>7. Sound(merged)
  BY <1>1, <1>2, <1>3, <1>4 DEF Sound, Suffices, Closed
<1>8. Settled(Pending(caller), merged.matches)
  BY <1>2, <1>3, <1>5 DEF Settled
<1>9. AllSettled(merged)
  BY <1>1, <1>2, <1>3, <1>8 DEF AllSettled, SettledBut, Settled
<1> QED
  BY <1>3, <1>6, <1>7, <1>9

----------------------------------------------------------------------------
\* The invariant after a step that replaces the innermost call, all calls
\* below it being as they were.
LEMMA NewTop ==
    ASSUME IInv, status = "collecting",
           disk' = disk, shallow' = shallow, root' = root, result' = result,
           status' \in {"collecting", "overflow"},
           NEW D \in Nat \ {0}, D <= MaxDepth, DOMAIN stack' = 1..D,
           NEW top \in Frame, stack'[D] = top, D > 1 => ~shallow,
           \A k \in 1..D-1 : stack'[k] \in Frame,
           stack' \in Seq(Frame),
           Passed(top), Sound(top),
           ~shallow => IF status' = "overflow" THEN SettledBut(top) ELSE AllSettled(top),
           \A k \in 1..D-1 : Passed(stack'[k]) /\ Sound(stack'[k]) /\ SettledBut(stack'[k]),
           \A k \in 2..D : /\ stack'[k - 1].next > 0
                           /\ stack'[k].path = ImportPath(Pending(stack'[k - 1])),
           stack'[1].path = root
    PROVE  IInv'
<1>1. TypeOK'
  <2>1. Len(stack') = D
    BY LenProperties
  <2> QED
    BY <2>1 DEF IInv, TypeOK
<1>2. Len(stack') = D /\ stack' # <<>>
  BY LenProperties, EmptySeq
<1>3. StackInv'
  <2>1. \A k \in DOMAIN stack' : k > 1 =>
            /\ stack'[k - 1].next > 0
            /\ stack'[k].path = (ImportPath(Pending(stack[k - 1])))'
    BY Fixed
  <2>2. shallow => Len(stack') <= 1
    BY <1>2
  <2> QED
    BY <1>2, <2>1, <2>2 DEF StackInv
<1>4. CallInv'
  <2>1. \A k \in 1..D : Passed(stack'[k]) /\ Sound(stack'[k])
    OBVIOUS
  <2>2. ~shallow => \A k \in 1..D : IF k < D \/ status' = "overflow"
                                      THEN SettledBut(stack'[k])
                                      ELSE AllSettled(stack'[k])
    OBVIOUS
  <2> QED
    BY <1>2, <2>1, <2>2, Fixed DEF CallInv
<1>5. ResultInv'
  BY DEF ResultInv, ReturnedIsReadable
<1> QED
  BY <1>1, <1>3, <1>4, <1>5 DEF IInv

LEMMA FailKeeps ==
    ASSUME IInv, Fail
    PROVE  IInv'
<1>1. TypeOK'
  BY EmptySeq, MaxDepthAssumption DEF IInv, TypeOK, Fail
<1>2. StackInv' /\ CallInv'
  BY EmptySeq DEF Fail, StackInv, CallInv
<1>3. ResultInv'
  BY DEF Fail, ResultInv, ReturnedIsReadable
<1> QED
  BY <1>1, <1>2, <1>3 DEF IInv

LEMMA ImportKeeps ==
    ASSUME IInv, Import
    PROVE  IInv'
<1> DEFINE name == Imports(Top.path)[Top.next + 1]
           here == [Top EXCEPT !.next = @ + 1, !.matches = @ \cup {name}]
           seen == [stack EXCEPT ![Depth] = here]
<1>1. /\ status = "collecting" /\ Readable(Top.path) /\ Found(name)
      /\ Top.next < Len(Imports(Top.path))
      /\ disk' = disk /\ shallow' = shallow /\ root' = root /\ result' = result
  BY DEF Import
<1>2. /\ here \in Frame /\ here.path = Top.path /\ here.next > 0
      /\ name \in Names /\ Pending(here) = name
      /\ Passed(here) /\ Sound(here) /\ (~shallow => SettledBut(here))
  BY <1>1, ImportAdvances
<1>3. /\ Depth \in Nat \ {0} /\ DOMAIN stack = 1..Depth /\ Depth <= MaxDepth
      /\ stack \in Seq(Frame) /\ (Depth > 1 => ~shallow)
  BY <1>1, Innermost DEF IInv, TypeOK, StackInv, Depth
<1> HIDE DEF name, here
<1>4. /\ seen \in Seq(Frame) /\ DOMAIN seen = 1..Depth /\ seen[Depth] = here
      /\ Len(seen) = Depth
      /\ \A k \in 1..Depth-1 : seen[k] = stack[k] /\ seen[k] \in Frame
  <2>1. Depth \in 1..Len(stack) /\ Len(stack) = Depth
    BY <1>3 DEF Depth
  <2>2. /\ seen \in Seq(Frame) /\ Len(seen) = Len(stack)
        /\ \A j \in 1..Len(stack) : seen[j] = IF j = Depth THEN here ELSE stack[j]
    BY <2>1, <1>2, <1>3, ExceptSeq
  <2>3. \A k \in 1..Depth-1 : k \in 1..Len(stack) /\ k # Depth /\ stack[k] \in Frame
    BY <2>1, <1>3, ElementOfSeq
  <2> HIDE DEF seen
  <2>4. DOMAIN seen = 1..Depth
    BY <2>1, <2>2, LenProperties
  <2> QED
    BY <2>1, <2>2, <2>3, <2>4
<1> HIDE DEF seen
<1>5. /\ \A k \in 1..Depth-1 : Passed(seen[k]) /\ Sound(seen[k]) /\ SettledBut(seen[k])
      /\ \A k \in 2..Depth : /\ seen[k - 1].next > 0
                            /\ seen[k].path = ImportPath(Pending(seen[k - 1]))
      /\ seen[1].path = root
  <2>1. \A k \in 1..Depth-1 : Passed(seen[k]) /\ Sound(seen[k]) /\ SettledBut(seen[k])
    <3> SUFFICES ASSUME NEW k \in 1..Depth-1
                 PROVE  Passed(seen[k]) /\ Sound(seen[k]) /\ SettledBut(seen[k])
      OBVIOUS
    <3>1. k \in DOMAIN stack /\ k < Len(stack) /\ ~shallow /\ seen[k] = stack[k]
      BY <1>3, <1>4 DEF Depth
    <3> QED
      BY ONLY <3>1, IInv DEF IInv, CallInv
  <2>2. \A k \in 2..Depth : seen[k].path = stack[k].path /\ seen[k - 1] = stack[k - 1]
    BY <1>2, <1>3, <1>4 DEF Top
  <2>3. \A k \in 2..Depth : /\ stack[k - 1].next > 0
                            /\ stack[k].path = ImportPath(Pending(stack[k - 1]))
    <3> SUFFICES ASSUME NEW k \in 2..Depth
                 PROVE  /\ stack[k - 1].next > 0
                        /\ stack[k].path = ImportPath(Pending(stack[k - 1]))
      OBVIOUS
    <3>1. k \in DOMAIN stack /\ k > 1
      BY <1>3
    <3> QED
      BY ONLY <3>1, IInv DEF IInv, StackInv
  <2>4. seen[1].path = stack[1].path
    BY <1>2, <1>3, <1>4 DEF Top
  <2>5. stack[1].path = root
    BY <1>1 DEF IInv, StackInv
  <2> QED
    BY <2>1, <2>2, <2>3, <2>4, <2>5
<1>6. CASE shallow /\ stack' = seen /\ status' = status
  BY <1>1, <1>2, <1>3, <1>4, <1>5, <1>6, NewTop
<1>7. CASE ~shallow /\ stack' = seen /\ status' = "overflow"
  BY <1>1, <1>2, <1>3, <1>4, <1>5, <1>7, NewTop
<1>8. CASE ~shallow /\ Depth < MaxDepth /\ status' = status
             /\ stack' = Append(seen, Call(ImportPath(name)))
  <2> DEFINE child == Call(ImportPath(name))
  <2>1. /\ child \in Frame /\ child.path = ImportPath(name)
        /\ Passed(child) /\ Sound(child) /\ AllSettled(child)
    BY <1>1, <1>2, CallStarts, FoundTyped DEF IInv
  <2> HIDE DEF child
  <2>2. stack' = Append(seen, child)
    BY <1>8 DEF child
  <2>3. /\ stack' \in Seq(Frame) /\ DOMAIN stack' = 1..Depth+1
        /\ stack'[Depth + 1] = child /\ Depth + 1 \in Nat \ {0} /\ Depth + 1 <= MaxDepth
        /\ \A k \in 1..Depth : stack'[k] = seen[k] /\ stack'[k] \in Frame
    <3>1. /\ stack' \in Seq(Frame) /\ Len(stack') = Depth + 1 /\ stack'[Depth + 1] = child
          /\ \A k \in 1..Depth : stack'[k] = seen[k]
      BY <2>1, <2>2, <1>3, <1>4, AppendProperties
    <3>2. DOMAIN stack' = 1..Depth+1
      BY <3>1, LenProperties
    <3>3. \A k \in 1..Depth : seen[k] \in Frame
      BY <1>2, <1>3, <1>4
    <3>4. Depth + 1 \in Nat \ {0} /\ Depth + 1 <= MaxDepth
      BY <1>3, <1>8, MaxDepthAssumption
    <3> QED
      BY ONLY <3>1, <3>2, <3>3, <3>4
  <2>4. \A k \in 1..Depth : Passed(stack'[k]) /\ Sound(stack'[k]) /\ SettledBut(stack'[k])
    <3> SUFFICES ASSUME NEW k \in 1..Depth
                 PROVE  Passed(stack'[k]) /\ Sound(stack'[k]) /\ SettledBut(stack'[k])
      OBVIOUS
    <3>1. stack'[k] = seen[k]
      BY <2>3
    <3>2. CASE k = Depth
      BY <3>1, <3>2, <1>2, <1>4, <1>8
    <3>3. CASE k # Depth
      BY <3>1, <3>3, <1>3, <1>5
    <3> QED
      BY <3>2, <3>3
  <2>5. \A k \in 2..Depth+1 : /\ stack'[k - 1].next > 0
                            /\ stack'[k].path = ImportPath(Pending(stack'[k - 1]))
    <3> SUFFICES ASSUME NEW k \in 2..Depth+1
                 PROVE  /\ stack'[k - 1].next > 0
                        /\ stack'[k].path = ImportPath(Pending(stack'[k - 1]))
      OBVIOUS
    <3>1. CASE k = Depth + 1
      BY <3>1, <2>1, <2>3, <1>2, <1>3, <1>4
    <3>2. CASE k \in 2..Depth
      <4>1. stack'[k] = seen[k] /\ stack'[k - 1] = seen[k - 1]
        BY <3>2, <2>3, <1>3
      <4> QED
        BY <4>1, <3>2, <1>5
    <3> QED
      BY <3>1, <3>2, <1>3
  <2>6. stack'[1].path = root
    BY <2>3, <1>3, <1>5
  <2>7. status' \in {"collecting", "overflow"} /\ status' # "overflow"
    BY <1>1, <1>8
  <2> DEFINE D == Depth + 1
  <2>8. D \in Nat \ {0} /\ D <= MaxDepth /\ DOMAIN stack' = 1..D /\ stack'[D] = child
        /\ \A k \in 1..D-1 : k \in 1..Depth
    BY <2>3, <1>3
  <2>9. /\ \A k \in 1..D-1 : stack'[k] \in Frame
        /\ \A k \in 1..D-1 : Passed(stack'[k]) /\ Sound(stack'[k]) /\ SettledBut(stack'[k])
        /\ \A k \in 2..D : /\ stack'[k - 1].next > 0
                          /\ stack'[k].path = ImportPath(Pending(stack'[k - 1]))
    BY <2>3, <2>4, <2>5, <2>8
  <2> HIDE DEF D
  <2> QED
    BY <2>1, <2>3, <2>6, <2>7, <2>8, <2>9, <1>1, <1>8, NewTop
<1> QED
  BY <1>6, <1>7, <1>8 DEF Import, name, here, seen

LEMMA ReturnKeeps ==
    ASSUME IInv, Return
    PROVE  IInv'
<1>1. /\ status = "collecting" /\ Readable(Top.path)
      /\ Top.next = Len(Imports(Top.path))
      /\ disk' = disk /\ shallow' = shallow /\ root' = root
  BY DEF Return
<1>2. CASE Depth = 1 /\ result' = Top.matches /\ status' = "returned" /\ stack' = <<>>
  <2>1. Top.matches \in SUBSET Names
    BY <1>1, Innermost DEF IInv, Frame
  <2>2. TypeOK'
    BY <1>1, <1>2, <2>1, EmptySeq, MaxDepthAssumption DEF IInv, TypeOK
  <2>3. StackInv' /\ CallInv'
    BY <1>2, EmptySeq DEF StackInv, CallInv
  <2>4. ResultInv'
    BY <1>1, <1>2, RootReturns, Fixed DEF ResultInv, ReturnedIsReadable
  <2> QED
    BY <2>2, <2>3, <2>4 DEF IInv
<1>3. CASE /\ Depth > 1 /\ status' = status /\ result' = result
           /\ stack' = [k \in 1..Depth - 1 |->
                          IF k = Depth - 1
                            THEN [stack[k] EXCEPT !.matches = @ \cup Top.matches]
                            ELSE stack[k]]
  <2> DEFINE D == Depth - 1
             merged == [stack[D] EXCEPT !.matches = @ \cup Top.matches]
  <2>1. /\ D \in Nat \ {0} /\ DOMAIN stack = 1..D+1 /\ Len(stack) = D + 1
        /\ D + 1 <= MaxDepth /\ D <= MaxDepth /\ ~shallow
        /\ \A k \in 1..D+1 : stack[k] \in Frame
    BY <1>1, <1>3, Innermost, MaxDepthAssumption DEF IInv, TypeOK, StackInv, Depth
  <2>2. /\ merged \in Frame
        /\ merged.path = stack[D].path /\ merged.next = stack[D].next
        /\ Passed(merged) /\ Sound(merged) /\ AllSettled(merged)
    BY <1>1, <1>3, <2>1, CallerMerges
  <2> HIDE DEF merged
  <2>3. stack' = [k \in 1..D |-> IF k = D THEN merged ELSE stack[k]]
    BY <1>3 DEF merged
  <2> HIDE DEF D
  <2>4. /\ DOMAIN stack' = 1..D /\ stack'[D] = merged
        /\ \A k \in 1..D-1 : stack'[k] = stack[k] /\ stack'[k] \in Frame
    BY <2>1, <2>3
  <2>5. stack' \in Seq(Frame)
    <3>1. stack' \in [1..D -> Frame]
      BY <2>1, <2>2, <2>3
    <3> QED
      BY <3>1, <2>1, SeqDef
  <2>6. \A k \in 1..D-1 : Passed(stack'[k]) /\ Sound(stack'[k]) /\ SettledBut(stack'[k])
    <3> SUFFICES ASSUME NEW k \in 1..D-1
                 PROVE  Passed(stack[k]) /\ Sound(stack[k]) /\ SettledBut(stack[k])
      BY <2>4
    <3>1. k \in DOMAIN stack /\ k < Len(stack) /\ ~shallow
      BY <2>1
    <3> QED
      BY ONLY <3>1, IInv DEF IInv, CallInv
  <2>7. \A k \in 2..D : /\ stack'[k - 1].next > 0
                      /\ stack'[k].path = ImportPath(Pending(stack'[k - 1]))
    <3> SUFFICES ASSUME NEW k \in 2..D
                 PROVE  /\ stack'[k - 1].next > 0
                        /\ stack'[k].path = ImportPath(Pending(stack'[k - 1]))
      OBVIOUS
    <3>1. stack'[k].path = stack[k].path /\ stack'[k - 1] = stack[k - 1]
      BY <2>1, <2>2, <2>4
    <3>2. k \in DOMAIN stack /\ k > 1
      BY <2>1
    <3>3. stack[k - 1].next > 0 /\ stack[k].path = ImportPath(Pending(stack[k - 1]))
      BY ONLY <3>2, IInv DEF IInv, StackInv
    <3> QED
      BY <3>1, <3>3
  <2>8. stack'[1].path = root
    <3>1. stack[1].path = root
      BY <1>1 DEF IInv, StackInv
    <3> QED
      BY <3>1, <2>1, <2>2, <2>4
  <2> QED
    BY <1>1, <1>3, <2>1, <2>2, <2>4, <2>5, <2>6, <2>7, <2>8, NewTop
<1> QED
  BY <1>2, <1>3 DEF Return

----------------------------------------------------------------------------
LEMMA InitHolds == Init => IInv
<1> SUFFICES ASSUME Init PROVE IInv
  OBVIOUS
<1>1. stack = <<Call(root)>> /\ root \in Paths
  BY RootsAssumption DEF Init
<1>2. Call(root) \in Frame
  BY <1>1 DEF Call, Frame
<1>3. /\ stack \in Seq(Frame) /\ Len(stack) = 1 /\ stack # <<>>
      /\ DOMAIN stack = 1..1 /\ stack[1] = Call(root)
  BY <1>1, <1>2
<1>4. TypeOK
  BY <1>1, <1>3, DisksAssumption, MaxDepthAssumption DEF Init, TypeOK
<1>5. /\ Call(root).path = root
      /\ Passed(Call(root)) /\ Sound(Call(root)) /\ AllSettled(Call(root))
  BY <1>1, <1>4, CallStarts
<1>6. StackInv
  BY <1>3, <1>5 DEF StackInv
<1>7. CallInv
  BY <1>3, <1>5 DEF Init, CallInv
<1>8. ResultInv
  BY DEF Init, ResultInv, ReturnedIsReadable
<1> QED
  BY <1>4, <1>6, <1>7, <1>8 DEF IInv

LEMMA StepKeeps == IInv /\ [Next]_vars => IInv'
<1> SUFFICES ASSUME IInv, [Next]_vars PROVE IInv'
  OBVIOUS
<1>1. CASE ReadError
  BY <1>1, FailKeeps DEF ReadError
<1>2. CASE ImportMissing
  BY <1>2, FailKeeps DEF ImportMissing
<1>3. CASE Import
  BY <1>3, ImportKeeps
<1>4. CASE Return
  BY <1>4, ReturnKeeps
<1>5. CASE UNCHANGED vars
  <2>1. \A k : stack'[k] = stack[k]
    BY <1>5 DEF vars
  <2>2. TypeOK'
    BY <1>5 DEF IInv, TypeOK, vars
  <2>3. StackInv'
    BY <1>5, Fixed DEF IInv, StackInv, vars
  <2>4. CallInv'
    BY <1>5, Fixed DEF IInv, CallInv, vars
  <2>5. ResultInv'
    BY <1>5, Fixed DEF IInv, ResultInv, ReturnedIsReadable, vars
  <2> QED
    BY <2>2, <2>3, <2>4, <2>5 DEF IInv
<1> QED
  BY <1>1, <1>2, <1>3, <1>4, <1>5 DEF Next

LEMMA Inductive == Spec => []IInv
BY InitHolds, StepKeeps, PTL DEF Spec

\* Every variable of the collector keeps its type; the stack never outgrows
\* its bound.
THEOREM TypeCorrect == Spec => []TypeOK
<1>1. IInv => TypeOK
  BY DEF IInv
<1> QED
  BY <1>1, Inductive, PTL

\* Whatever the files import, a collection that returns, returns the imports
\* of its file (shallow), or the least set that has them and is closed under
\* imports (deep): each file Collect can reach and no other.
THEOREM PartialCorrectness == Spec => []CollectsImports
<1>1. IInv => CollectsImports
  BY DEF IInv, ResultInv, CollectsImports
<1> QED
  BY <1>1, Inductive, PTL

\* Whatever the files import, no import of a collection that returned was
\* missing, and a deep collection lexed all of them.
THEOREM NothingUnread == Spec => []ReturnedIsReadable
<1>1. IInv => ReturnedIsReadable
  BY DEF IInv, ResultInv
<1> QED
  BY <1>1, Inductive, PTL

=============================================================================
