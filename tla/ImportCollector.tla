-------------------------- MODULE ImportCollector --------------------------
(***************************************************************************)
(* ImportCollector.Collect: lex a file, note what follows every `import`   *)
(* keyword, find each import in the lib paths and, unless the collection   *)
(* is shallow, collect the imports of the found file by a recursive call.  *)
(* The calls in progress are the frames of a stack.                        *)
(*                                                                         *)
(* A file is abstracted to the imports its tokens name, in order.  The     *)
(* files do not change during a collection (NodeCache lets them change).   *)
(***************************************************************************)
EXTENDS Naturals, Sequences

CONSTANTS
    Names,      \* what may follow an `import` keyword
    Dirs,       \* directories
    LibPaths,   \* ImportCollector.libPaths: a sequence of directories
    Disks,      \* states the file system may be in: path -> file, for the
                \* paths where there is one
    Roots,      \* the paths Collect may be called for
    MaxDepth    \* bound: calls in progress the goroutine's stack has room for

Paths == Dirs \X Names

\* A file the lexer rejects is [lexes |-> FALSE, imports |-> <<>>].
File == [lexes : BOOLEAN, imports : Seq(Names)]

ASSUME LibPathsAssumption == LibPaths \in Seq(Dirs)
ASSUME DisksAssumption ==
    \A d \in Disks : DOMAIN d \subseteq Paths /\ \A p \in DOMAIN d : d[p] \in File
ASSUME RootsAssumption == Roots \subseteq Paths
ASSUME MaxDepthAssumption == MaxDepth \in Nat \ {0}

VARIABLES
    disk,     \* the file system
    shallow,  \* the parameter of the call
    root,     \* the file of the outermost call
    stack,    \* the calls in progress, outermost first
    status,   \* "collecting", "returned", "failed" or "overflow"
    result    \* what the outermost call returned

vars == <<disk, shallow, root, stack, status, result>>

\* A call: its file, how many imports it has handled, and its matches.
Call(path) == [path |-> path, next |-> 0, matches |-> {}]
Frame == [path : Paths, next : Nat, matches : SUBSET Names]

TypeOK ==
    /\ DOMAIN disk \subseteq Paths /\ \A p \in DOMAIN disk : disk[p] \in File
    /\ shallow \in BOOLEAN
    /\ root \in Paths
    /\ stack \in Seq(Frame) /\ Len(stack) <= MaxDepth
    /\ status \in {"collecting", "returned", "failed", "overflow"}
    /\ result \in SUBSET Names

Init ==
    /\ disk \in Disks
    /\ shallow \in BOOLEAN
    /\ root \in Roots
    /\ stack = <<Call(root)>>
    /\ status = "collecting"
    /\ result = {}

----------------------------------------------------------------------------
\* ImportPath: the first lib path the file is found in.
Holds(i, name) == <<LibPaths[i], name>> \in DOMAIN disk
Found(name) == \E i \in DOMAIN LibPaths : Holds(i, name)
ImportPath(name) ==
    LET first == CHOOSE i \in DOMAIN LibPaths :
                    /\ Holds(i, name)
                    /\ \A k \in DOMAIN LibPaths : Holds(k, name) => i <= k
    IN  <<LibPaths[first], name>>

Depth == Len(stack)
Top == stack[Depth]

Readable(path) == path \in DOMAIN disk /\ disk[path].lexes
Imports(path) == disk[path].imports

\* An error returned by a call is returned by every call above it.
Fail ==
    /\ status' = "failed"
    /\ stack' = <<>>
    /\ UNCHANGED <<disk, shallow, root, result>>

\* ReadFile or Lex returns an error.
ReadError ==
    /\ status = "collecting"
    /\ ~Readable(Top.path)
    /\ Fail

\* Mutant: an import that is nowhere is passed over.
ImportMissingPassed ==
    /\ status = "collecting"
    /\ Readable(Top.path)
    /\ Top.next < Len(Imports(Top.path))
    /\ LET name == Imports(Top.path)[Top.next + 1]
       IN  /\ ~Found(name)
           /\ stack' = [stack EXCEPT ![Depth].next = @ + 1,
                                     ![Depth].matches = @ \cup {name}]
    /\ UNCHANGED <<disk, shallow, root, status, result>>

\* The loop reaches an import no lib path holds.
ImportMissing ==
    /\ status = "collecting"
    /\ Readable(Top.path)
    /\ Top.next < Len(Imports(Top.path))
    /\ ~Found(Imports(Top.path)[Top.next + 1])
    /\ Fail

\* Mutants: the import is not passed (i is not incremented); the calls in
\* progress are not bounded.
ImportNotPassed ==
    /\ status = "collecting"
    /\ Readable(Top.path)
    /\ Top.next < Len(Imports(Top.path))
    /\ LET name == Imports(Top.path)[Top.next + 1]
           seen == [stack EXCEPT ![Depth].matches = @ \cup {name}]
       IN  /\ Found(name)
           /\ stack' = IF shallow THEN seen ELSE Append(seen, Call(ImportPath(name)))
           /\ Depth < MaxDepth
    /\ UNCHANGED <<disk, shallow, root, status, result>>

ImportUnbounded ==
    /\ status = "collecting"
    /\ Readable(Top.path)
    /\ Top.next < Len(Imports(Top.path))
    /\ LET name == Imports(Top.path)[Top.next + 1]
           seen == [stack EXCEPT ![Depth].next = @ + 1, ![Depth].matches = @ \cup {name}]
       IN  /\ Found(name)
           /\ stack' = IF shallow THEN seen ELSE Append(seen, Call(ImportPath(name)))
    /\ UNCHANGED <<disk, shallow, root, status, result>>

\* The loop reaches an import: it is a match, and a deep collection calls
\* Collect for the file it was found in.  Go kills the process when that call
\* finds the stack full.
Import ==
    /\ status = "collecting"
    /\ Readable(Top.path)
    /\ Top.next < Len(Imports(Top.path))
    /\ LET name == Imports(Top.path)[Top.next + 1]
           here == [Top EXCEPT !.next = @ + 1, !.matches = @ \cup {name}]
           seen == [stack EXCEPT ![Depth] = here]
       IN  /\ Found(name)
           /\ \/ /\ shallow
                 /\ stack' = seen
                 /\ status' = status
              \/ /\ ~shallow /\ Depth < MaxDepth
                 /\ stack' = Append(seen, Call(ImportPath(name)))
                 /\ status' = status
              \/ /\ ~shallow /\ Depth = MaxDepth
                 /\ stack' = seen
                 /\ status' = "overflow"
    /\ UNCHANGED <<disk, shallow, root, result>>

\* Mutant: the matches of a call are dropped.
ReturnAlone ==
    /\ status = "collecting"
    /\ Readable(Top.path)
    /\ Top.next = Len(Imports(Top.path))
    /\ stack' = SubSeq(stack, 1, Depth - 1)
    /\ IF Depth = 1
         THEN result' = Top.matches /\ status' = "returned"
         ELSE UNCHANGED <<status, result>>
    /\ UNCHANGED <<disk, shallow, root>>

\* A call returns: its matches join those of its caller.
Return ==
    /\ status = "collecting"
    /\ Readable(Top.path)
    /\ Top.next = Len(Imports(Top.path))
    /\ \/ /\ Depth = 1
          /\ result' = Top.matches
          /\ status' = "returned"
          /\ stack' = <<>>
       \/ /\ Depth > 1
          /\ stack' = [k \in 1..Depth - 1 |->
                          IF k = Depth - 1
                            THEN [stack[k] EXCEPT !.matches = @ \cup Top.matches]
                            ELSE stack[k]]
          /\ UNCHANGED <<status, result>>
    /\ UNCHANGED <<disk, shallow, root>>

Next == ReadError \/ ImportMissing \/ Import \/ Return

\* Collect runs in a goroutine of its own, which the scheduler runs.
Spec == Init /\ [][Next]_vars /\ WF_vars(Next)
----------------------------------------------------------------------------
(* Properties.                                                             *)

NamesIn(path) == {Imports(path)[i] : i \in DOMAIN Imports(path)}

\* S has, with a name, every import of the file the name is found in.
Closed(S) ==
    \A name \in S : Found(name) => NamesIn(ImportPath(name)) \subseteq S

\* What Collect promises: the imports of the file when shallow, else the
\* least set that has them and is closed under imports.
IsCollection(S) ==
    IF shallow THEN S = NamesIn(root)
    ELSE /\ NamesIn(root) \subseteq S
         /\ Closed(S)
         /\ \A T \in SUBSET S : NamesIn(root) \subseteq T /\ Closed(T) => T = S

\* A collection that returns, returns each import the file reaches and nothing
\* else, whatever order the files name them in.
CollectsImports == status = "returned" => IsCollection(result)

\* No import of a returned collection was left unread: every one is found in
\* the lib paths and lexes.  (A missing file fails the collection.)
ReturnedIsReadable ==
    status = "returned" =>
        /\ Readable(root)
        /\ \A name \in result :
              Found(name) /\ (~shallow => Readable(ImportPath(name)))

\* Some path of the stack is being collected by two calls.
Reentered == \E i, k \in DOMAIN stack : i # k /\ stack[i].path = stack[k].path

\* Collect returns or reports an error for imports that form no cycle.
ReturnsWithoutCycle == <>(status \in {"returned", "failed"} \/ Reentered)
=============================================================================
