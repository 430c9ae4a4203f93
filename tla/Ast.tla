-------------------------------- MODULE Ast --------------------------------
(* The nodes of a document, with what its readers tell apart.               *)
(*                                                                          *)
(* `at` stands for the location: a label of its own for each node that was  *)
(* parsed, 0 for the nodes the desugarer makes.  `ids` are the variables a  *)
(* function or a local binds, or the locations of an object's field names;  *)
(* their labels tell apart declarations of one name.  A missing part is Nil.*)
EXTENDS Naturals, Sequences, SequencesExt

Node(kind, at, name, ids, kids) ==
    [kind |-> kind, at |-> at, name |-> name, ids |-> ids, kids |-> kids, fv |-> {}]
Id(name, at) == [name |-> name, at |-> at]
Nil == Node("nil", 0, "", <<>>, <<>>)

\* A node without a location.
Made(kind, kids) == Node(kind, 0, "", <<>>, kids)
makeStr(s) == Node("string", 0, s, <<>>, <<>>)
Literal == Made("literal", <<>>)
Var(id) == Node("var", 0, id, <<>>, <<>>)

\* Arrays, binary and unary operators and errors are one kind: all that is
\* done to them is done to their parts, in order.
Core == {"literal", "string", "self", "var", "partial", "partialIndex", "operation",
         "conditional", "apply", "function", "local", "index", "superIndex", "inSuper",
         "desugaredObject", "field", "objectAssert"}

Kids(n) == {n.kids[i] : i \in DOMAIN n.kids}
RECURSIVE Nodes(_)
Nodes(n) == {n} \cup UNION {Nodes(kid) : kid \in Kids(n)}
=============================================================================
