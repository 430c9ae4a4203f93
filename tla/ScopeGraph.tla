----------------------------- MODULE ScopeGraph -----------------------------
(* scanScope and refAt: the references of a document and those of them that *)
(* are an answer.                                                           *)
(*                                                                          *)
(* All scopes share one map of references, kept here as a set: a reference  *)
(* has the name at the root of its path, its location (0 for none), the     *)
(* object around it and the rest of the path.  What scopes declare is left  *)
(* out: refAt does not read it.                                             *)
EXTENDS Ast

Ref(name, at, object, path) == [name |-> name, at |-> at, object |-> object, path |-> path]
Panic == Ref("panic", 0, Nil, <<>>)

\* The path of an index; a literal index is a part of it, another is not.
RECURSIVE resolveIndex(_)
resolveIndex(n) ==
    CASE n.kind = "apply" -> resolveIndex(n.kids[1])
      [] n.kind = "index" ->
           resolveIndex(n.kids[1]) \o IF n.kids[2].kind = "string" THEN <<n.kids[2].name>> ELSE <<>>
      [] n.kind = "self" -> <<"self">>
      [] n.kind = "var" -> <<n.name>>
      [] OTHER -> <<"panic">>

\* The reference of an index; one by a variable has none.
\* Mutant: an index that is computed has the location of all of it.
referenceToAny(n, currentObject) ==
    LET path == resolveIndex(n)
    IN IF path[1] = "panic" THEN {Panic} ELSE {Ref(path[1], n.at, currentObject, Tail(path))}
reference(n, currentObject) ==
    LET path == resolveIndex(n)
        at == IF n.kids[2].kind \in {"string", "self"} THEN n.at ELSE 0
    IN CASE path[1] = "panic" -> {Panic}
         [] n.kids[2].kind = "var" -> {}
         [] OTHER -> {Ref(path[1], at, currentObject, Tail(path))}

Located(n, name) == \E i \in DOMAIN n.ids : n.ids[i].name = name

RECURSIVE visit(_, _)
visit(n, currentObject) ==
    LET kids == UNION {visit(kid, currentObject) : kid \in Kids(n)}
    IN CASE n.kind \in {"nil", "partialIndex"} -> {}
         [] n.kind = "var" -> {Ref(n.name, n.at, Nil, <<>>)}
         [] n.kind = "index" -> reference(n, currentObject) \cup kids
         [] n.kind = "desugaredObject" -> UNION {visit(field, n) : field \in Kids(n)}
         [] n.kind = "field" ->
              LET name == n.kids[1]
              IN IF name.kind # "string" THEN {}
                 ELSE kids \cup IF Located(currentObject, name.name) THEN {} ELSE {Panic}
         [] n.kind = "objectAssert" -> {}
         [] n.kind \in Core -> kids
         [] OTHER -> {Panic}

scanScope(n) == visit(n, Nil)
-----------------------------------------------------------------------------
(* objectMapper.lookup: where a path that starts in object o was declared.  *)
(* Fields after one whose name is no string are not found.                  *)
fieldByName(o, name) ==
    LET i == SelectInSeq(o.kids, LAMBDA f : f.kind = "field" /\
                                     (f.kids[1].kind # "string" \/ f.kids[1].name = name))
    IN IF i # 0 /\ o.kids[i].kids[1].kind = "string" THEN o.kids[i].kids[2] ELSE Nil

LocationsOf(o, name) == {o.ids[i].at : i \in {j \in DOMAIN o.ids : o.ids[j].name = name}}

\* Mutant: the rest of a path is looked up in the same object.
RECURSIVE lookupHere(_, _), lookup(_, _)
lookupHere(o, path) ==
    LET nested == fieldByName(o, path[1])
    IN CASE LocationsOf(o, path[1]) = {} -> {}
         [] Len(path) = 1 -> LocationsOf(o, path[1])
         [] nested.kind = "local" /\ Last(nested.kids).kind = "desugaredObject" ->
              lookupHere(o, Tail(path))
         [] OTHER -> {}
lookup(o, path) ==
    LET nested == fieldByName(o, path[1])
    IN CASE LocationsOf(o, path[1]) = {} -> {}
         [] Len(path) = 1 -> LocationsOf(o, path[1])
         [] nested.kind = "local" /\ Last(nested.kids).kind = "desugaredObject" ->
              lookup(Last(nested.kids), Tail(path))
         [] OTHER -> {}
-----------------------------------------------------------------------------
(* refAt.  The address of the loop variable is kept, so the references are  *)
(* those of the name the random order of the map comes to last.             *)
refNames(refs) == {ref.name : ref \in refs}

\* A path of self alone is indexed past its end.
refPanics(refs, id) == \E ref \in refs : ref.name = id /\ id = "self" /\ ref.path = <<>>
refLocations(refs, id) ==
    UNION {{ref.at} \cup (IF id = "self" THEN lookup(ref.object, ref.path) ELSE {}) :
              ref \in {rf \in refs : rf.name = id}}
=============================================================================
