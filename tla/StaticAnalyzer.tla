--------------------------- MODULE StaticAnalyzer ---------------------------
(* analyzeVisit: the free variables of each node, and a self or super       *)
(* outside of an object.                                                    *)
(*                                                                          *)
(* An error ends the visit of the parts of the node it is found in, and is  *)
(* dropped there: only that of the root is returned.  The variables in      *)
(* scope are copied for functions and locals alone, so an object that was   *)
(* left as parsed adds its fields to what its siblings see.                 *)
EXTENDS Ast

\* The parts of an object's node are visited as if they were the object's own.
FieldKinds == {"field", "fieldId", "fieldStr", "fieldExpr", "objectLocal", "objectAssert"}
Binders == {"function", "local"}
Bound(n) == {n.ids[i].name : i \in DOMAIN n.ids}

\* The message of an assert that was left as parsed is not visited.
Visited(n) == IF n.kind = "objectAssert" THEN 1 ELSE Len(n.kids)

\* Names of fields are outside of the object, all else in a field is inside.
\* Mutant: what is in a field is where the object is.
InObjectNever(n, i, inObject) == inObject
InObject(n, i, inObject) == inObject \/ (n.kind \in FieldKinds /\ i = Visited(n))

RECURSIVE analyzeVisit(_, _, _), visitNext(_, _, _, _)

\* The parts of n from the i-th on; a missing one panics when it is asked for
\* its free variables.
visitNext(n, i, inObject, vars) ==
    IF i > Visited(n) THEN [out |-> "ok", node |-> n, vars |-> vars]
    ELSE LET kid == IF n.kids[i] = Nil THEN [out |-> "panic", node |-> Nil, vars |-> vars]
                    ELSE analyzeVisit(n.kids[i], InObject(n, i, inObject), vars)
             m == [n EXCEPT !.kids[i] = kid.node, !.fv = @ \cup kid.node.fv]
         IN IF kid.out = "ok" THEN visitNext(m, i + 1, inObject, kid.vars)
            ELSE [kid EXCEPT !.node = m]

analyzeVisit(n, inObject, vars) ==
    CASE n.kind \in {"self", "superIndex", "inSuper"} /\ ~inObject ->
           [out |-> "error", node |-> n, vars |-> vars]
      [] n.kind = "var" -> [out |-> "ok", node |-> [n EXCEPT !.fv = {n.name} \cap vars], vars |-> vars]
      [] n.kind = "partialIndex" -> [out |-> "ok", node |-> n, vars |-> vars]
      [] n.kind \in Binders ->
           LET result == visitNext(n, 1, inObject, vars \cup Bound(n))
           IN [out |-> IF result.out = "panic" THEN "panic" ELSE "ok",
               node |-> [result.node EXCEPT !.fv = @ \ Bound(n)], vars |-> vars]
      [] n.kind \in FieldKinds ->
           visitNext(n, 1, inObject, IF n.kind = "fieldId" THEN vars \cup {n.name} ELSE vars)
      [] n.kind \in (Core \cup {"object"}) \ (Binders \cup FieldKinds \cup {"var", "partialIndex"}) ->
           LET result == visitNext(n, 1, inObject, vars)
           IN [result EXCEPT !.out = IF @ = "panic" THEN "panic" ELSE "ok"]
      [] OTHER -> [out |-> "panic", node |-> n, vars |-> vars]

Analyze(n) == analyzeVisit(n, FALSE, {"std"})
=============================================================================
