----------------------------- MODULE Desugarer -----------------------------
(* desugar: a parsed tree becomes one of the nodes the analyzer, the scope  *)
(* graph and the evaluator know.                                            *)
(*                                                                          *)
(* A node is changed in place, so a tree is half rewritten when an error is *)
(* found.  A function that a bind or a field defines is its body from the   *)
(* start, and which error it is does not matter.                            *)
EXTENDS Ast

Done(n) == [out |-> "ok", node |-> n]
Fails(n) == [out |-> "error", node |-> n]
Panics(n) == [out |-> "panic", node |-> n]

\* Strings are told apart by what their escapes come to: "\\u0061" to "a".
stringUnescape(s) == IF s = "\\u0061" THEN "a" ELSE s
Malformed == {"\\"}

buildStdCall(f, args) ==
    Made("apply", <<Node("index", 0, f, <<>>, <<Var("std"), Nil>>)>> \o args)
wrapInArray(inside) == Made("operation", <<inside>>)
buildAnd(conds) == IF Len(conds) = 1 THEN conds[1] ELSE Made("operation", conds)
Or(n, default) == IF n = Nil THEN default ELSE n
-----------------------------------------------------------------------------
(* Comprehensions: the innermost `for` comes first.                         *)
\* Mutant: the innermost `for` is outermost.
RECURSIVE ForSpecReversed(_, _)
ForSpecReversed(inside, specs) ==
    IF specs = <<>> THEN inside
    ELSE LET spec == Last(specs)
             conds == Tail(spec.kids)
             body == IF conds = <<>> THEN inside
                     ELSE Made("conditional", <<buildAnd(conds), inside, Made("operation", <<>>)>>)
             lambda == Node("function", 0, "", spec.ids, <<body>>)
         IN ForSpecReversed(buildStdCall("flatMap", <<lambda, spec.kids[1]>>), Front(specs))

RECURSIVE desugarForSpec(_, _)
desugarForSpec(inside, specs) ==
    IF specs = <<>> THEN inside
    ELSE LET spec == Head(specs)
             conds == Tail(spec.kids)
             body == IF conds = <<>> THEN inside
                     ELSE Made("conditional", <<buildAnd(conds), inside, Made("operation", <<>>)>>)
             lambda == Node("function", 0, "", spec.ids, <<body>>)
         IN desugarForSpec(buildStdCall("flatMap", <<lambda, spec.kids[1]>>), Tail(specs))
-----------------------------------------------------------------------------
(* Objects.                                                                 *)
IsLocal(f) == f.kind = "objectLocal"
IsAssert(f) == f.kind = "objectAssert"
Fields(n) == SelectSeq(n.kids, LAMBDA f : ~IsLocal(f))
Locals(n) == SelectSeq(n.kids, IsLocal)

\* Hidden variable to allow $ binding; its label is that of the object.
WithDollar(n, level) ==
    IF level # 0 THEN n
    ELSE [n EXCEPT !.kids = Append(@, Node("objectLocal", n.at, "$", <<>>, <<Made("self", <<>>)>>))]

\* ast.Clone knows no incomplete node.
Partials(n) == \E m \in Nodes(n) : m.kind \in {"partial", "partialIndex"}
Cloneable(n) == Fields(n) = <<>> \/ \A f \in Kids(n) : IsLocal(f) => ~Partials(f)

Assertion(f) ==
    LET onFailure == Made("operation", <<Or(f.kids[2], makeStr("Object assertion failed."))>>)
    IN Made("conditional", <<f.kids[1], Literal, onFailure>>)

\* The locals of an object are cloned into each of its fields and asserts.
desugarField(f, locals) ==
    LET body == IF IsAssert(f) THEN Assertion(f) ELSE Last(f.kids)
        binds == [i \in DOMAIN locals |-> Id(locals[i].name, locals[i].at)]
        bodies == [i \in DOMAIN locals |-> locals[i].kids[1]]
        scoped == IF locals = <<>> THEN body
                  ELSE Node("local", body.at, "", binds, Append(bodies, body))
    IN CASE IsAssert(f) -> Made("objectAssert", <<scoped>>)
         [] f.kind = "fieldId" -> Made("field", <<makeStr(f.name), scoped>>)
         [] OTHER -> Made("field", <<f.kids[1], scoped>>)
desugarFields(n) == [i \in DOMAIN Fields(n) |-> desugarField(Fields(n)[i], Locals(n))]

\* The keys of FieldLocs that are strings: names as they were written.
FieldLocs(n) ==
    LET keyed == SelectSeq(n.kids, LAMBDA f : f.kind \in {"fieldId", "fieldStr"})
    IN [i \in DOMAIN keyed |-> IF keyed[i].kind = "fieldId" THEN Id(keyed[i].name, keyed[i].at)
                               ELSE Id(keyed[i].kids[1].name, keyed[i].kids[1].at)]

buildDesugaredObject(n, fieldLocs) ==
    LET fields == desugarFields(n)
    IN Node("desugaredObject", n.at, "", fieldLocs,
            SelectSeq(fields, LAMBDA f : ~IsAssert(f)) \o SelectSeq(fields, IsAssert))
-----------------------------------------------------------------------------
\* What is replaced first and desugared then.
Replaced == {"parens", "assert", "operator", "notEqual", "inOperator", "slice", "arrayComp",
             "object"}
Replace(n, level) ==
    CASE n.kind = "parens" -> n.kids[1]
      [] n.kind = "assert" ->
           Made("conditional", <<n.kids[1], n.kids[3],
                Made("operation", <<Or(n.kids[2], makeStr("Assertion failed"))>>)>>)
      [] n.kind = "operator" -> buildStdCall(n.name, n.kids)
      [] n.kind = "notEqual" -> Made("operation", <<buildStdCall("equals", n.kids)>>)
      [] n.kind = "inOperator" -> buildStdCall("objectHasAll", Reverse(n.kids))
      [] n.kind = "slice" ->
           buildStdCall("slice", [i \in DOMAIN n.kids |-> Or(n.kids[i], Literal)])
      [] n.kind = "arrayComp" -> desugarForSpec(wrapInArray(n.kids[1]), Tail(n.kids))
      [] n.kind = "object" ->
           LET object == WithDollar(n, level) IN buildDesugaredObject(object, FieldLocs(object))

\* Bodies of fields and asserts are one level further in.
\* Mutant: every object is outermost.
LevelStays(n, i, level) == level
LevelOf(n, i, level) ==
    IF n.kind = "objectAssert" \/ (n.kind = "field" /\ i = 2) THEN level + 1 ELSE level

RECURSIVE desugar(_, _), desugarKids(_, _, _)
\* The parts of n from the i-th on, up to an error; the one of the target of an
\* Apply is not looked at.
desugarKids(n, i, level) ==
    IF i > Len(n.kids) THEN Done(n)
    ELSE LET kid == desugar(n.kids[i], LevelOf(n, i, level))
             m == [n EXCEPT !.kids[i] = kid.node]
         IN IF kid.out = "ok" \/ (kid.out = "error" /\ n.kind = "apply" /\ i = 1)
            THEN desugarKids(m, i + 1, level)
            ELSE [out |-> kid.out, node |-> m]

\* What becomes of n once its parts are desugared.
Finished(n) ==
    CASE n.kind = "conditional" -> [n EXCEPT !.kids[3] = Or(@, Literal)]
      [] n.kind = "index" /\ n.name # "" -> [n EXCEPT !.name = "", !.kids[2] = makeStr(n.name)]
      [] n.kind = "applyBrace" -> [n EXCEPT !.kind = "operation"]
      [] OTHER -> n

desugarObjectComp(n, level) ==
    LET object == WithDollar([n.kids[1] EXCEPT !.at = n.at], level)
        comp == desugarForSpec(wrapInArray(buildDesugaredObject(object, <<>>)), Tail(n.kids))
        result == desugar(buildStdCall("$objectFlatMerge", <<comp>>), level)
    IN IF ~Cloneable(object) THEN Panics(n)
       ELSE IF result.out = "ok" THEN result ELSE [result EXCEPT !.node = n]

desugar(n, level) ==
    CASE n.kind = "string" ->
           IF n.name \in Malformed THEN Fails(n) ELSE Done([n EXCEPT !.name = stringUnescape(@)])
      [] n.kind = "dollar" ->
           IF level = 0 THEN Fails(n) ELSE Done(Node("var", n.at, "$", <<>>, <<>>))
      [] n.kind = "superIndex" ->
           Done(IF n.name = "" THEN n ELSE [n EXCEPT !.name = "", !.kids[1] = makeStr(n.name)])
      [] n.kind = "partialIndex" -> Done(n)
      [] n.kind = "object" /\ ~Cloneable(WithDollar(n, level)) -> Panics(n)
      [] n.kind \in Replaced -> desugar(Replace(n, level), level)
      [] n.kind = "objectComp" -> desugarObjectComp(n, level)
      [] OTHER -> LET result == desugarKids(n, 1, level)
                  IN IF result.out = "ok" THEN Done(Finished(result.node)) ELSE result

DesugarFile(n) == desugar(n, 0)
=============================================================================
