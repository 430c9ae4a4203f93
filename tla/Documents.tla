----------------------------- MODULE Documents ------------------------------
(* The trees the parser returns, grown from a leaf by constructs around it. *)
EXTENDS Ast

RECURSIVE Leaf(_, _)
Leaf(l, k) ==
    CASE l \in {"x", "y", "std"} -> Node("var", k, l, <<>>, <<>>)
      [] l = "$" -> Node("dollar", k, "", <<>>, <<>>)
      [] l = "1" -> Node("literal", k, "", <<>>, <<>>)
      [] l = "'\\'" -> Node("string", k, "\\", <<>>, <<>>)
      [] l \in {"self", "partial"} -> Node(l, k, "", <<>>, <<>>)
      [] l = "{a: ,}" -> Node("object", k, "", <<>>, <<
             Node("fieldId", k + 1, "a", <<>>, <<Leaf("partial", k + 2)>>)>>)
      [] l = "self.a" -> Node("index", k, "a", <<>>, <<Leaf("self", k + 1), Nil>>)
      [] l = "super.a" -> Node("superIndex", k, "a", <<>>, <<Nil>>)
      [] l = "local" -> Node("local", k, "", <<>>, <<Nil>>)

\* What an operator or a suffix takes without parentheses.
Closed == {"var", "dollar", "literal", "string", "self", "superIndex", "index", "apply",
           "applyBrace", "slice", "parens", "object", "objectComp", "arrayComp"}

\* The construct w around n; "_" in its text is n, and labels go on from k.
Around(w, n, k) ==
    LET c == IF n.kind \in Closed THEN n ELSE Made("parens", <<n>>)
        Of(kind, kids) == Node(kind, k, "", <<>>, kids)
        x == Node("var", k + 1, "x", <<>>, <<>>)
        xId == <<Id("x", k + 2)>>
        one == Node("literal", k + 3, "", <<>>, <<>>)
        str(s) == Node("string", k + 4, s, <<>>, <<>>)
        function(body) == Node("function", k + 5, "", xId, <<body>>)
        fieldId(id, m) == Node("fieldId", k + 6, id, <<>>, <<m>>)
        fieldStr(s, m) == Node("fieldStr", k + 6, "", <<>>, <<str(s), m>>)
        fieldExpr(name, m) == Node("fieldExpr", k + 6, "", <<>>, <<name, m>>)
        local(m) == Node("objectLocal", k + 7, "x", <<>>, <<m>>)
        assertion(cond, msg) == Node("objectAssert", k + 7, "", <<>>, <<cond, msg>>)
        object(fields) == Of("object", fields)
        for(expr, conds) == Node("for", 0, "", xId, <<expr>> \o conds)
        forY(m, conds) == Node("for", 0, "", <<Id("y", k + 8)>>, <<m>> \o conds)
    IN CASE w = "(_)" -> Of("parens", <<n>>)
         [] w = "[x, _]" -> Of("operation", <<x, n>>)
         [] w = "_ + x" -> Of("operation", <<c, x>>)
         [] w = "_ == x" -> Node("operator", k, "equals", <<>>, <<c, x>>)
         [] w = "x != _" -> Of("notEqual", <<x, c>>)
         [] w = "_ in x" -> Of("inOperator", <<c, x>>)
         [] w = "_ in super" -> Of("inSuper", <<c>>)
         [] w = "if x then _" -> Of("conditional", <<x, n, Nil>>)
         [] w = "if _ then x else x" -> Of("conditional", <<n, x, one>>)
         [] w = "_(x)" -> Of("apply", <<c, x>>)
         [] w = "x(_)" -> Of("apply", <<x, n>>)
         [] w = "_ {a: x}" -> Of("applyBrace", <<c, Node("object", k + 4, "", <<>>, <<fieldId("a", x)>>)>>)
         [] w = "assert _; x" -> Of("assert", <<n, Nil, x>>)
         [] w = "assert x : 1; _" -> Of("assert", <<x, one, n>>)
         [] w = "x[_:]" -> Of("slice", <<x, n, Nil, Nil>>)
         [] w = "function(x) _" -> function(n)
         [] w = "function(x=_) x" -> Node("function", k, "", xId, <<n, x>>)
         [] w = "local x = _; x" -> Node("local", k, "", xId, <<n, x>>)
         [] w = "local x = _; x.a" -> Node("local", k, "", xId, <<
                n, Node("index", k + 4, "a", <<>>, <<x, Nil>>)>>)
         [] w = "local x = x; _" -> Node("local", k, "", xId, <<x, n>>)
         [] w = "local x(x) = _; x" -> Node("local", k, "", xId, <<
                Node("function", k + 5, "", <<Id("x", k + 8)>>, <<n>>), x>>)
         [] w = "local std = 1; _" -> Node("local", k, "", <<Id("std", k + 2)>>, <<one, n>>)
         [] w = "_.a" -> Node("index", k, "a", <<>>, <<c, Nil>>)
         [] w = "_[x]" -> Of("index", <<c, x>>)
         [] w = "_[1]" -> Of("index", <<c, one>>)
         [] w = "x[_]" -> Of("index", <<x, n>>)
         [] w = "x['a'](_)" -> Of("apply", <<Node("index", k + 5, "", <<>>, <<x, str("a")>>), n>>)
         [] w = "_." -> Of("partialIndex", <<c>>)
         [] w = "super[_]" -> Of("superIndex", <<n>>)
         [] w = "{a: _}" -> object(<<fieldId("a", n)>>)
         [] w = "{'a': _, b: self.a}" -> object(<<fieldStr("a", n),
                Node("fieldId", k + 8, "b", <<>>, <<Leaf("self.a", k + 9)>>)>>)
         [] w = "{b: _, c: self.b.a}" -> object(<<fieldId("b", n),
                Node("fieldId", k + 8, "c", <<>>, <<Node("index", k + 2, "a", <<>>, <<
                    Node("index", k + 4, "b", <<>>, <<Leaf("self", 0), Nil>>), Nil>>)>>)>>)
         [] w = "{'\\u0061': _}" -> object(<<fieldStr("\\u0061", n)>>)
         [] w = "{[_]: x}" -> object(<<fieldExpr(n, x)>>)
         [] w = "{['a']: _}" -> object(<<fieldExpr(str("a"), n)>>)
         [] w = "{[x]: 1, a: _}" -> object(<<
                Node("fieldExpr", k + 8, "", <<>>, <<x, one>>), fieldId("a", n)>>)
         [] w = "{local x = _}" -> object(<<local(n)>>)
         [] w = "{local x = _, a: x, [x]: 1}" -> object(<<local(n), fieldId("a", x),
                Node("fieldExpr", k + 8, "", <<>>, <<Leaf("x", k + 9), one>>)>>)
         [] w = "{a: _, local x = x}" -> object(<<fieldId("a", n), local(x)>>)
         [] w = "{local x = _, assert x}" -> object(<<local(n), assertion(x, Nil)>>)
         [] w = "{assert x : _, a: self.a}" ->
                object(<<assertion(x, n), fieldId("a", Leaf("self.a", k + 8))>>)
         [] w = "[_ for x in x if x]" -> Of("arrayComp", <<n, for(x, <<Leaf("x", k + 8)>>)>>)
         [] w = "[x for x in _]" -> Of("arrayComp", <<x, for(n, <<>>)>>)
         [] w = "[x for y in _ if y for x in y]" -> Of("arrayComp", <<x,
                for(Leaf("y", k + 3), <<>>), forY(n, <<Leaf("y", k + 9)>>)>>)
         [] w = "{[x]: _ for x in x}" ->
                Of("objectComp", <<object(<<fieldExpr(x, n)>>), for(Leaf("x", k + 9), <<>>)>>)
         [] w = "{[_]: x, local x = 1 for y in x if y}" -> Of("objectComp", <<
                object(<<fieldExpr(n, x), local(one)>>),
                forY(Leaf("x", k + 9), <<Leaf("y", k + 5)>>)>>)
=============================================================================
