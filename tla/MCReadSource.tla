---------------------------- MODULE MCReadSource ----------------------------
(* Dialects of documents, and what is true of a document as it is written.  *)
EXTENDS ReadSource, FiniteSets

Dialect(leaves, around, max) == [leaves |-> leaves, around |-> around, max |-> max]

Anything == {
    "(_)", "[x, _]", "_ + x", "_ == x", "x != _", "_ in x", "_ in super", "if x then _",
    "if _ then x else x", "_(x)", "x(_)", "_ {a: x}", "assert _; x", "assert x : 1; _",
    "x[_:]", "function(x) _", "function(x=_) x", "local x = _; x", "local x = x; _",
    "local x(x) = _; x", "local std = 1; _", "_.a", "_[x]", "_[1]", "x[_]", "x['a'](_)",
    "_.", "super[_]", "{a: _}", "{'a': _, b: self.a}", "{'\\u0061': _}", "{[_]: x}",
    "{['a']: _}", "{[x]: 1, a: _}", "{local x = _}", "{local x = _, a: x, [x]: 1}",
    "{a: _, local x = x}", "{local x = _, assert x}", "{assert x : _, a: self.a}",
    "[_ for x in x if x]", "[x for x in _]", "[x for y in _ if y for x in y]",
    "{[x]: _ for x in x}", "{[_]: x, local x = 1 for y in x if y}"}
Scopes == {
    "function(x) _", "local x = _; x", "{a: _}", "{[_]: x}", "{local x = _, a: x, [x]: 1}",
    "{a: _, local x = x}", "{local x = _, assert x}", "[_ for x in x if x]",
    "[x for y in _ if y for x in y]", "{[x]: _ for x in x}", "{[_]: x, local x = 1 for y in x if y}"}
Moved == {
    "local x = _; x", "{a: _}", "{local x = _, a: x, [x]: 1}", "{local x = _, assert x}",
    "[x for y in _ if y for x in y]", "{[x]: _ for x in x}"}
Paths == {
    "_.a", "_[x]", "_[1]", "x[_]", "(_)", "x(_)", "{a: _}", "{'a': _, b: self.a}",
    "{a: _, local x = x}", "{b: _, c: self.b.a}"}
Errors == {
    "_(x)", "_ + x", "_ {a: x}", "(_)", "if x then _", "_.", "super[_]", "{a: _}", "{[_]: x}",
    "{local x = _}", "[x, _]", "local x = x; _"}
Tails == {"local x = x; _", "function(x) _", "if x then _", "assert x : 1; _", "[x, _]"}

Sources == {
    Dialect({"x", "$", "self", "self.a", "super.a", "1", "'\\'", "{a: ,}"}, Anything, 2),
    Dialect({"x", "y", "$"}, Scopes, 3),
    Dialect({"$"}, Moved, 4),
    Dialect({"x", "self", "self.a"}, Paths, 3),
    Dialect({"$", "self", "'\\'"}, Errors, 3),
    Dialect({"partial", "local"}, Tails, 2) }
\* Paths into a local object.
FieldSources == {Dialect({"1"}, {"{a: _}", "local x = _; x.a"}, 3)}
-----------------------------------------------------------------------------
(* Lexical scoping.  An environment gives each name the label of what binds *)
(* it, 0 if nothing does; $ is bound by the outermost object.  The trees    *)
(* are those of the parser, those of the desugarer, and what lies between.  *)
Names == {"x", "y", "std", "$"}
Unbound == [name \in Names |-> 0]
Bind(ids, env) ==
    [name \in Names |-> LET i == SelectLastInSeq(ids, LAMBDA id : id.name = name)
                        IN IF i = 0 THEN env[name] ELSE ids[i].at]
BindDollar(at, env) == IF env["$"] # 0 THEN env ELSE [env EXCEPT !["$"] = at]

LocalIds(n) == [i \in DOMAIN Locals(n) |-> Id(Locals(n)[i].name, Locals(n)[i].at)]
\* The names of an object's fields are outside of it; locals no field can use are nowhere.
FieldNames(n) == {f.kids[1] : f \in {g \in Kids(n) : g.kind \in {"fieldStr", "fieldExpr"}}}
FieldParts(n) ==
    IF Fields(n) = <<>> THEN {}
    ELSE UNION {IF f.kind = "objectAssert" THEN Kids(f) ELSE {Last(f.kids)} : f \in Kids(n)}

\* The loops of a comprehension from the i-th part on, from the last to the i-th.
RECURSIVE Loops(_, _, _)
Loops(n, i, env) ==
    IF i > Len(n.kids) THEN env ELSE Bind(n.kids[i].ids, Loops(n, i + 1, env))

\* The variables used in n: which, where, and what binds them.
RECURSIVE Uses(_, _), UsesOfObject(_, _, _)
UsesOfObject(n, at, env) ==
    LET inner == Bind(LocalIds(n), BindDollar(at, env))
    IN UNION {Uses(m, env) : m \in FieldNames(n)} \cup UNION {Uses(m, inner) : m \in FieldParts(n)}
Uses(n, env) ==
    CASE n.kind = "var" -> {[name |-> n.name, at |-> n.at, binder |-> env[n.name]]}
      [] n.kind = "dollar" -> {[name |-> "$", at |-> n.at, binder |-> env["$"]]}
      [] n.kind = "object" -> UsesOfObject(n, n.at, env)
      [] n.kind \in {"arrayComp", "objectComp"} ->
           LET inner == Loops(n, 2, env)
           IN (IF n.kind = "arrayComp" THEN Uses(n.kids[1], inner)
               ELSE UsesOfObject(n.kids[1], n.at, inner))
              \cup UNION {UNION {Uses(n.kids[i].kids[j], Loops(n, IF j = 1 THEN i + 1 ELSE i, env)) :
                                   j \in DOMAIN n.kids[i].kids} : i \in 2..Len(n.kids)}
      [] n.kind \in {"function", "local"} -> UNION {Uses(m, Bind(n.ids, env)) : m \in Kids(n)}
      [] OTHER -> UNION {Uses(m, env) : m \in Kids(n)}
-----------------------------------------------------------------------------
(* Why a document is not taken.                                             *)
\* The parts of n that are desugared; with heeded, those whose errors count.
RECURSIVE Desugared(_, _)
Desugared(n, heeded) ==
    {n} \cup CASE n.kind \in {"superIndex", "partialIndex"} -> {}
               [] n.kind = "object" /\ Fields(n) = <<>> -> {}
               [] n.kind = "apply" /\ heeded ->
                    UNION {Desugared(n.kids[i], TRUE) : i \in 2..Len(n.kids)}
               [] OTHER -> UNION {Desugared(m, heeded) : m \in Kids(n)}

\* Malformed strings, and a $ outside of all objects.
Wrong(heeded) ==
    {m \in Desugared(doc, heeded) :
        \/ m.kind = "string" /\ m.name = "\\"
        \/ m.kind = "dollar" /\ [name |-> "$", at |-> m.at, binder |-> 0] \in Uses(doc, Unbound)}

Kinds(n) == {m.kind : m \in Nodes(n)}
\* Objects with something besides a local in which something is missing.
Uncloneable ==
    \E n \in Desugared(doc, FALSE) : n.kind = "object" /\ \E f, g \in Kids(n) :
        /\ f.kind = "objectLocal" /\ g.kind # "objectLocal"
        /\ Kinds(f) \cap {"partial", "partialIndex"} # {}

RECURSIVE Inner(_)
Inner(n) == IF n.kind = "parens" THEN Inner(n.kids[1]) ELSE n
\* No error is ignored and nothing stays as it was parsed.
Tidy == /\ Wrong(FALSE) = {}
        /\ Kinds(doc) \cap {"superIndex"} = {}
        /\ ~\E n \in Nodes(doc) : n.kind = "local" /\ Last(n.kids) = Nil

Called(function) == stage[1] = function
Ended(function, out) == stage = <<function, out>>

\* Desugaring and analysis reject a document, or panic, for what is wrong in it:
\* a malformed string or a stray $ (desugar.go:440), an incomplete local that must
\* be cloned (desugar.go:145), a document that is self or super; and what is wrong
\* is found, but for what the target of a call, the index of super and the target
\* of an incomplete index hide.
RejectsForACause ==
    /\ Ended("Desugar", "error") => Wrong(TRUE) # {}
    /\ Ended("Desugar", "panic") => Uncloneable
    /\ ~Called("Parse") /\ (Wrong(TRUE) # {} \/ (Uncloneable /\ Wrong(FALSE) = {}))
         => Called("Desugar") /\ stage[2] # "ok"
    /\ Called("Analyze") =>
         /\ Ended("Analyze", "error") <=> Inner(doc).kind \in {"self", "superIndex", "inSuper"}
         /\ Ended("Analyze", "panic") => ~Tidy
-----------------------------------------------------------------------------
\* Desugaring keeps what a variable, or $, means: every use that was written is
\* there, and each copy of it is bound by what binds it in the text, across the
\* objects, comprehensions and hidden locals it was moved through (desugar.go:142).
Meanings(n) == {use \in Uses(n, Unbound) : use.at # 0}
KeepsBindings == Ended("Desugar", "ok") => Meanings(node) = Meanings(doc)
-----------------------------------------------------------------------------
RECURSIVE Stray(_), RightlyFree(_, _)
\* A self or super outside of an object.
Stray(n) == \/ n.kind \in {"self", "superIndex", "inSuper"}
            \/ n.kind # "desugaredObject" /\ \E m \in Kids(n) : Stray(m)
            \/ n.kind = "desugaredObject" /\ \E f \in Kids(n) : f.kind = "field" /\ Stray(f.kids[1])
RightlyFree(n, bound) ==
    /\ n.fv = {use.name : use \in {u \in Uses(n, Unbound) : u.binder = 0}} \cap bound
    /\ \A m \in Kids(n) : RightlyFree(m, bound \cup
            IF n.kind \in {"function", "local"} THEN {n.ids[i].name : i \in DOMAIN n.ids} ELSE {})

\* The free variables recorded for each node are those it uses and what is around
\* it binds, unless an error that was dropped cut the visit short
\* (static_analyzer.go:238) or an incomplete index did.
FreeVariables ==
    Ended("Analyze", "ok") /\ Tidy /\ ~Stray(node) /\ "partialIndex" \notin Kinds(doc) => RightlyFree(node, {"std"})
-----------------------------------------------------------------------------
(* What is written, as scanScope should find it.                            *)
ByStd == {"operator", "inOperator", "slice", "arrayComp", "objectComp"}
RECURSIVE Root(_), Path(_), FieldAt(_, _), Occurrences(_, _)
Root(n) ==
    CASE n.kind \in {"index", "apply", "parens"} -> Root(n.kids[1])
      [] n.kind = "var" -> n.name
      [] n.kind = "dollar" -> "$"
      [] n.kind = "self" -> "self"
      [] n.kind \in ByStd -> "std"
      [] OTHER -> "panic"
Step(n) == IF n.name # "" THEN <<n.name>>
           ELSE LET index == Inner(n.kids[2])
                IN IF index.kind = "string" THEN <<stringUnescape(index.name)>> ELSE <<>>
Path(n) ==
    CASE n.kind = "index" -> Path(n.kids[1]) \o Step(n)
      [] n.kind \in {"apply", "parens"} -> Path(n.kids[1])
      [] OTHER -> <<>>

\* Fields with a name that is computed are passed over.
Named(f) ==
    \/ f.kind = "fieldId"
    \/ f.kind \in {"fieldStr", "fieldExpr"} /\ Inner(f.kids[1]).kind = "string"
Key(f) == IF f.kind = "fieldId" THEN f.name ELSE stringUnescape(Inner(f.kids[1]).name)

\* The objects that no object is around.
RECURSIVE Outermost(_)
Outermost(n) ==
    IF n.kind = "object" THEN {n.at} \cup UNION {Outermost(m) : m \in FieldNames(n)}
    ELSE UNION {Outermost(m) : m \in Kids(n)}

\* The field a path leads to in the text of object o.  Past the first step it is
\* known to be found only where the fields of o share locals, or $, and where all
\* names are literal.
FieldAt(o, path) ==
    LET named == {f \in Kids(o) : \/ f.kind = "fieldId" /\ f.name = path[1]
                                  \/ f.kind = "fieldStr" /\ f.kids[1].name = path[1]}
        nested == {Inner(Last(f.kids)) : f \in named}
        sure == /\ o.at \in Outermost(doc) \/ Locals(o) # <<>>
                /\ \A f \in Kids(o) : f.kind \in {"fieldStr", "fieldExpr"} => Named(f)
        found == UNION {FieldAt(m, Tail(path)) : m \in {m \in nested : m.kind = "object"}}
    IN IF Len(path) = 1
       THEN {[at |-> IF f.kind = "fieldId" THEN f.at ELSE f.kids[1].at, sure |-> TRUE] : f \in named}
       ELSE {[step EXCEPT !.sure = @ /\ sure] : step \in found}

\* Names as they are referred to in n, with object o around it.
Occurrence(name, at, o, path) ==
    [name |-> name, at |-> at, path |-> path,
     declared |-> IF name = "self" /\ path # <<>> THEN FieldAt(o, path) ELSE {}]
OccurrenceOf(n, o) ==
    LET index == Inner(n.kids[2])
        at == IF n.name # "" \/ index.kind \in {"string", "self"} THEN n.at ELSE 0
    IN IF Root(n) # "panic" /\ n.name = "" /\ index.kind \in {"var", "dollar"} THEN {}
       ELSE {Occurrence(Root(n), at, o, Path(n))}
OccurrencesInObject(n, o) ==
    LET named == {f \in Kids(n) : Named(f)}
    IN UNION {Occurrences(Last(f.kids), o) : f \in named}
       \cup (IF named = {} THEN {} ELSE UNION {Occurrences(f.kids[1], o) : f \in {g \in Kids(n) : IsLocal(g)}})
       \cup (IF \E f \in named : FieldAt(o, <<Key(f)>>) = {} THEN {Occurrence("panic", 0, Nil, <<>>)} ELSE {})
Occurrences(n, o) ==
    CASE n.kind = "var" -> {Occurrence(n.name, n.at, Nil, <<>>)}
      [] n.kind = "dollar" -> {Occurrence("$", n.at, Nil, <<>>)}
      [] n.kind = "index" -> OccurrenceOf(n, o) \cup UNION {Occurrences(m, o) : m \in Kids(n)}
      [] n.kind = "object" -> OccurrencesInObject(n, n)
      [] n.kind = "objectComp" ->
           OccurrencesInObject(n.kids[1], Nil)
           \cup UNION {UNION {Occurrences(m, o) : m \in Kids(n.kids[i])} : i \in 2..Len(n.kids)}
      [] n.kind = "partialIndex" -> {}
      [] OTHER -> UNION {Occurrences(m, o) : m \in Kids(n)}

Written == Occurrences(doc, Nil)

\* The scan finds each use of a name, and each step of a path that starts at one,
\* where it was written, and nothing else, in all that it visits: not in asserts,
\* in fields with computed names and before an incomplete index.  It panics where
\* a path starts at something else than a variable, a call or self, and at a name
\* without a location (scope_graph.go:400).
FindsReferences ==
    Called("Scan") /\ Tidy =>
        IF \E o \in Written : o.name = "panic" THEN stage[2] = "panic"
        ELSE /\ stage[2] = "ok"
             /\ {<<ref.name, ref.at>> : ref \in {r \in refs : r.at # 0}}
                  = {<<o.name, o.at>> : o \in {w \in Written : w.at # 0}}

\* The names referred to, by the text or by what the desugarer makes of it.
Referred == {o.name : o \in Written}
            \cup IF Kinds(doc) \cap (ByStd \cup {"notEqual"}) # {} THEN {"std"} ELSE {}

\* Nothing is highlighted where the position is in no reference.  In one, all
\* references to one name are, whatever it is bound to, and the fields that paths
\* from self lead to; one past the first step may be missing.  It is the name at
\* the position where the document has no other (scope_graph.go:120).
Highlights ==
    Ended("Highlight", "ok") /\ Tidy =>
        IF place = 0 THEN answer = {}
        ELSE \E name \in Referred :
               LET found == {o \in Written : o.name = name}
                   located == {o.at : o \in found}
                   declared == UNION {o.declared : o \in found}
               IN /\ (located \cup {d.at : d \in {e \in declared : e.sure}}) \ {0} \subseteq answer
                  /\ answer \subseteq located \cup {d.at : d \in declared} \cup {0}

\* At a step of a path from a local that is an object, what is highlighted is the
\* field the path leads to and every reference to that field (highlight_test.go:67).
HighlightsField ==
    Ended("Highlight", "ok") /\ doc.kind = "local" /\ Inner(doc.kids[1]).kind = "object"
        /\ (\A n \in Nodes(doc) : n.kind = "local" => n = doc) =>
        \A o \in Written : o.at = place /\ o.path # <<>> =>
            answer = {p.at : p \in {q \in Written : q.name = o.name /\ q.path = o.path}}
                       \cup {f.at : f \in FieldAt(Inner(doc.kids[1]), o.path)}
=============================================================================
