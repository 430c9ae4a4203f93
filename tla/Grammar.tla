------------------------------ MODULE Grammar ------------------------------
(* The sentences Parser is meant to accept, as a grammar of token kinds.    *)
(* A text is a sequence of kinds; Is... says that it can be derived from    *)
(* the construct named.  Precedence does not change what can be derived.    *)
EXTENDS Parser

Part(s, i, j) == SubSeq(s, i, j)
From(s, i) == SubSeq(s, i, Len(s))
Inner(s) == SubSeq(s, 2, Len(s) - 1)
Where(s, ks) == {i \in DOMAIN s : s[i] \in ks}

RECURSIVE IsExpression(_), IsArguments(_, _, _), IsList(_), IsSpecs(_), IsSpecTail(_),
          IsMembers(_, _), IsBinds(_, _)

\* `in` brackets: an expression, or a slice of up to three, two colons long.
IsOptional(s) == s = <<>> \/ IsExpression(s)
IsSlice(s) ==
    \/ \E i \in Where(s, {":"}) :
          /\ IsOptional(Part(s, 1, i - 1))
          /\ \/ IsOptional(From(s, i + 1))
             \/ \E j \in Where(s, {":"}) :
                   /\ j > i
                   /\ IsOptional(Part(s, i + 1, j - 1))
                   /\ IsOptional(From(s, j + 1))
    \/ \E i \in Where(s, {"::"}) : IsOptional(Part(s, 1, i - 1)) /\ IsOptional(From(s, i + 1))

\* Positional ones, then named ones; a trailing comma.
IsArguments(s, parameters, afterNamed) ==
    \/ s = <<>>
    \/ \E i \in DOMAIN s :
          LET a == Part(s, 1, i)
              named == i > 2 /\ a[1] \in Names /\ a[2] = "=" /\ IsExpression(From(a, 3))
              positional == /\ ~afterNamed
                            /\ IF parameters THEN i = 1 /\ a[1] \in Names ELSE IsExpression(a)
          IN /\ i = Len(s) \/ s[i + 1] = ","
             /\ named \/ positional
             /\ i = Len(s) \/ IsArguments(From(s, i + 2), parameters, named)

IsList(s) ==
    \/ s = <<>>
    \/ \E i \in DOMAIN s : /\ i = Len(s) \/ s[i + 1] = ","
                           /\ IsExpression(Part(s, 1, i))
                           /\ i = Len(s) \/ IsList(From(s, i + 2))

IsSpecs(s) ==
    /\ Len(s) > 3 /\ s[1] = "for" /\ s[2] \in Names /\ s[3] = "in"
    /\ \E i \in 4..Len(s) : IsExpression(Part(s, 4, i)) /\ IsSpecTail(From(s, i + 1))
IsSpecTail(s) ==
    \/ s = <<>>
    \/ IsSpecs(s)
    \/ /\ s[1] = "if"
       /\ \E i \in 2..Len(s) : IsExpression(Part(s, 2, i)) /\ IsSpecTail(From(s, i + 1))

IsElements(s) ==
    \/ IsList(s)
    \/ \E i \in Where(s, {"for"}) :
          LET n == IF i > 1 /\ s[i - 1] = "," THEN i - 2 ELSE i - 1
          IN IsExpression(Part(s, 1, n)) /\ IsSpecs(From(s, i))

\* A condition and, after a colon, its message.
IsCondition(s) ==
    \/ IsExpression(s)
    \/ \E i \in Where(s, {":"}) : IsExpression(Part(s, 1, i - 1)) /\ IsExpression(From(s, i + 1))

\* What follows a name: parameters or none, one of the operators, a body.
IsAssigned(s, operators) ==
    \/ Len(s) > 1 /\ s[1] \in operators /\ IsExpression(Tail(s))
    \/ /\ s # <<>> /\ s[1] = "("
       /\ \E i \in Where(s, operators \ {"+:"}) :
             i > 2 /\ s[i - 1] = ")" /\ IsArguments(Part(s, 2, i - 2), TRUE, FALSE)
                /\ IsExpression(From(s, i + 1))

IsBind(s) == s # <<>> /\ s[1] \in Names /\ IsAssigned(Tail(s), {"="})
IsBinds(s, names) ==
    \E i \in DOMAIN s :
       /\ s[1] \notin names
       /\ i = Len(s) \/ s[i + 1] = ","
       /\ IsBind(Part(s, 1, i))
       /\ i = Len(s) \/ IsBinds(From(s, i + 2), names \cup {s[1]})

\* Fields, locals and asserts; of a comprehension one computed visible field.
FieldOperators == {":", "::", "+:"}
IsMembers(s, o) ==
    \/ s = <<>>
    \/ s[1] = "for" /\ ~o.asserts /\ o.fields = 1 /\ o.lone /\ IsSpecs(s)
    \/ \E i \in DOMAIN s :
          LET m == Part(s, 1, i)
              key == {s[1]}
              Rest(p) == \/ i = Len(s)
                         \/ s[i + 1] = "," /\ IsMembers(From(s, i + 2), p)
                         \/ s[i + 1] = "for" /\ IsMembers(From(s, i + 1), p)
              counted == [o EXCEPT !.fields = @ + 1, !.lone = FALSE]
          IN /\ i = Len(s) \/ s[i + 1] \in {",", "for"}
             /\ \/ /\ s[1] \in Names \cup Strings \cup {"block"} /\ s[1] \notin o.lits
                   /\ IsAssigned(Tail(m), FieldOperators)
                   /\ Rest([counted EXCEPT !.lits = @ \cup key])
                \/ /\ s[1] = "["
                   /\ \E j \in Where(m, {"]"}) :
                         /\ IsExpression(Part(m, 2, j - 1))
                         /\ \/ IsAssigned(From(m, j + 1), {":", "+:"})
                                  /\ Rest([counted EXCEPT !.lone = TRUE])
                            \/ IsAssigned(From(m, j + 1), {"::"}) /\ Rest(counted)
                \/ /\ s[1] = "local" /\ IsBind(Tail(m)) /\ m[2] \notin o.binds
                   /\ Rest([o EXCEPT !.binds = @ \cup {m[2]}])
                \/ /\ s[1] = "assert" /\ IsCondition(Tail(m))
                   /\ Rest([o EXCEPT !.asserts = TRUE])
IsObject(s) == IsMembers(s, Object)

IsExpression(s) ==
    LET n == Len(s)
        last == s[n]
        Left(i) == IsExpression(Part(s, 1, i - 1))
        Right(i) == IsExpression(From(s, i + 1))
        Between(i) == Part(s, i + 1, n - 1)
    IN /\ s # <<>>
       /\ \/ n = 1 /\ last \in Names \cup Strings \cup {"lit", "block"}
          \/ n = 3 /\ s[1] = "super" /\ s[2] = "." /\ last \in Names
          \/ n > 3 /\ s[1] = "super" /\ s[2] = "[" /\ last = "]" /\ IsExpression(Between(2))
          \/ s[1] = "(" /\ last = ")" /\ IsExpression(Inner(s))
          \/ n > 1 /\ s[1] = "[" /\ last = "]" /\ IsElements(Inner(s))
          \/ n > 1 /\ s[1] = "{" /\ last = "}" /\ IsObject(Inner(s))
          \/ n > 2 /\ s[n - 1] = "." /\ last \in Names /\ Left(n - 1)
          \/ last = "]" /\ \E i \in Where(s, {"["}) :
                              /\ IsExpression(Between(i)) \/ IsSlice(Between(i))
                              /\ Left(i)
          \/ last = ")" /\ \E i \in Where(s, {"("}) : IsArguments(Between(i), FALSE, FALSE) /\ Left(i)
          \/ /\ last = "tailstrict" /\ n > 1 /\ s[n - 1] = ")"
             /\ \E i \in Where(s, {"("}) : IsArguments(Part(s, i + 1, n - 2), FALSE, FALSE) /\ Left(i)
          \/ last = "}" /\ \E i \in Where(s, {"{"}) : IsObject(Between(i)) /\ Left(i)
          \/ \E i \in Where(s, DOMAIN bopPrecedence) : Left(i) /\ Right(i)
          \/ n > 2 /\ s[n - 1] = "in" /\ last = "super" /\ Left(n - 1)
          \/ s[1] \in UopMap \cup {"error"} /\ Right(1)
          \/ s[1] = "import" /\ n = 2 /\ last \in Strings
          \/ s[1] = "assert" /\ \E i \in Where(s, {";"}) : IsCondition(Part(s, 2, i - 1)) /\ Right(i)
          \/ s[1] = "local" /\ \E i \in Where(s, {";"}) : IsBinds(Part(s, 2, i - 1), {}) /\ Right(i)
          \/ /\ s[1] = "if"
             /\ \E i \in Where(s, {"then"}) :
                   /\ IsExpression(Part(s, 2, i - 1))
                   /\ \/ Right(i)
                      \/ \E j \in Where(s, {"else"}) :
                            j > i /\ IsExpression(Part(s, i + 1, j - 1)) /\ Right(j)
          \/ /\ s[1] = "function" /\ n > 3 /\ s[2] = "("
             /\ \E i \in Where(s, {")"}) : IsArguments(Part(s, 3, i - 1), TRUE, FALSE) /\ Right(i)
=============================================================================
