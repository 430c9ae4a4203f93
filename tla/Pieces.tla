------------------------------- MODULE Pieces -------------------------------
(* What the tokens and the fodder of a text are, said without a cursor: the  *)
(* pieces a reader makes out, each as long as it can be; operators are cut   *)
(* where the code winds them back.  A piece of a text t goes from after rune *)
(* i up to rune j.                                                           *)
EXTENDS Lexer

AllIn(t, i, j, S) == \A k \in i + 1 .. j : t[k] \in S
\* A rune of S, or the runes s, come after rune i.
Comes(t, i, S) == i < Len(t) /\ t[i + 1] \in S
Spells(t, i, s) == i + Len(s) <= Len(t) /\ \A k \in 1..Len(s) : t[i + k] = s[k]
\* The runes of S that come after rune i end at rune j.
Run(t, i, j, S) == j \in i..Len(t) /\ AllIn(t, i, j, S) /\ ~Comes(t, j, S)
IsFirst(j, S) == j \in S /\ \A k \in S : j <= k
-----------------------------------------------------------------------------
(* Numbers, as JSON has them without a sign.                                 *)
Natural(t, i, j) == i < j /\ AllIn(t, i, j, Digits)
Integer(t, i, j) == Natural(t, i, j) /\ (t[i + 1] = "0" => j = i + 1)
Fraction(t, i, j) == i = j \/ (i < j /\ t[i + 1] = "." /\ Natural(t, i + 1, j))
Signed(t, i, j) == j = i \/ (j = i + 1 /\ t[j] \in {"+", "-"})
Power(t, i, j) ==
    \/ i = j
    \/ /\ i < j /\ t[i + 1] = "e"
       /\ \E k \in i + 1 .. j : Signed(t, i + 1, k) /\ Natural(t, k, j)
Number(t, i, j) ==
    \E a \in i..j : \E b \in a..j : Integer(t, i, a) /\ Fraction(t, a, b) /\ Power(t, b, j)
\* A digit is missing.
Unfinished(t, i, j) ==
    \E a \in i..j :
        /\ Integer(t, i, a)
        /\ \/ j = a + 1 /\ t[j] = "."
           \/ \E b \in a..j : /\ Fraction(t, a, b)
                              /\ b < j /\ t[b + 1] = "e" /\ Signed(t, b + 1, j)
BeginsNumber(t, i, j) == Number(t, i, j) \/ Unfinished(t, i, j)
Longest(t, i, j) ==
    j \in i..Len(t) /\ (\A k \in i + 1 .. j : BeginsNumber(t, i, k)) /\ (j < Len(t) => ~BeginsNumber(t, i, j + 1))

(* Strings.  An odd number of runes x ends at rune k, counted from rune i on. *)
OddRun(t, i, k, x) ==
    \E j \in i..k : AllIn(t, j, k, {x}) /\ (j > i => t[j] # x) /\ (k - j) % 2 = 1
StringEnds(t, i) == {k \in i + 2 .. Len(t) : t[k] = t[i + 1] /\ ~OddRun(t, i + 1, k - 1, "\\")}
\* In a verbatim string a doubled quote stands for the quote.
VerbatimEnds(t, i) ==
    {k \in i + 3 .. Len(t) : OddRun(t, i + 2, k, t[i + 2]) /\ ~Comes(t, k, {t[i + 2]})}
Undoubled(t, i, j) == {k \in i + 3 .. j : t[k] # t[i + 2] \/ OddRun(t, i + 2, k, t[i + 2])}

CommentEnds(t, i) == {k \in i + 4 .. Len(t) : Spells(t, k - 2, <<"*", "/">>)}

\* An operator ends before a comment or a text block; if that would be after one of
\* + - ! it is its first rune alone (lexer.go:671).
Cut(t, i) == \E s \in {<<"/", "/">>, <<"/", "*">>, <<"|", "|", "|">>} : Spells(t, i, s)
OperatorEnds(t, i) == {k \in i + 1 .. Len(t) : Cut(t, k) \/ ~Comes(t, k, Symbols)}
Operator(t, i, j) ==
    /\ Comes(t, i, Symbols) /\ ~Cut(t, i)
    /\ \E k \in OperatorEnds(t, i) :
          /\ IsFirst(k, OperatorEnds(t, i))
          /\ j = IF t[k] \in {"+", "-", "!"} THEN i + 1 ELSE k

(* Text blocks: the lines after rune h are indented like the first that is   *)
(* not empty, or they are empty, up to a last one, which is after rune l.    *)
Headers(t, i) == {h \in i + 4 .. Len(t) : Run(t, i + 3, h - 1, Blanks) /\ Comes(t, h - 1, {"newline"})}
FirstLines(t, h) == {k \in h..Len(t) : Run(t, h, k, {"newline"})}
MarginEnds(t, k) == {j \in k + 1 .. Len(t) : Run(t, k, j, Indents)}
Margins(t, h) == UNION {{SubSeq(t, k + 1, j) : j \in MarginEnds(t, k)} : k \in FirstLines(t, h)}
Lines(t, h) == {k \in h..Len(t) : k = h \/ t[k] = "newline"}
Belongs(t, k, margin) == Comes(t, k, {"newline"}) \/ Spells(t, k, margin)
LastLines(t, h, margin) == {k \in Lines(t, h) : ~Belongs(t, k, margin)}
InMargin(t, h, margin, k) ==
    \E l \in Lines(t, h) : ~Comes(t, l, {"newline"}) /\ l < k /\ k <= l + Len(margin)
Unindented(t, h, margin, l) == {k \in h + 1 .. l : ~InMargin(t, h, margin, k)}
Block(t, i, j) ==
    \E h \in Headers(t, i) : \E margin \in Margins(t, h) : \E l \in LastLines(t, h, margin) :
        /\ IsFirst(l, LastLines(t, h, margin))
        /\ l + 3 <= j /\ Run(t, l, j - 3, Indents) /\ Spells(t, j - 3, <<"|", "|", "|">>)
-----------------------------------------------------------------------------
(* The pieces of each kind, the delimiters of comments included.             *)
Spaces == Blanks \cup {"newline"}
Line == Runes \ {"newline"}
Piece(t, kind, i, j) ==
    \/ kind = "space" /\ i < j /\ Run(t, i, j, Spaces)
    \/ kind = "# comment" /\ Comes(t, i, {"#"}) /\ Run(t, i + 1, j, Line)
    \/ kind = "// comment" /\ Spells(t, i, <<"/", "/">>) /\ Run(t, i + 2, j, Line)
    \/ kind = "/* comment" /\ Spells(t, i, <<"/", "*">>) /\ IsFirst(j, CommentEnds(t, i))
    \/ kind \in Punctuation \cup {"."} /\ Comes(t, i, {kind}) /\ j = i + 1
    \/ kind = "number" /\ Comes(t, i, Digits) /\ Longest(t, i, j) /\ Number(t, i, j)
    \/ /\ kind \in {"identifier", "keyword"} /\ Comes(t, i, Letters) /\ Run(t, i, j, Letters \cup Digits)
       /\ kind = "keyword" <=> SubSeq(t, i + 1, j) \in Keywords
    \/ kind = "string" /\ Comes(t, i, Quotes) /\ IsFirst(j, StringEnds(t, i))
    \/ /\ kind = "verbatim" /\ Comes(t, i, {"@"}) /\ Comes(t, i + 1, Quotes)
       /\ IsFirst(j, VerbatimEnds(t, i))
    \/ /\ kind \in {"operator", "$"} /\ Operator(t, i, j)
       /\ kind = "$" <=> SubSeq(t, i + 1, j) = <<"$">>
    \/ kind = "block" /\ Spells(t, i, <<"|", "|", "|">>) /\ Block(t, i, j)

\* Nothing can be made out.
Junk(t, i) == Comes(t, i, Runes) /\ \A j \in i..Len(t) : \A kind \in Kinds \cup Comments \cup {"space"} : ~Piece(t, kind, i, j)

\* s is the runes of t with numbers in K.
Keeps(t, K, s) ==
    Len(s) = Cardinality(K) /\ \A k \in K : s[Cardinality({m \in K : m <= k})] = t[k]
Data(t, kind, i, j, s) ==
    CASE kind = "string" -> s = SubSeq(t, i + 2, j - 1)
      [] kind = "verbatim" -> Keeps(t, Undoubled(t, i, j - 1), s)
      [] kind = "block" ->
           \E h \in Headers(t, i) : \E margin \in Margins(t, h) : \E l \in LastLines(t, h, margin) :
               IsFirst(l, LastLines(t, h, margin)) /\ Keeps(t, Unindented(t, h, margin, l), s)
      [] OTHER -> s = SubSeq(t, i + 1, j)

Spelled(t, token) ==
    /\ \/ Piece(t, token.kind, token.from, token.to)
       \/ token.kind = "eof" /\ token.from = Len(t) /\ token.to = Len(t)
    /\ Data(t, token.kind, token.from, token.to, token.data)

\* Fodder of a comment is what is between its delimiters.
Opens(f) == f.from - (IF f.kind = "space" THEN 0 ELSE IF f.kind = "# comment" THEN 1 ELSE 2)
Closes(f) == f.to + (IF f.kind = "/* comment" THEN 2 ELSE 0)
\* What is between rune i and rune j is fodder, without a gap.
Fills(t, all, i, j) ==
    /\ \A k \in 1..Len(all) :
          /\ Piece(t, all[k].kind, Opens(all[k]), Closes(all[k]))
          /\ Opens(all[k]) = IF k = 1 THEN i ELSE Closes(all[k - 1])
    /\ j = IF all = <<>> THEN i ELSE Closes(all[Len(all)])
-----------------------------------------------------------------------------
\* Rune at which the k-th token ends.
End(k) == IF k = 0 THEN 0 ELSE tokens[k].to

\* Lex recognises what the text says (lexer.go:688): the tokens, their data and their
\* fodder are the pieces of the text, without a gap, and it fails where there is
\* none.
RecognisesText ==
    at \in {"done", "error"} =>
        /\ \A k \in 1..Len(tokens) :
              Fills(text, tokens[k].fodder, End(k - 1), tokens[k].from) /\ Spelled(text, tokens[k])
        /\ at = "done" => tokens # <<>> /\ tokens[Len(tokens)].kind = "eof"
        /\ at = "error" => \E i \in 0..Len(text) : Fills(text, fodder, End(Len(tokens)), i) /\ Junk(text, i)
=============================================================================
